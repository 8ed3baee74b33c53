-------------------------------- MODULE Auth --------------------------------
(***************************************************************************)
(* Verify codes, logins and token checks: the handlers behind              *)
(* /request_verify_code and /login and the token gate of every request     *)
(* (src/control/db_proxy.cpp, src/net/api.cpp).                            *)
(*                                                                         *)
(* A worker is one process that serves one request at a time: the drogon   *)
(* server runs its handlers on one event loop, and every debug invocation  *)
(* of the binary is one more process on the same MySQL database.  Workers  *)
(* interleave between SQL statements.  A statement outside a transaction   *)
(* is committed by itself; the values a handler computes from a result set *)
(* are computed in the step of that query, and become stale from then on.  *)
(*                                                                         *)
(* Only rows whose del_time is NULL are represented: every query filters   *)
(* the others out.  A user id that user_tel or user_session mentions and   *)
(* that is not in user is a soft-deleted account.                          *)
(***************************************************************************)
EXTENDS Integers, FiniteSets

CONSTANTS
  Workers,          \* processes that serve requests
  Number,           \* phone numbers that pass the body check
  BadNumber,        \* a phone number the body check refuses
  Code, NoCode,     \* verify codes
  Platform,         \* client types getClientType recognises
  Unknow,           \* what getClientType makes of any other client type
  Missing,          \* no client_type in the body
  RawClient,        \* client types that clients send
  TelId, User, SessionId,   \* primary keys
  Token,            \* tokens the program generates
  BadToken,         \* a token it never generated
  NoToken,          \* no token header
  None,             \* no row, no id
  NoTime,           \* NULL in vc_update_time
  VcLife,           \* VERIFY_CODE_LIFE_TIME, in ticks
  DefaultMaxAge,    \* max_age of a new session, in ticks
  MaxTime,          \* bound: the clock stops there
  Seeds             \* databases the program may be started on

ASSUME WorkersAssumption == IsFiniteSet(Workers) /\ Workers # {}
ASSUME TimeAssumption ==
  VcLife \in Nat /\ DefaultMaxAge \in Nat /\ MaxTime \in Nat /\ NoTime \notin Nat
ASSUME NullAssumption ==
  /\ BadNumber \notin Number /\ NoCode \notin Code
  /\ {BadToken, NoToken} \cap Token = {} /\ BadToken # NoToken
  /\ None \notin TelId \cup User \cup SessionId \cup Workers
  /\ Missing \notin Platform \cup {Unknow}

VARIABLES
  telephone,    \* telephone[i]: the row with id i, or None
  user,         \* ids of the rows of user
  userTel,      \* rows <<user, telephone, flag>> of user_tel
  session,      \* session[s]: the row with id s, or None
  userSession,  \* rows <<user, session>> of user_session
  now,          \* the clock
  pc, req, loc, \* per worker: next statement, request, local variables
  resp,         \* the response this step sent, or Silent
  issued        \* history: issued[t] is the user token t was generated for

tables   == <<telephone, user, userTel, session, userSession>>
accounts == <<user, userTel, userSession>>
vars     == <<tables, now, pc, req, loc, resp, issued>>

-----------------------------------------------------------------------------
(* Rows, requests and responses *)

Client     == Platform \cup {Unknow}
TelRow     == [number: Number, code: Code \cup {NoCode}, at: Nat \cup {NoTime}]
SessionRow == [client: Client, token: Token, maxAge: Nat, at: Nat]

ASSUME RowAssumption ==
  /\ None \notin TelRow \cup SessionRow
  /\ None \notin [code: Code \cup {NoCode}, at: Nat \cup {NoTime}]

NoRequest == [uri |-> "none", number |-> BadNumber, code |-> NoCode,
              client |-> Missing, token |-> NoToken]

\* Requests that get past the header checks; "other" stands for every route
\* but the two that need no token.
Request ==
  LET Header == Token \cup {BadToken} IN
  [uri: {"requestVC"}, number: Number \cup {BadNumber}, code: {NoCode},
   client: {Missing}, token: Header \cup {NoToken}]
    \cup
  [uri: {"login"}, number: Number \cup {BadNumber}, code: Code,
   client: RawClient, token: Header \cup {NoToken}]
    \cup
  [uri: {"other"}, number: {BadNumber}, code: {NoCode},
   client: {Missing}, token: Header]

Label == {"idle", "gateSession", "gateUser", "admitted", "vcQuery", "vcInsert",
          "vcUpdate", "lgTel", "lgUserTel", "lgUser", "lgNewUser",
          "lgSessions", "lgRefresh", "lgNewSession", "lgPurge"}

Locals == [tel: TelId \cup {None}, telRow: TelRow \cup {None},
           user: User \cup {None}, ses: SessionId \cup {None},
           sesRow: SessionRow \cup {None}, expired: SUBSET SessionId]

NoLocals == [tel |-> None, telRow |-> None, user |-> None,
             ses |-> None, sesRow |-> None, expired |-> {}]

Status == {"unset", "success", "badRequest", "forbidden",
           "requestUndefined", "unknowErr", "serverLogicError"}

Response == [to: Workers, status: Status, user: User \cup {None}, token: Token \cup {NoToken}]

Silent == [to |-> None, status |-> "unset", user |-> None, token |-> NoToken]

Answer(w, status) == [Silent EXCEPT !.to = w, !.status = status]

-----------------------------------------------------------------------------
(* Variants: the definitions of the next section, each with a plausible bug. *)
(* No specification uses them.  With a definition replaced by its variant, a *)
(* property of this module fails: PROJECT.json says which.                   *)

\* The flag of a contact number instead of a login number.
ContactUsers(i) == {u \in User : <<u, i, "connect">> \in userTel}

\* The sub-select on user_session lost its WHERE.
AllSessions(u) == {s \in SessionId : session[s] # None}
AllOwners(s)   == {u \in user : \E r \in SessionId : <<u, r>> \in userSession}

\* The sessions of a client type, whoever owns them.
PlatformSessions(u, raw) == {s \in SessionId : session[s] # None /\ session[s].client = raw}

\* A code that has just reached its life time counts as expired.
VcIsExpiredEarly(row) == row.at # NoTime => now - row.at >= VcLife

\* The client type is stored as it was sent, NULL if it was missing.
ClientTypeAsSent(raw) == raw

-----------------------------------------------------------------------------
(* What the queries return and the predicates of the rows compute *)

TelsWith(n)     == {i \in TelId : telephone[i] # None /\ telephone[i].number = n}
LoginUsers(i)   == {u \in User : <<u, i, "login">> \in userTel}
SessionsOf(u)   == {s \in SessionId : session[s] # None /\ <<u, s>> \in userSession}
SessionsWith(t) == {s \in SessionId : session[s] # None /\ session[s].token = t}
OwnersOf(s)     == {u \in user : <<u, s>> \in userSession}

VcIsExpired(row)     == row.at # NoTime => now - row.at > VcLife
TokenIsExpired(row)  == now - row.at > row.maxAge
GetClientType(raw)   == IF raw \in Platform THEN raw ELSE Unknow
SamePlatform(u, raw) == {s \in SessionsOf(u) : session[s].client = raw}

Fresh(t) == issued[t] = None

\* AUTO_INCREMENT of user: an id no row of any table and no other request holds.
FreshUser(w) ==
  {u \in User : /\ u \notin user
                /\ \A i \in TelId, f \in {"login", "connect"} : <<u, i, f>> \notin userTel
                /\ \A s \in SessionId : <<u, s>> \notin userSession
                /\ \A v \in Workers \ {w} : loc[v].user # u}

\* executeTransactionSql(vector) throws after its loop whatever happened in
\* it, so its statements are always rolled back.
VectorTransaction(before, after) == before

\* delSqlByPkDoubleVector never emits ") IN (": MySQL refuses the statement.
DeleteByPk(table, keys) == table

-----------------------------------------------------------------------------
(* What the databases the program is started on have in common: foreign keys *)
(* hold, a session has one owner, a token is in one session and was issued   *)
(* to that session's owner, a number is in one row.                          *)

SeedOK(d) ==
  /\ d.telephone \in [TelId -> TelRow \cup {None}]
  /\ d.user \subseteq User
  /\ d.userTel \subseteq User \X TelId \X {"login", "connect"}
  /\ d.session \in [SessionId -> SessionRow \cup {None}]
  /\ d.userSession \subseteq User \X SessionId
  /\ d.issued \in [Token -> User \cup {None}]
  /\ \A i, j \in TelId :
       d.telephone[i] # None /\ d.telephone[j] # None
         /\ d.telephone[i].number = d.telephone[j].number => i = j
  /\ \A s \in SessionId : d.session[s] # None =>
       /\ d.issued[d.session[s].token] # None
       /\ \A u \in User : <<u, s>> \in d.userSession <=> u = d.issued[d.session[s].token]
  /\ \A s, r \in SessionId :
       d.session[s] # None /\ d.session[r] # None
         /\ d.session[s].token = d.session[r].token => s = r

ASSUME SeedsAssumption == \A d \in Seeds : SeedOK(d)

Init ==
  /\ \E seed \in Seeds :
       /\ telephone = seed.telephone
       /\ user = seed.user
       /\ userTel = seed.userTel
       /\ session = seed.session
       /\ userSession = seed.userSession
       /\ issued = seed.issued
  /\ now = 0
  /\ pc = [w \in Workers |-> "idle"]
  /\ req = [w \in Workers |-> NoRequest]
  /\ loc = [w \in Workers |-> NoLocals]
  /\ resp = Silent

At(w, label)   == pc[w] = label
Goto(w, label) ==
  /\ pc' = [pc EXCEPT ![w] = label]
  /\ resp' = Silent
  /\ UNCHANGED req

Stop(w) ==
  /\ pc' = [pc EXCEPT ![w] = "idle"]
  /\ req' = [req EXCEPT ![w] = NoRequest]
  /\ loc' = [loc EXCEPT ![w] = NoLocals]

Finish(w, response) == Stop(w) /\ resp' = response

Reply(w, status) == Finish(w, Answer(w, status)) /\ UNCHANGED <<tables, issued>>

\* Outside a transaction a statement takes effect even if its reply is lost.
Written(w) == \E status \in {"success", "unset"} : Finish(w, Answer(w, status))

Handler(uri) ==
  IF uri = "requestVC" THEN "vcQuery"
  ELSE IF uri = "login" THEN "lgTel"
  ELSE "admitted"

-----------------------------------------------------------------------------
(* Variants of actions, each with a plausible bug; used by no specification.  *)

\* The gate reads again, instead of refusing, a token that no session has.
GateSessionRetries(w) ==
  /\ At(w, "gateSession")
  /\ \/ \E s \in SessionsWith(req[w].token) :
          /\ loc' = [loc EXCEPT ![w].ses = s]
          /\ Goto(w, "gateUser")
     \/ /\ SessionsWith(req[w].token) = {}
        /\ Goto(w, "gateSession")
        /\ UNCHANGED loc
  /\ UNCHANGED <<tables, issued>>

\* The renewed code is inserted as a new row.
VcUpdateInserts(w) ==
  /\ At(w, "vcUpdate")
  /\ \E i \in TelId :
       /\ telephone[i] = None
       /\ telephone' = [telephone EXCEPT ![i] = loc[w].telRow]
  /\ Written(w)
  /\ UNCHANGED <<accounts, session, issued>>

\* The code is renewed and vc_update_time is not.
VcUpdateKeepsTime(w) ==
  /\ At(w, "vcUpdate")
  /\ telephone' = [telephone EXCEPT ![loc[w].tel].code = loc[w].telRow.code]
  /\ Written(w)
  /\ UNCHANGED <<accounts, session, issued>>

\* UPDATE session lost its WHERE.
LgRefreshAll(w) ==
  /\ At(w, "lgRefresh")
  /\ session' = [s \in SessionId |-> IF session[s] = None THEN None ELSE loc[w].sesRow]
  /\ Goto(w, "lgPurge")
  /\ UNCHANGED <<telephone, accounts, loc, issued>>

\* The expired sessions are deleted, the one just refreshed among them.
LgPurgeDeletes(w) ==
  LET old == loc[w].expired IN
  /\ At(w, "lgPurge")
  /\ userSession' = userSession \ {<<loc[w].user, s>> : s \in old}
  /\ session' = [s \in SessionId |-> IF s \in old THEN None ELSE session[s]]
  /\ Finish(w, [Answer(w, "success") EXCEPT !.user = loc[w].user,
                                            !.token = loc[w].sesRow.token])
  /\ UNCHANGED <<telephone, user, userTel, issued>>

-----------------------------------------------------------------------------
(* Arrival of a request and the token gate: Api::optRequest, tokenIsLegal *)

\* No time_zone header, or no token on a route that needs one.
RejectHeaders(w) ==
  /\ At(w, "idle")
  /\ \E status \in {"badRequest", "requestUndefined"} : Reply(w, status)

\* Bound: every login that is being served can still draw a token.
TokensLeft ==
  Cardinality({t \in Token : Fresh(t)}) > Cardinality({w \in Workers : req[w].uri = "login"})

\* Any token that is sent is checked, on the two open routes as well.
Accept(w) ==
  /\ At(w, "idle")
  /\ \E r \in Request :
       /\ r.token \in Token => ~Fresh(r.token)
       /\ r.uri = "login" => TokensLeft
       /\ req' = [req EXCEPT ![w] = r]
       /\ pc' = [pc EXCEPT ![w] = IF r.token = NoToken THEN Handler(r.uri)
                                                       ELSE "gateSession"]
  /\ resp' = Silent
  /\ UNCHANGED <<tables, loc, issued>>

GateSession(w) ==
  /\ At(w, "gateSession")
  /\ \/ \E s \in SessionId :
          /\ SessionsWith(req[w].token) = {s}
          /\ ~TokenIsExpired(session[s])
          /\ loc' = [loc EXCEPT ![w].ses = s]
          /\ Goto(w, "gateUser")
          /\ UNCHANGED <<tables, issued>>
     \/ /\ \A s \in SessionId :
             SessionsWith(req[w].token) = {s} => TokenIsExpired(session[s])
        /\ Reply(w, "forbidden")

GateUser(w) ==
  /\ At(w, "gateUser")
  /\ \/ \E u \in user :
          /\ OwnersOf(loc[w].ses) = {u}
          /\ loc' = [loc EXCEPT ![w] = [NoLocals EXCEPT !.user = u]]
          /\ Goto(w, Handler(req[w].uri))
          /\ UNCHANGED <<tables, issued>>
     \/ /\ \A u \in user : OwnersOf(loc[w].ses) # {u}
        /\ Reply(w, "forbidden")

\* The handlers of the other routes run as the user the gate found.
Serve(w) ==
  /\ At(w, "admitted")
  /\ Finish(w, [Answer(w, "success") EXCEPT !.user = loc[w].user])
  /\ UNCHANGED <<tables, issued>>

-----------------------------------------------------------------------------
(* requestVerifyCode *)

NewCode(n) == {[number |-> n, code |-> c, at |-> now] : c \in Code}

VcQuery(w) ==
  LET n    == req[w].number
      rows == TelsWith(n)
  IN
  /\ At(w, "vcQuery")
  /\ \/ n = BadNumber /\ Reply(w, "badRequest")
     \/ n # BadNumber /\ Cardinality(rows) > 1 /\ Reply(w, "unknowErr")
     \/ /\ n # BadNumber /\ rows = {}
        /\ \E row \in NewCode(n) :
             loc' = [loc EXCEPT ![w] = [NoLocals EXCEPT !.telRow = row]]
        /\ Goto(w, "vcInsert")
        /\ UNCHANGED <<tables, issued>>
     \/ \E i \in TelId :
          /\ n # BadNumber /\ rows = {i}
          /\ \/ ~VcIsExpired(telephone[i]) /\ Reply(w, "success")
             \/ /\ VcIsExpired(telephone[i])
                /\ \E row \in NewCode(n) :
                     loc' = [loc EXCEPT ![w] = [NoLocals EXCEPT !.tel = i, !.telRow = row]]
                /\ Goto(w, "vcUpdate")
                /\ UNCHANGED <<tables, issued>>

VcInsert(w) ==
  /\ At(w, "vcInsert")
  /\ \E i \in TelId :
       /\ telephone[i] = None
       /\ telephone' = [telephone EXCEPT ![i] = loc[w].telRow]
  /\ Written(w)
  /\ UNCHANGED <<accounts, session, issued>>

\* db.update writes every column of the row that was read, by its id.
VcUpdate(w) ==
  /\ At(w, "vcUpdate")
  /\ telephone' = [telephone EXCEPT ![loc[w].tel] = loc[w].telRow]
  /\ Written(w)
  /\ UNCHANGED <<accounts, session, issued>>

-----------------------------------------------------------------------------
(* login *)

LgTel(w) ==
  LET n    == req[w].number
      rows == TelsWith(n)
  IN
  /\ At(w, "lgTel")
  /\ \/ n = BadNumber /\ Reply(w, "badRequest")
     \/ n # BadNumber /\ Cardinality(rows) > 1 /\ Reply(w, "unknowErr")
     \/ n # BadNumber /\ rows = {} /\ Reply(w, "badRequest")
     \/ \E i \in TelId :
          /\ n # BadNumber /\ rows = {i}
          /\ \/ /\ VcIsExpired(telephone[i]) \/ telephone[i].code # req[w].code
                /\ Reply(w, "badRequest")
             \/ /\ ~VcIsExpired(telephone[i]) /\ telephone[i].code = req[w].code
                /\ loc' = [loc EXCEPT ![w] = [NoLocals EXCEPT !.tel = i]]
                /\ Goto(w, "lgUserTel")
                /\ UNCHANGED <<tables, issued>>

LgUserTel(w) ==
  LET found == LoginUsers(loc[w].tel) IN
  /\ At(w, "lgUserTel")
  /\ \/ Cardinality(found) > 1 /\ Reply(w, "serverLogicError")
     \/ /\ found = {}
        /\ Goto(w, "lgNewUser")
        /\ UNCHANGED <<tables, loc, issued>>
     \/ \E u \in User :
          /\ found = {u}
          /\ loc' = [loc EXCEPT ![w].user = u]
          /\ Goto(w, "lgUser")
          /\ UNCHANGED <<tables, issued>>

LgUser(w) ==
  /\ At(w, "lgUser")
  /\ \/ loc[w].user \notin user /\ Reply(w, "serverLogicError")
     \/ /\ loc[w].user \in user
        /\ Goto(w, "lgSessions")
        /\ UNCHANGED <<tables, loc, issued>>

\* insert(telephone, user, userTel): the id that is read back is the one the
\* rolled-back INSERT had drawn.
LgNewUser(w) ==
  /\ At(w, "lgNewUser")
  /\ \E u \in FreshUser(w) :
       /\ user' = VectorTransaction(user, user \cup {u})
       /\ userTel' = VectorTransaction(userTel, userTel \cup {<<u, loc[w].tel, "login">>})
       /\ loc' = [loc EXCEPT ![w].user = u]
  /\ Goto(w, "lgSessions")
  /\ UNCHANGED <<telephone, session, userSession, issued>>

\* The comparison is on the client type as sent, and covers expired sessions.
LgSessions(w) ==
  LET u    == loc[w].user
      same == SamePlatform(u, req[w].client)
      old  == {s \in SessionsOf(u) : TokenIsExpired(session[s])}
  IN
  /\ At(w, "lgSessions")
  /\ \/ Cardinality(same) > 1 /\ Reply(w, "serverLogicError")
     \/ \E t \in Token :
          /\ Fresh(t)
          /\ \/ \E s \in SessionId :
                  /\ same = {s}
                  /\ loc' = [loc EXCEPT ![w].ses = s, ![w].expired = old, ![w].sesRow =
                               [session[s] EXCEPT !.token = t, !.at = now]]
                  /\ Goto(w, "lgRefresh")
             \/ /\ same = {}
                /\ loc' = [loc EXCEPT ![w].expired = old, ![w].sesRow =
                             [client |-> GetClientType(req[w].client), token |-> t,
                              maxAge |-> DefaultMaxAge, at |-> now]]
                /\ Goto(w, "lgNewSession")
          /\ issued' = [issued EXCEPT ![t] = u]
          /\ UNCHANGED tables

LgRefresh(w) ==
  /\ At(w, "lgRefresh")
  /\ session' = [session EXCEPT ![loc[w].ses] = loc[w].sesRow]
  /\ Goto(w, "lgPurge")
  /\ UNCHANGED <<telephone, accounts, loc, issued>>

\* insert(session, userSession)
LgNewSession(w) ==
  /\ At(w, "lgNewSession")
  /\ \E s \in SessionId :
       /\ session[s] = None
       /\ session' = VectorTransaction(session, [session EXCEPT ![s] = loc[w].sesRow])
       /\ userSession' = VectorTransaction(userSession, userSession \cup {<<loc[w].user, s>>})
  /\ Goto(w, "lgPurge")
  /\ UNCHANGED <<telephone, user, userTel, loc, issued>>

LgPurge(w) ==
  LET old == loc[w].expired
      own == {<<loc[w].user, s>> : s \in old}
  IN
  /\ At(w, "lgPurge")
  /\ userSession' = VectorTransaction(userSession, DeleteByPk(userSession, own))
  /\ session' = VectorTransaction(session, DeleteByPk(session, old))
  /\ Finish(w, [Answer(w, "success") EXCEPT !.user = loc[w].user,
                                            !.token = loc[w].sesRow.token])
  /\ UNCHANGED <<telephone, user, userTel, issued>>

-----------------------------------------------------------------------------
(* Failures, the clock, and the whole system *)

\* A database call throws, or a stored local time falls in a daylight-saving
\* gap: optRequestTry logs the exception and the response keeps unsetErr.
Throws(w) == ~At(w, "idle") /\ Reply(w, "unset")

\* The process dies; its successor starts idle.
Crash(w) ==
  /\ ~At(w, "idle")
  /\ Stop(w)
  /\ resp' = Silent
  /\ UNCHANGED <<tables, issued>>

Tick ==
  /\ now < MaxTime
  /\ now' = now + 1
  /\ resp' = Silent
  /\ UNCHANGED <<tables, pc, req, loc, issued>>

\* The next statement of a request that is being served.
Work(w) ==
  /\ \/ GateSession(w) \/ GateUser(w) \/ Serve(w)
     \/ VcQuery(w) \/ VcInsert(w) \/ VcUpdate(w)
     \/ LgTel(w) \/ LgUserTel(w) \/ LgUser(w) \/ LgNewUser(w)
     \/ LgSessions(w) \/ LgRefresh(w) \/ LgNewSession(w) \/ LgPurge(w)
  /\ UNCHANGED now

Next ==
  \/ \E w \in Workers : Work(w)
  \/ \E w \in Workers :
       (RejectHeaders(w) \/ Accept(w) \/ Throws(w) \/ Crash(w)) /\ UNCHANGED now
  \/ Tick

Spec == Init /\ [][Next]_vars

\* A handler is straight-line code, and a database call returns or throws.
FairSpec == Spec /\ \A w \in Workers : WF_vars(Work(w))

-----------------------------------------------------------------------------
(* Properties *)

TypeOK ==
  /\ telephone \in [TelId -> TelRow \cup {None}]
  /\ user \subseteq User
  /\ userTel \subseteq User \X TelId \X {"login", "connect"}
  /\ session \in [SessionId -> SessionRow \cup {None}]
  /\ userSession \subseteq User \X SessionId
  /\ now \in Nat
  /\ pc \in [Workers -> Label]
  /\ req \in [Workers -> Request \cup {NoRequest}]
  /\ loc \in [Workers -> Locals]
  /\ resp \in Response \cup {Silent}
  /\ issued \in [Token -> User \cup {None}]

\* telephone.number has no unique key, and requestVerifyCode inserts a number
\* after a query that did not find it.  Every process can do so at most once
\* before the others see the row: a number never has more rows than there are
\* processes, so with one process it has one and the ">1 row" errors of
\* requestVerifyCode and login never come up.
RowsPerNumberBounded ==
  \A n \in Number : Cardinality(TelsWith(n)) <= Cardinality(Workers)

\* tokenIsLegal relies on a token naming one session, though session.token has
\* an index and no unique key: no interleaving of logins that write back whole
\* session rows leaves one token in two rows.
TokenNamesOneSession ==
  \A s, r \in SessionId :
    session[s] # None /\ session[r] # None /\ session[s].token = session[r].token => s = r

\* The user a request runs as is the one its token was generated for, whatever
\* logins replace tokens between the gate's two queries.
TokenAuthenticatesItsUser ==
  \A w \in Workers : At(w, "admitted") => loc[w].user = issued[req[w].token]

\* A login gets at the sessions of an account only if the number whose code was
\* checked is that account's login number, and not one of its contact numbers.
LoginNeedsLoginPhone ==
  \A w \in Workers :
    loc[w].sesRow # None /\ loc[w].user \in user =>
      \E i \in TelsWith(req[w].number) : <<loc[w].user, i, "login">> \in userTel

\* A user who is told "success" by /request_verify_code can log in with what is
\* stored: the number has one row, and its code is valid or is the one this very
\* request wrote.  (One process; requestVerifyCode, db_proxy.cpp:31-85.)
VcSuccessMeansUsableCode ==
  [][\A w \in Workers, n \in Number :
       /\ req[w].uri = "requestVC" /\ req[w].number = n
       /\ resp'.to = w /\ resp'.status = "success"
       =>
         \E i \in TelId :
           /\ TelsWith(n)' = {i}
           /\ ~VcIsExpired(telephone[i])' \/ telephone'[i] = loc[w].telRow]_vars

\* A login that took over a session answers a token that opens it, although the
\* same session may be in the list of expired sessions the login then purges.
\* (One process; login, db_proxy.cpp:206-246.)
RefreshedTokenOpensTheSession ==
  [][\A w \in Workers, t \in Token :
       resp'.to = w /\ resp'.token = t /\ loc[w].ses # None =>
         SessionsWith(t)' = {loc[w].ses}]_vars

\* Every request is answered, whatever other processes do to the rows it reads.
EveryRequestAnswered == \A w \in Workers : ~At(w, "idle") ~> At(w, "idle")

-----------------------------------------------------------------------------
(* What the module promises, as specifications of its own *)

Pending(t) ==
  \E w \in Workers : /\ pc[w] \in {"lgRefresh", "lgNewSession"}
                     /\ loc[w].sesRow.token = t

TokenPhase(t) ==
  IF Fresh(t) THEN "undrawn"
  ELSE IF SessionsWith(t) # {} THEN "live"
  ELSE IF Pending(t) THEN "pending"
  ELSE "dead"

Life == INSTANCE TokenLife WITH phase <- [t \in Token |-> TokenPhase(t)], holder <- issued

\* Whatever logins and crashes interleave, a token follows the life cycle of
\* TokenLife: it replaces a live token of the same user, and dies for good.
TokensFollowTheirLife == Life!Spec

CurrentCode(n) ==
  IF TelsWith(n) = {} THEN None
  ELSE LET row == telephone[CHOOSE i \in TelsWith(n) : TRUE]
       IN  [code |-> row.code, at |-> row.at]

Codes == INSTANCE VerifyCodes
           WITH current <- [n \in Number |-> CurrentCode(n)], time <- now

\* With one process, a code is replaced only after it had expired, even if the
\* clock moves between the query and the update that writes it back.
CodesAreRenewedWhenExpired == Codes!Spec

=============================================================================
