----------------------------- MODULE AuthProofs -----------------------------
(***************************************************************************)
(* Type correctness and the safety properties of Auth, for every number of *)
(* processes, phone numbers, tokens, sessions and users, and every         *)
(* database SeedOK admits.  First what each step does, in the form the     *)
(* proofs use it; then each part of AuthIInv is preserved by every step,   *)
(* and together they imply the properties the runs check.                  *)
(***************************************************************************)
EXTENDS AuthInvariant, FiniteSetTheorems, TLAPS

-----------------------------------------------------------------------------
(* Small facts about requests, labels and worker-local steps *)

LEMMA RequestFields ==
  ASSUME NEW r \in Request \cup {NoRequest}
  PROVE  /\ r.number \in Number \cup {BadNumber}
         /\ r.token \in Token \cup {BadToken, NoToken}
         /\ r.uri \notin {"requestVC", "login"} /\ r # NoRequest => r.token # NoToken
BY NullAssumption DEF Request, NoRequest

LEMMA HandlerLabels ==
  ASSUME NEW uri
  PROVE  /\ Handler(uri) \in {"vcQuery", "lgTel", "admitted"}
         /\ Handler(uri) = "admitted" => uri \notin {"requestVC", "login"}
BY DEF Handler

LEMMA NoLocalsTyped == NoLocals \in Locals /\ NoLocals.sesRow = None
BY DEF NoLocals, Locals

\* A worker that stops leaves nothing behind that an invariant depends on.
LEMMA StopTyped ==
  ASSUME TypeInv, NEW w \in Workers, Stop(w)
  PROVE  /\ pc' \in [Workers -> Label]
         /\ req' \in [Workers -> Request \cup {NoRequest}]
         /\ loc' \in [Workers -> Locals]
         /\ LocalsOK'
<1> USE NoLocalsTyped DEF TypeInv, TypeOK, Stop
<1>1. pc' \in [Workers -> Label] BY DEF Label
<1>2. req' \in [Workers -> Request \cup {NoRequest}] OBVIOUS
<1>3. loc' \in [Workers -> Locals] OBVIOUS
<1>4. LocalsOK' BY DEF LocalsOK, Served, Resolved, HasToken, ToStore
<1> QED BY <1>1, <1>2, <1>3, <1>4

LEMMA ReplyTyped ==
  ASSUME TypeInv, NEW w \in Workers, NEW status \in Status, Reply(w, status), now' = now
  PROVE  TypeInv'
<1>1. Stop(w) BY DEF Reply, Finish
<1>2. resp' \in Response BY DEF Reply, Finish, Answer, Silent, Response
<1>3. UNCHANGED <<telephone, user, userTel, session, userSession, issued>>
  BY DEF Reply, tables
<1> QED BY <1>1, <1>2, <1>3, StopTyped DEF TypeInv, TypeOK

-----------------------------------------------------------------------------
(* What the steps that change a worker's memory do, with the records named *)

LEMMA GateEffect ==
  ASSUME TypeInv, NEW w \in Workers, GateSession(w) \/ GateUser(w)
  PROVE  \/ Reply(w, "forbidden")
         \/ /\ pc[w] = "gateSession"
            /\ \E l \in Locals :
                 /\ SessionsWith(req[w].token) = {l.ses} /\ l.sesRow = loc[w].sesRow
                 /\ loc' = [loc EXCEPT ![w] = l]
            /\ Goto(w, "gateUser") /\ UNCHANGED <<tables, issued>>
         \/ /\ pc[w] = "gateUser"
            /\ \E l \in Locals :
                 /\ l.user \in user /\ OwnersOf(loc[w].ses) = {l.user} /\ l.sesRow = None
                 /\ loc' = [loc EXCEPT ![w] = l]
            /\ Goto(w, Handler(req[w].uri)) /\ UNCHANGED <<tables, issued>>
<1>1. CASE GateSession(w)
  <2>1. ASSUME NEW s \in SessionId
        PROVE  /\ [loc[w] EXCEPT !.ses = s] \in Locals
               /\ [loc[w] EXCEPT !.ses = s].ses = s
               /\ [loc[w] EXCEPT !.ses = s].sesRow = loc[w].sesRow
    <3>1. loc[w] \in Locals BY DEF TypeInv, TypeOK
    <3> QED BY <3>1 DEF Locals
  <2>2. ASSUME NEW s \in SessionId, SessionsWith(req[w].token) = {s},
               loc' = [loc EXCEPT ![w].ses = s], Goto(w, "gateUser"),
               UNCHANGED <<tables, issued>>
        PROVE  /\ \E l \in Locals :
                    /\ SessionsWith(req[w].token) = {l.ses} /\ l.sesRow = loc[w].sesRow
                    /\ loc' = [loc EXCEPT ![w] = l]
               /\ Goto(w, "gateUser") /\ UNCHANGED <<tables, issued>>
    <3> DEFINE l == [loc[w] EXCEPT !.ses = s]
    <3>1. loc' = [loc EXCEPT ![w] = l] BY <2>2
    <3>2. l \in Locals /\ l.ses = s /\ l.sesRow = loc[w].sesRow BY <2>1
    <3> HIDE DEF l
    <3> QED BY <2>2, <3>1, <3>2
  <2> QED BY <1>1, <2>2 DEF GateSession, At
<1>2. CASE GateUser(w)
  <2>1. ASSUME NEW u \in user, OwnersOf(loc[w].ses) = {u},
               loc' = [loc EXCEPT ![w] = [NoLocals EXCEPT !.user = u]]
        PROVE  \E l \in Locals :
                 /\ l.user \in user /\ OwnersOf(loc[w].ses) = {l.user} /\ l.sesRow = None
                 /\ loc' = [loc EXCEPT ![w] = l]
    <3> DEFINE l == [NoLocals EXCEPT !.user = u]
    <3>1. u \in User BY DEF TypeInv, TypeOK
    <3>2. l \in Locals /\ l.user = u /\ l.sesRow = None BY <3>1 DEF NoLocals, Locals
    <3>3. loc' = [loc EXCEPT ![w] = l] BY <2>1
    <3> HIDE DEF l
    <3> QED BY <2>1, <3>2, <3>3
  <2> QED BY <1>2, <2>1 DEF GateUser, At
<1> QED BY <1>1, <1>2

LEMMA VcQueryEffect ==
  ASSUME TypeInv, NEW w \in Workers, VcQuery(w)
  PROVE  \/ \E status \in Status : Reply(w, status)
         \/ \E l \in Locals, label \in {"vcInsert", "vcUpdate"} :
              /\ req[w].number \in Number
              /\ l.telRow \in TelRow /\ l.telRow.number = req[w].number /\ l.sesRow = None
              /\ l.telRow.code \in Code /\ l.telRow.at = now
              /\ label = "vcInsert" => TelsWith(req[w].number) = {}
              /\ label = "vcUpdate" => /\ l.tel \in TelsWith(req[w].number)
                                       /\ VcIsExpired(telephone[l.tel])
              /\ loc' = [loc EXCEPT ![w] = l]
              /\ Goto(w, label) /\ UNCHANGED <<tables, issued>>
<1> DEFINE n == req[w].number
<1>1. n # BadNumber => n \in Number BY RequestFields DEF TypeInv, TypeOK
<1>2. ASSUME n # BadNumber, NEW row \in NewCode(n)
      PROVE  row \in TelRow /\ row.number = n /\ row.code \in Code /\ row.at = now
  BY <1>1, <1>2 DEF TypeInv, TypeOK, NewCode, TelRow
<1>3. CASE /\ n # BadNumber /\ TelsWith(n) = {}
           /\ \E row \in NewCode(n) :
                loc' = [loc EXCEPT ![w] = [NoLocals EXCEPT !.telRow = row]]
           /\ Goto(w, "vcInsert")
           /\ UNCHANGED <<tables, issued>>
  <2>1. PICK row \in NewCode(n) :
          loc' = [loc EXCEPT ![w] = [NoLocals EXCEPT !.telRow = row]]
    BY <1>3
  <2> DEFINE l == [NoLocals EXCEPT !.telRow = row]
  <2>2. row \in TelRow /\ row.number = n /\ row.code \in Code /\ row.at = now BY <1>2, <1>3
  <2>3. l \in Locals /\ l.telRow = row /\ l.sesRow = None BY <2>2 DEF NoLocals, Locals
  <2>4. loc' = [loc EXCEPT ![w] = l] BY <2>1
  <2> HIDE DEF l
  <2> QED BY <1>1, <1>3, <2>2, <2>3, <2>4
<1>4. CASE \E i \in TelId :
             /\ n # BadNumber /\ TelsWith(n) = {i} /\ VcIsExpired(telephone[i])
             /\ \E row \in NewCode(n) :
                  loc' = [loc EXCEPT ![w] = [NoLocals EXCEPT !.tel = i, !.telRow = row]]
             /\ Goto(w, "vcUpdate")
             /\ UNCHANGED <<tables, issued>>
  <2>1. PICK i \in TelId, row \in NewCode(n) :
          /\ TelsWith(n) = {i} /\ VcIsExpired(telephone[i])
          /\ loc' = [loc EXCEPT ![w] = [NoLocals EXCEPT !.tel = i, !.telRow = row]]
    BY <1>4
  <2> DEFINE l == [NoLocals EXCEPT !.tel = i, !.telRow = row]
  <2>2. row \in TelRow /\ row.number = n /\ row.code \in Code /\ row.at = now BY <1>2, <1>4
  <2>3. l \in Locals /\ l.telRow = row /\ l.tel = i /\ l.sesRow = None
    BY <2>2 DEF NoLocals, Locals
  <2>4. loc' = [loc EXCEPT ![w] = l] BY <2>1
  <2> HIDE DEF l
  <2> QED BY <1>1, <1>4, <2>1, <2>2, <2>3, <2>4
<1> QED BY <1>3, <1>4 DEF VcQuery, Status

LEMMA LgTelEffect ==
  ASSUME TypeInv, NEW w \in Workers, LgTel(w)
  PROVE  \/ \E status \in Status : Reply(w, status)
         \/ \E l \in Locals :
              /\ req[w].number \in Number
              /\ l.tel \in TelsWith(req[w].number) /\ l.sesRow = None /\ l.ses = None
              /\ loc' = [loc EXCEPT ![w] = l]
              /\ Goto(w, "lgUserTel") /\ UNCHANGED <<tables, issued>>
<1>1. req[w].number # BadNumber => req[w].number \in Number
  BY RequestFields DEF TypeInv, TypeOK
<1>2. CASE \E i \in TelId : /\ req[w].number # BadNumber
                           /\ TelsWith(req[w].number) = {i}
                           /\ loc' = [loc EXCEPT ![w] = [NoLocals EXCEPT !.tel = i]]
                           /\ Goto(w, "lgUserTel") /\ UNCHANGED <<tables, issued>>
  <2>1. PICK i \in TelId : /\ TelsWith(req[w].number) = {i}
                           /\ loc' = [loc EXCEPT ![w] = [NoLocals EXCEPT !.tel = i]]
    BY <1>2
  <2> DEFINE l == [NoLocals EXCEPT !.tel = i]
  <2>2. l \in Locals /\ l.tel = i /\ l.sesRow = None /\ l.ses = None BY DEF NoLocals, Locals
  <2>3. loc' = [loc EXCEPT ![w] = l] BY <2>1
  <2> HIDE DEF l
  <2> QED BY <1>1, <1>2, <2>1, <2>2, <2>3
<1> QED BY <1>2 DEF LgTel, Status

LEMMA LgUserEffect ==
  ASSUME TypeInv, NEW w \in Workers, LgUserTel(w) \/ LgUser(w) \/ LgNewUser(w)
  PROVE  \/ Reply(w, "serverLogicError")
         \/ \E l \in Locals :
              /\ l.tel = loc[w].tel /\ l.sesRow = loc[w].sesRow /\ l.ses = loc[w].ses
              /\ loc' = [loc EXCEPT ![w] = l] /\ UNCHANGED <<tables, issued>>
              /\ \/ pc[w] = "lgUserTel" /\ Goto(w, "lgNewUser")
                 \/ /\ pc[w] = "lgUserTel" /\ Goto(w, "lgUser")
                    /\ l.user \in User /\ <<l.user, l.tel, "login">> \in userTel
                 \/ /\ pc[w] = "lgUser" /\ Goto(w, "lgSessions")
                    /\ l.user \in User /\ l.user = loc[w].user
                 \/ /\ pc[w] = "lgNewUser" /\ Goto(w, "lgSessions")
                    /\ l.user \in User /\ l.user \notin user
<1> USE DEF TypeInv
<1>a. loc[w] \in Locals /\ [loc EXCEPT ![w] = loc[w]] = loc
  BY DEF TypeOK
<1>b. ASSUME NEW u \in User
      PROVE  /\ [loc[w] EXCEPT !.user = u] \in Locals
             /\ [loc[w] EXCEPT !.user = u].user = u
             /\ [loc[w] EXCEPT !.user = u].tel = loc[w].tel
             /\ [loc[w] EXCEPT !.user = u].sesRow = loc[w].sesRow
             /\ [loc[w] EXCEPT !.user = u].ses = loc[w].ses
  BY <1>a DEF Locals
<1>1. CASE LgUserTel(w)
  <2>1. CASE /\ Goto(w, "lgNewUser") /\ UNCHANGED <<tables, loc, issued>>
    BY <1>1, <1>a, <2>1 DEF LgUserTel, At
  <2>2. CASE \E u \in User : /\ LoginUsers(loc[w].tel) = {u}
                            /\ loc' = [loc EXCEPT ![w].user = u]
                            /\ Goto(w, "lgUser") /\ UNCHANGED <<tables, issued>>
    <3>1. PICK u \in User : /\ LoginUsers(loc[w].tel) = {u}
                            /\ loc' = [loc EXCEPT ![w].user = u]
      BY <2>2
    <3>2. <<u, loc[w].tel, "login">> \in userTel BY <3>1 DEF LoginUsers
    <3> DEFINE l == [loc[w] EXCEPT !.user = u]
    <3>3. loc' = [loc EXCEPT ![w] = l] BY <3>1
    <3>4. /\ l \in Locals /\ l.user = u /\ l.tel = loc[w].tel
          /\ l.sesRow = loc[w].sesRow /\ l.ses = loc[w].ses
      BY <1>b
    <3> HIDE DEF l
    <3> QED BY <1>1, <2>2, <3>2, <3>3, <3>4 DEF LgUserTel, At
  <2> QED BY <1>1, <2>1, <2>2 DEF LgUserTel
<1>2. CASE LgUser(w)
  <2>1. loc[w].user \in User BY <1>2 DEF LgUser, At, LocalsOK, Resolved, Served
  <2> QED BY <1>2, <1>a, <2>1 DEF LgUser, At
<1>3. CASE LgNewUser(w)
  <2>1. PICK u \in User : u \notin user /\ loc' = [loc EXCEPT ![w].user = u]
    BY <1>3 DEF LgNewUser, FreshUser
  <2> DEFINE l == [loc[w] EXCEPT !.user = u]
  <2>2. loc' = [loc EXCEPT ![w] = l] BY <2>1
  <2>3. /\ l \in Locals /\ l.user = u /\ l.tel = loc[w].tel
        /\ l.sesRow = loc[w].sesRow /\ l.ses = loc[w].ses
    BY <1>b
  <2>4. Goto(w, "lgSessions") /\ UNCHANGED <<tables, issued>> /\ pc[w] = "lgNewUser"
    BY <1>3 DEF LgNewUser, VectorTransaction, tables, At
  <2> HIDE DEF l
  <2> QED BY <2>1, <2>2, <2>3, <2>4
<1> QED BY <1>1, <1>2, <1>3

\* login draws a token for the session it found, or for a new one.
LEMMA LgSessionsEffect ==
  ASSUME TypeInv, NEW w \in Workers, LgSessions(w)
  PROVE  \/ Reply(w, "serverLogicError")
         \/ \E t \in Token, l \in Locals, label \in ToStore :
              /\ Fresh(t) /\ issued' = [issued EXCEPT ![t] = loc[w].user]
              /\ l.tel = loc[w].tel /\ l.user = loc[w].user
              /\ l.sesRow \in SessionRow /\ l.sesRow.token = t
              /\ label = "lgRefresh" => l.ses \in SessionsOf(l.user)
              /\ label = "lgNewSession" => l.ses = loc[w].ses
              /\ loc' = [loc EXCEPT ![w] = l]
              /\ Goto(w, label) /\ UNCHANGED tables
<1> USE DEF TypeInv
<1>0. pc[w] = "lgSessions" /\ loc[w] \in Locals /\ loc[w].user \in User
  BY DEF LgSessions, At, TypeOK, LocalsOK, Resolved, Served
<1> DEFINE old == {s \in SessionsOf(loc[w].user) : TokenIsExpired(session[s])}
<1>1. old \in SUBSET SessionId BY DEF SessionsOf
<1>2. CASE \E t \in Token :
        /\ Fresh(t)
        /\ issued' = [issued EXCEPT ![t] = loc[w].user]
        /\ UNCHANGED tables
        /\ \E s \in SessionId :
             /\ s \in SessionsOf(loc[w].user)
             /\ loc' = [loc EXCEPT ![w].ses = s, ![w].expired = old, ![w].sesRow =
                          [session[s] EXCEPT !.token = t, !.at = now]]
             /\ Goto(w, "lgRefresh")
  <2>1. PICK t \in Token, s \in SessionId :
          /\ Fresh(t)
          /\ issued' = [issued EXCEPT ![t] = loc[w].user]
          /\ UNCHANGED tables
          /\ s \in SessionsOf(loc[w].user)
          /\ loc' = [loc EXCEPT ![w].ses = s, ![w].expired = old, ![w].sesRow =
                       [session[s] EXCEPT !.token = t, !.at = now]]
          /\ Goto(w, "lgRefresh")
    BY <1>2
  <2> DEFINE row == [session[s] EXCEPT !.token = t, !.at = now]
             l == [loc[w] EXCEPT !.ses = s, !.expired = old, !.sesRow = row]
  <2>2. session[s] \in SessionRow BY <2>1 DEF TypeOK, SessionsOf
  <2>3. row \in SessionRow /\ row.token = t BY <2>2 DEF SessionRow, TypeOK
  <2>4. loc' = [loc EXCEPT ![w] = l] BY <2>1
  <2> HIDE DEF row, old
  <2>5. /\ l \in Locals /\ l.tel = loc[w].tel /\ l.user = loc[w].user
        /\ l.sesRow = row /\ l.ses = s
    BY <1>0, <1>1, <2>3 DEF Locals
  <2> HIDE DEF l
  <2> QED BY <2>1, <2>3, <2>4, <2>5 DEF ToStore
<1>3. CASE \E t \in Token :
        /\ Fresh(t)
        /\ issued' = [issued EXCEPT ![t] = loc[w].user]
        /\ UNCHANGED tables
        /\ loc' = [loc EXCEPT ![w].expired = old, ![w].sesRow =
                     [client |-> GetClientType(req[w].client), token |-> t,
                      maxAge |-> DefaultMaxAge, at |-> now]]
        /\ Goto(w, "lgNewSession")
  <2>1. PICK t \in Token :
        /\ Fresh(t)
        /\ issued' = [issued EXCEPT ![t] = loc[w].user]
        /\ UNCHANGED tables
        /\ loc' = [loc EXCEPT ![w].expired = old, ![w].sesRow =
                     [client |-> GetClientType(req[w].client), token |-> t,
                      maxAge |-> DefaultMaxAge, at |-> now]]
        /\ Goto(w, "lgNewSession")
    BY <1>3
  <2> DEFINE row == [client |-> GetClientType(req[w].client), token |-> t,
                     maxAge |-> DefaultMaxAge, at |-> now]
             l == [loc[w] EXCEPT !.expired = old, !.sesRow = row]
  <2>3. row \in SessionRow /\ row.token = t
    BY TimeAssumption DEF SessionRow, TypeOK, GetClientType, Client
  <2>4. loc' = [loc EXCEPT ![w] = l] BY <2>1
  <2> HIDE DEF row, old
  <2>5. /\ l \in Locals /\ l.tel = loc[w].tel /\ l.user = loc[w].user /\ l.sesRow = row
        /\ l.ses = loc[w].ses
    BY <1>0, <1>1, <2>3 DEF Locals
  <2> HIDE DEF l
  <2> QED BY <2>1, <2>3, <2>4, <2>5 DEF ToStore
<1>4. \A s \in SessionId :
        SamePlatform(loc[w].user, req[w].client) = {s} => s \in SessionsOf(loc[w].user)
  BY DEF SamePlatform
<1> QED BY <1>2, <1>3, <1>4 DEF LgSessions

-----------------------------------------------------------------------------
(* Types of the tables and of what the workers remember *)

LEMMA TypeInit == Init => TypeInv
<1> SUFFICES ASSUME Init PROVE TypeInv
  OBVIOUS
<1>1. PICK seed \in Seeds :
        /\ telephone = seed.telephone /\ user = seed.user /\ userTel = seed.userTel
        /\ session = seed.session /\ userSession = seed.userSession
        /\ issued = seed.issued
  BY DEF Init
<1>2. SeedOK(seed) BY <1>1, SeedsAssumption
<1>3. TypeOK
  BY <1>1, <1>2, NoLocalsTyped DEF Init, TypeOK, SeedOK, Label
<1>4. LocalsOK
  BY NoLocalsTyped DEF Init, LocalsOK, Served, Resolved, HasToken, ToStore
<1> QED BY <1>3, <1>4 DEF TypeInv

\* A step that moves a worker on and leaves the tables alone.
LEMMA MoveTyped ==
  ASSUME TypeInv, NEW w \in Workers, NEW label \in Label, NEW l \in Locals,
         loc' = [loc EXCEPT ![w] = l], Goto(w, label), UNCHANGED <<tables, now>>,
         issued' \in [Token -> User \cup {None}],
         label = "gateUser" => l.ses \in SessionId,
         label \in {"vcInsert", "vcUpdate"} => l.telRow \in TelRow,
         label = "vcUpdate" => l.tel \in TelId,
         label \in Served =>
           l.tel \in TelId /\ req[w].number \in Number,
         label \in Resolved => l.user \in User,
         label \in HasToken => l.sesRow \in SessionRow,
         label \notin HasToken => l.sesRow = None,
         label = "lgRefresh" => l.ses \in SessionId
  PROVE  TypeInv'
<1>1. TypeOK' BY DEF TypeInv, TypeOK, tables, Goto
<1>2. LocalsOK' BY DEF TypeInv, TypeOK, LocalsOK, Goto
<1> QED BY <1>1, <1>2 DEF TypeInv

LEMMA GateTyped ==
  ASSUME TypeInv, NEW w \in Workers, now' = now,
         Accept(w) \/ GateSession(w) \/ GateUser(w) \/ Serve(w)
  PROVE  TypeInv'
<1> USE DEF Served, Resolved, HasToken, ToStore
<1>1. CASE Accept(w)
  <2>1. PICK r \in Request :
          /\ req' = [req EXCEPT ![w] = r]
          /\ pc' = [pc EXCEPT ![w] = IF r.token = NoToken THEN Handler(r.uri)
                                                          ELSE "gateSession"]
    BY <1>1 DEF Accept
  <2>2. pc'[w] \in {"vcQuery", "lgTel", "admitted", "gateSession"}
    BY <2>1, HandlerLabels DEF TypeInv, TypeOK
  <2>3. UNCHANGED <<tables, loc, issued>> /\ resp' = Silent /\ pc[w] = "idle"
    BY <1>1 DEF Accept, At
  <2>4. TypeOK'
    BY <2>1, <2>2, <2>3 DEF TypeInv, TypeOK, tables, Label
  <2>5. LocalsOK'
    BY <2>1, <2>2, <2>3 DEF TypeInv, TypeOK, LocalsOK
  <2> QED BY <2>4, <2>5 DEF TypeInv
<1>2. CASE GateSession(w) \/ GateUser(w)
  <2>1. CASE Reply(w, "forbidden") BY <2>1, ReplyTyped DEF Status
  <2>2. CASE \E l \in Locals : /\ pc[w] = "gateSession"
                               /\ SessionsWith(req[w].token) = {l.ses}
                               /\ l.sesRow = loc[w].sesRow
                               /\ loc' = [loc EXCEPT ![w] = l]
                               /\ Goto(w, "gateUser") /\ UNCHANGED <<tables, issued>>
    <3>1. PICK l \in Locals : /\ SessionsWith(req[w].token) = {l.ses}
                              /\ l.sesRow = loc[w].sesRow
                              /\ loc' = [loc EXCEPT ![w] = l]
      BY <2>2
    <3>2. l.ses \in SessionId BY <3>1 DEF SessionsWith
    <3>3. loc[w].sesRow = None BY <2>2 DEF TypeInv, LocalsOK
    <3>4. issued' \in [Token -> User \cup {None}] BY <2>2 DEF TypeInv, TypeOK
    <3> QED BY <2>2, <3>1, <3>2, <3>3, <3>4, MoveTyped DEF Label
  <2>3. CASE \E l \in Locals : /\ l.sesRow = None
                               /\ loc' = [loc EXCEPT ![w] = l]
                               /\ Goto(w, Handler(req[w].uri)) /\ UNCHANGED <<tables, issued>>
    <3>1. Handler(req[w].uri) \in {"vcQuery", "lgTel", "admitted"} BY HandlerLabels
    <3>2. issued' \in [Token -> User \cup {None}] BY <2>3 DEF TypeInv, TypeOK
    <3> QED BY <2>3, <3>1, <3>2, MoveTyped, ZenonT(30) DEF Label
  <2> QED BY <1>2, <2>1, <2>2, <2>3, GateEffect
<1>3. CASE Serve(w)
  <2>1. Stop(w) BY <1>3 DEF Serve, Finish
  <2>2. resp' \in Response
    BY <1>3 DEF Serve, Finish, Answer, Silent, Response, Status, TypeInv, TypeOK, Locals
  <2>3. UNCHANGED <<telephone, user, userTel, session, userSession, issued>>
    BY <1>3 DEF Serve, tables
  <2> QED BY <2>1, <2>2, <2>3, StopTyped DEF TypeInv, TypeOK
<1> QED BY <1>1, <1>2, <1>3

LEMMA VcQueryTyped ==
  ASSUME TypeInv, NEW w \in Workers, VcQuery(w), now' = now
  PROVE  TypeInv'
<1>1. CASE \E status \in Status : Reply(w, status) BY <1>1, ReplyTyped
<1>2. ASSUME NEW l \in Locals, NEW label \in {"vcInsert", "vcUpdate"},
             l.telRow \in TelRow, l.sesRow = None,
             label = "vcUpdate" => l.tel \in TelsWith(req[w].number),
             loc' = [loc EXCEPT ![w] = l],
             Goto(w, label), UNCHANGED <<tables, issued>>
      PROVE  TypeInv'
  <2>1. label = "vcUpdate" => l.tel \in TelId BY <1>2 DEF TelsWith
  <2>2. issued' \in [Token -> User \cup {None}] BY <1>2 DEF TypeInv, TypeOK
  <2> QED BY <1>2, <2>1, <2>2, MoveTyped DEF Label, Served, Resolved, HasToken, ToStore
<1> QED BY <1>1, <1>2, VcQueryEffect

LEMMA VcWriteTyped ==
  ASSUME TypeInv, NEW w \in Workers, now' = now, VcInsert(w) \/ VcUpdate(w)
  PROVE  TypeInv'
<1>1. Written(w) /\ UNCHANGED <<user, userTel, userSession, session, issued>>
  BY DEF VcInsert, VcUpdate, accounts
<1>2. Stop(w) /\ resp' \in Response
  BY <1>1 DEF Written, Finish, Answer, Silent, Response, Status
<1>3. telephone' \in [TelId -> TelRow \cup {None}]
  <2>1. loc[w].telRow \in TelRow
    BY DEF VcInsert, VcUpdate, At, TypeInv, LocalsOK
  <2> QED BY <2>1 DEF VcInsert, VcUpdate, TypeInv, TypeOK
<1> QED BY <1>1, <1>2, <1>3, StopTyped DEF TypeInv, TypeOK

LEMMA LgLookupTyped ==
  ASSUME TypeInv, NEW w \in Workers, now' = now,
         LgTel(w) \/ LgUserTel(w) \/ LgUser(w) \/ LgNewUser(w)
  PROVE  TypeInv'
<1> USE DEF Served, Resolved, HasToken, ToStore
<1>0. CASE \E status \in Status : Reply(w, status) BY <1>0, ReplyTyped
<1>1. CASE LgTel(w)
  <2>1. ASSUME NEW l \in Locals, req[w].number \in Number,
               l.tel \in TelsWith(req[w].number), l.sesRow = None,
               loc' = [loc EXCEPT ![w] = l],
               Goto(w, "lgUserTel"), UNCHANGED <<tables, issued>>
        PROVE  TypeInv'
    <3>1. l.tel \in TelId BY <2>1 DEF TelsWith
    <3>2. issued' \in [Token -> User \cup {None}] BY <2>1 DEF TypeInv, TypeOK
    <3> QED BY <2>1, <3>1, <3>2, MoveTyped DEF Label
  <2> QED BY <1>0, <1>1, <2>1, LgTelEffect
<1>2. CASE LgUserTel(w) \/ LgUser(w) \/ LgNewUser(w)
  <2>1. /\ loc[w].tel \in TelId /\ req[w].number \in Number /\ loc[w].sesRow = None
    BY <1>2 DEF LgUserTel, LgUser, LgNewUser, At, TypeInv, LocalsOK
  <2>2. ASSUME NEW l \in Locals, l.tel = loc[w].tel, l.sesRow = loc[w].sesRow,
               loc' = [loc EXCEPT ![w] = l], UNCHANGED <<tables, issued>>,
               \/ Goto(w, "lgNewUser")
               \/ Goto(w, "lgUser") /\ l.user \in User
               \/ Goto(w, "lgSessions") /\ l.user \in User
        PROVE  TypeInv'
    <3>1. issued' \in [Token -> User \cup {None}] BY <2>2 DEF TypeInv, TypeOK
    <3> QED BY <2>1, <2>2, <3>1, MoveTyped DEF Label
  <2>3. CASE Reply(w, "serverLogicError") BY <2>3, ReplyTyped DEF Status
  <2> HIDE DEF Served, Resolved, HasToken, ToStore
  <2> QED BY <1>2, <2>2, <2>3, LgUserEffect
<1> QED BY <1>1, <1>2

LEMMA LgSessionsTyped ==
  ASSUME TypeInv, NEW w \in Workers, now' = now, LgSessions(w)
  PROVE  TypeInv'
<1>1. CASE Reply(w, "serverLogicError") BY <1>1, ReplyTyped DEF Status
<1>2. ASSUME NEW t \in Token, NEW l \in Locals, NEW label \in ToStore,
             issued' = [issued EXCEPT ![t] = loc[w].user],
             l.tel = loc[w].tel, l.user = loc[w].user, l.sesRow \in SessionRow,
             label = "lgRefresh" => l.ses \in SessionsOf(l.user),
             loc' = [loc EXCEPT ![w] = l], Goto(w, label), UNCHANGED tables
      PROVE  TypeInv'
  <2>1. loc[w].tel \in TelId /\ req[w].number \in Number /\ loc[w].user \in User
    BY DEF LgSessions, At, TypeInv, LocalsOK, Resolved, Served
  <2>2. issued' \in [Token -> User \cup {None}] BY <1>2, <2>1 DEF TypeInv, TypeOK
  <2>3. label = "lgRefresh" => l.ses \in SessionId BY <1>2 DEF SessionsOf
  <2> QED BY <1>2, <2>1, <2>2, <2>3, MoveTyped DEF Label, Served, Resolved, HasToken, ToStore
<1> QED BY <1>1, <1>2, LgSessionsEffect

LEMMA LgStoreTyped ==
  ASSUME TypeInv, NEW w \in Workers, now' = now,
         LgRefresh(w) \/ LgNewSession(w) \/ LgPurge(w)
  PROVE  TypeInv'
<1> USE DEF TypeInv
<1>1. CASE LgRefresh(w) \/ LgNewSession(w)
  <2>1. pc[w] \in ToStore /\ Goto(w, "lgPurge") /\ loc' = loc
    BY <1>1 DEF LgRefresh, LgNewSession, At, ToStore
  <2>2. session' \in [SessionId -> SessionRow \cup {None}]
    BY <1>1 DEF LgRefresh, LgNewSession, VectorTransaction, At, TypeOK, LocalsOK, HasToken, ToStore
  <2>3. UNCHANGED <<telephone, user, userTel, userSession, issued>>
    BY <1>1 DEF LgRefresh, LgNewSession, VectorTransaction, accounts
  <2>4. TypeOK' BY <2>1, <2>2, <2>3 DEF TypeOK, Goto, Label
  <2>5. LocalsOK'
    BY <2>1 DEF TypeOK, LocalsOK, Goto, Served, Resolved, HasToken, ToStore
  <2> QED BY <2>4, <2>5
<1>2. CASE LgPurge(w)
  <2>1. Stop(w) BY <1>2 DEF LgPurge, Finish
  <2>2. loc[w] \in Locals /\ loc[w].sesRow.token \in Token
    BY <1>2 DEF LgPurge, At, TypeOK, LocalsOK, HasToken, ToStore, SessionRow
  <2>3. resp' \in Response
    BY <1>2, <2>2 DEF LgPurge, Finish, Answer, Silent, Response, Status, Locals
  <2>4. UNCHANGED <<telephone, user, userTel, session, userSession, issued>>
    BY <1>2 DEF LgPurge, VectorTransaction
  <2> QED BY <2>1, <2>3, <2>4, StopTyped DEF TypeOK
<1> QED BY <1>1, <1>2

\* Every step keeps the types, and what a worker remembers fits its label.
LEMMA TypeStep == TypeInv /\ [Next]_vars => TypeInv'
<1> SUFFICES ASSUME TypeInv, [Next]_vars PROVE TypeInv'
  OBVIOUS
<1>1. ASSUME NEW w \in Workers, Work(w) PROVE TypeInv'
  BY <1>1, GateTyped, VcQueryTyped, VcWriteTyped, LgLookupTyped, LgSessionsTyped,
     LgStoreTyped DEF Work
<1>2. ASSUME NEW w \in Workers, now' = now,
             RejectHeaders(w) \/ Accept(w) \/ Throws(w) \/ Crash(w)
      PROVE  TypeInv'
  <2>1. CASE RejectHeaders(w) BY <1>2, <2>1, ReplyTyped DEF RejectHeaders, Status
  <2>2. CASE Accept(w) BY <1>2, <2>2, GateTyped
  <2>3. CASE Throws(w) BY <1>2, <2>3, ReplyTyped DEF Throws, Status
  <2>4. CASE Crash(w)
    BY <1>2, <2>4, StopTyped DEF Crash, TypeInv, TypeOK, tables
  <2> QED BY <1>2, <2>1, <2>2, <2>3, <2>4
<1>3. CASE Tick
  BY <1>3 DEF Tick, TypeInv, TypeOK, LocalsOK, tables
<1>4. CASE UNCHANGED vars
  BY <1>4 DEF vars, tables, TypeInv, TypeOK, LocalsOK
<1> QED BY <1>1, <1>2, <1>3, <1>4 DEF Next

\* Type correctness: the tables keep their column types, and a handler never
\* uses a local it has not set.
THEOREM TypeCorrect == Spec => []TypeOK
<1>1. TypeInv => TypeOK BY DEF TypeInv
<1> QED BY <1>1, TypeInit, TypeStep, PTL DEF Spec

-----------------------------------------------------------------------------
(* What a step leaves alone *)

\* A step of worker w, whatever it does.
Step(w) ==
  /\ Work(w) \/ RejectHeaders(w) \/ Accept(w) \/ Throws(w) \/ Crash(w)
  /\ now' = now

\* The locals, request and label of the other workers stay as they are.
Alone(w) ==
  \A v \in Workers : v # w => pc'[v] = pc[v] /\ loc'[v] = loc[v] /\ req'[v] = req[v]

LEMMA StopAlone ==
  ASSUME TypeInv, NEW w \in Workers, Stop(w)
  PROVE  Alone(w) /\ pc'[w] = "idle" /\ loc'[w].sesRow = None
BY NoLocalsTyped DEF Stop, Alone, TypeInv, TypeOK

LEMMA MoveAlone ==
  ASSUME TypeInv, NEW w \in Workers, NEW label, NEW l,
         loc' = [loc EXCEPT ![w] = l], Goto(w, label)
  PROVE  Alone(w) /\ pc'[w] = label /\ loc'[w] = l /\ req' = req
BY DEF Goto, Alone, TypeInv, TypeOK

LEMMA ReplyEffect ==
  ASSUME TypeInv, NEW w \in Workers, NEW status, Reply(w, status)
  PROVE  /\ Alone(w) /\ pc'[w] = "idle"
         /\ UNCHANGED <<telephone, session, issued, accounts>>
BY StopAlone DEF Reply, Finish, tables, accounts

\* Which statement changes which table, and which leads to which label.
LEMMA StepFrame ==
  ASSUME TypeInv, NEW w \in Workers, Step(w)
  PROVE  /\ Alone(w)
         /\ UNCHANGED accounts
         /\ telephone' = telephone \/ VcInsert(w) \/ VcUpdate(w)
         /\ session' = session \/ LgRefresh(w)
         /\ issued' = issued \/ LgSessions(w)
         /\ pc'[w] \in {"vcInsert", "vcUpdate"} => VcQuery(w)
         /\ pc'[w] \in ToStore => LgSessions(w)
         /\ pc'[w] \in Served =>
              \/ LgTel(w) \/ LgUserTel(w) \/ LgUser(w) \/ LgNewUser(w)
              \/ LgSessions(w) \/ LgRefresh(w) \/ LgNewSession(w)
         /\ pc'[w] = "gateUser" => GateSession(w)
         /\ pc'[w] = "admitted" => GateUser(w)
<1> USE DEF Served, Resolved, HasToken, ToStore
<1>1. CASE RejectHeaders(w) \/ Throws(w)
  BY <1>1, ReplyEffect DEF RejectHeaders, Throws
<1>2. CASE Crash(w)
  BY <1>2, StopAlone DEF Crash, tables, accounts
<1>3. CASE Accept(w)
  <2>1. PICK r \in Request :
          /\ req' = [req EXCEPT ![w] = r]
          /\ pc' = [pc EXCEPT ![w] = IF r.token = NoToken THEN Handler(r.uri)
                                                          ELSE "gateSession"]
          /\ UNCHANGED <<tables, loc, issued>>
    BY <1>3 DEF Accept
  <2>2. Alone(w) BY <2>1 DEF Alone, TypeInv, TypeOK
  <2>3. pc'[w] \in {"vcQuery", "lgTel", "gateSession"}
    <3>1. r.token = NoToken => Handler(r.uri) # "admitted"
      BY HandlerLabels, RequestFields, NullAssumption DEF Request
    <3> QED BY <2>1, <3>1, HandlerLabels DEF TypeInv, TypeOK
  <2> QED BY <2>1, <2>2, <2>3 DEF tables, accounts
<1>4. CASE GateSession(w) \/ GateUser(w)
  <2>1. CASE Reply(w, "forbidden") BY <2>1, ReplyEffect
  <2>2. CASE ~Reply(w, "forbidden")
    <3>1. PICK l \in Locals, label \in {"gateUser", Handler(req[w].uri)} :
            /\ label = "gateUser" => pc[w] = "gateSession"
            /\ label # "gateUser" => pc[w] = "gateUser"
            /\ loc' = [loc EXCEPT ![w] = l] /\ Goto(w, label)
            /\ UNCHANGED <<tables, issued>>
      BY <1>4, <2>2, GateEffect, HandlerLabels
    <3>2. label \in {"gateUser", "vcQuery", "lgTel", "admitted"} BY <3>1, HandlerLabels
    <3>3. Alone(w) /\ pc'[w] = label BY <3>1, MoveAlone
    <3> QED BY <1>4, <3>1, <3>2, <3>3 DEF tables, accounts, GateSession, GateUser, At
  <2> QED BY <2>1, <2>2
<1>5. CASE Serve(w)
  BY <1>5, StopAlone DEF Serve, Finish, tables, accounts
<1>6. CASE VcQuery(w)
  <2>1. CASE \E status \in Status : Reply(w, status) BY <2>1, ReplyEffect
  <2>2. CASE \E l \in Locals, label \in {"vcInsert", "vcUpdate"} :
               /\ loc' = [loc EXCEPT ![w] = l]
               /\ Goto(w, label) /\ UNCHANGED <<tables, issued>>
    <3>1. PICK l \in Locals, label \in {"vcInsert", "vcUpdate"} :
               /\ loc' = [loc EXCEPT ![w] = l]
               /\ Goto(w, label) /\ UNCHANGED <<tables, issued>>
      BY <2>2
    <3>2. Alone(w) /\ pc'[w] = label BY <3>1, MoveAlone
    <3> QED BY <1>6, <3>1, <3>2 DEF tables, accounts
  <2> QED BY <1>6, <2>1, <2>2, VcQueryEffect
<1>7. CASE VcInsert(w) \/ VcUpdate(w)
  <2>1. Stop(w) BY <1>7 DEF VcInsert, VcUpdate, Written, Finish
  <2>2. UNCHANGED <<accounts, session, issued>> BY <1>7 DEF VcInsert, VcUpdate
  <2> QED BY <1>7, <2>1, <2>2, StopAlone
<1>8. CASE LgTel(w) \/ LgUserTel(w) \/ LgUser(w) \/ LgNewUser(w)
  <2>1. CASE \E status \in Status : Reply(w, status) BY <2>1, ReplyEffect
  <2>2. CASE \E l \in Locals :
               /\ loc' = [loc EXCEPT ![w] = l] /\ UNCHANGED <<tables, issued>>
               /\ \/ Goto(w, "lgUserTel") \/ Goto(w, "lgNewUser")
                  \/ Goto(w, "lgUser") \/ Goto(w, "lgSessions")
    <3>1. PICK l \in Locals, label \in {"lgUserTel", "lgNewUser", "lgUser", "lgSessions"} :
               /\ loc' = [loc EXCEPT ![w] = l]
               /\ Goto(w, label) /\ UNCHANGED <<tables, issued>>
      BY <2>2
    <3>2. Alone(w) /\ pc'[w] = label BY <3>1, MoveAlone
    <3> QED BY <1>8, <3>1, <3>2 DEF tables, accounts
  <2> QED BY <1>8, <2>1, <2>2, LgTelEffect, LgUserEffect DEF Status
<1>9. CASE LgSessions(w)
  <2>1. CASE Reply(w, "serverLogicError") BY <2>1, ReplyEffect
  <2>2. CASE \E l \in Locals, label \in ToStore :
               loc' = [loc EXCEPT ![w] = l] /\ Goto(w, label) /\ UNCHANGED tables
    <3>1. PICK l \in Locals, label \in ToStore :
               loc' = [loc EXCEPT ![w] = l] /\ Goto(w, label) /\ UNCHANGED tables
      BY <2>2
    <3>2. Alone(w) /\ pc'[w] = label BY <3>1, MoveAlone
    <3> QED BY <1>9, <3>1, <3>2 DEF tables, accounts
  <2> QED BY <1>9, <2>1, <2>2, LgSessionsEffect
<1>10. CASE LgRefresh(w) \/ LgNewSession(w)
  <2>1. Goto(w, "lgPurge") /\ loc' = loc /\ UNCHANGED <<telephone, issued, accounts>>
    BY <1>10 DEF LgRefresh, LgNewSession, VectorTransaction, accounts
  <2>2. Alone(w) /\ pc'[w] = "lgPurge" BY <2>1 DEF Goto, Alone, TypeInv, TypeOK
  <2>3. session' = session \/ LgRefresh(w)
    BY <1>10 DEF LgNewSession, VectorTransaction
  <2> QED BY <1>10, <2>1, <2>2, <2>3
<1>11. CASE LgPurge(w)
  <2>1. Stop(w) /\ UNCHANGED <<telephone, issued, accounts, session>>
    BY <1>11 DEF LgPurge, Finish, VectorTransaction, accounts
  <2> QED BY <2>1, StopAlone
<1> QED
  BY <1>1, <1>2, <1>3, <1>4, <1>5, <1>6, <1>7, <1>8, <1>9, <1>10, <1>11 DEF Step, Work

LEMMA NextSteps ==
  ASSUME [Next]_vars
  PROVE  (\E w \in Workers : Step(w)) \/ Tick \/ UNCHANGED vars
BY DEF Next, Step, Work

-----------------------------------------------------------------------------
(* Phone numbers *)

LEMMA InitTables ==
  ASSUME Init
  PROVE  /\ \A i, j \in TelId : telephone[i] # None /\ telephone[j] # None
              /\ telephone[i].number = telephone[j].number => i = j
         /\ \A s \in SessionId : session[s] # None =>
              /\ issued[session[s].token] # None
              /\ \A u \in User : <<u, s>> \in userSession <=> u = issued[session[s].token]
         /\ TokenNamesOneSession
         /\ \A w \in Workers : pc[w] = "idle"
<1>1. PICK seed \in Seeds :
        /\ telephone = seed.telephone /\ session = seed.session
        /\ userSession = seed.userSession /\ issued = seed.issued
  BY DEF Init
<1>2. SeedOK(seed) BY SeedsAssumption
<1>3. \A w \in Workers : pc[w] = "idle" BY DEF Init
<1>4. \A i, j \in TelId : telephone[i] # None /\ telephone[j] # None
        /\ telephone[i].number = telephone[j].number => i = j
  BY <1>1, <1>2 DEF SeedOK
<1>5. \A s \in SessionId : session[s] # None =>
        /\ issued[session[s].token] # None
        /\ \A u \in User : <<u, s>> \in userSession <=> u = issued[session[s].token]
  BY <1>1, <1>2 DEF SeedOK
<1>6. TokenNamesOneSession BY <1>1, <1>2 DEF SeedOK, TokenNamesOneSession
<1> QED BY <1>3, <1>4, <1>5, <1>6

\* No row of telephone disappears or changes its number.
LEMMA RowsKeepTheirNumber ==
  ASSUME TypeInv, PhoneInv, NEW w \in Workers, Step(w),
         NEW i \in TelId, telephone[i] # None
  PROVE  telephone'[i] # None /\ telephone'[i].number = telephone[i].number
<1>1. CASE telephone' = telephone BY <1>1
<1>2. CASE VcInsert(w)
  BY <1>2 DEF VcInsert, TypeInv, TypeOK
<1>3. CASE VcUpdate(w)
  <2>1. /\ loc[w].telRow \in TelRow /\ loc[w].tel \in TelId
        /\ telephone[loc[w].tel].number = loc[w].telRow.number
    BY <1>3 DEF VcUpdate, At, TypeInv, LocalsOK, PhoneInv
  <2> QED BY <1>3, <2>1, RowAssumption DEF VcUpdate, TypeInv, TypeOK
<1> QED BY <1>1, <1>2, <1>3, StepFrame

LEMMA PhoneInit == Init => PhoneInv
BY InitTables DEF PhoneInv, Served, Resolved, HasToken, ToStore

LEMMA PhoneStep == TypeInv /\ PhoneInv /\ [Next]_vars => PhoneInv'
<1> SUFFICES ASSUME TypeInv, PhoneInv, [Next]_vars PROVE PhoneInv'
  OBVIOUS
<1>1. ASSUME NEW w \in Workers, Step(w) PROVE PhoneInv'
  <2> DEFINE Fine(v) ==
        /\ pc[v] = "vcUpdate" =>
             /\ telephone[loc[v].tel] # None
             /\ telephone[loc[v].tel].number = loc[v].telRow.number
        /\ pc[v] \in Served => loc[v].tel \in TelsWith(req[v].number)
        /\ pc[v] \in Resolved /\ loc[v].user \in user =>
             <<loc[v].user, loc[v].tel, "login">> \in userTel
  <2>1. \A n : \A i \in TelId : i \in TelsWith(n) => i \in TelsWith(n)'
    BY <1>1, RowsKeepTheirNumber DEF TelsWith
  <2>2. user' = user /\ userTel' = userTel BY <1>1, StepFrame DEF accounts
  <2>3. ASSUME NEW v \in Workers, v # w PROVE Fine(v)'
    <3>1. pc'[v] = pc[v] /\ loc'[v] = loc[v] /\ req'[v] = req[v]
      BY <1>1, <2>3, StepFrame DEF Alone
    <3>2. pc[v] = "vcUpdate" => loc[v].tel \in TelId BY DEF TypeInv, LocalsOK
    <3>3. pc'[v] = "vcUpdate" =>
             /\ telephone'[loc'[v].tel] # None
             /\ telephone'[loc'[v].tel].number = loc'[v].telRow.number
      BY <1>1, <3>1, <3>2, RowsKeepTheirNumber DEF PhoneInv
    <3>4. (pc[v] \in Served => loc[v].tel \in TelsWith(req[v].number))'
      <4>1. pc[v] \in Served => loc[v].tel \in TelsWith(req[v].number) BY DEF PhoneInv
      <4>2. pc[v] \in Served => loc[v].tel \in TelId BY DEF TypeInv, LocalsOK
      <4> QED BY <2>1, <3>1, <4>1, <4>2
    <3> QED BY <2>2, <3>1, <3>3, <3>4 DEF PhoneInv
  <2>4. Fine(w)'
    <3>1. CASE VcQuery(w)
      <4>1. CASE \E status \in Status : Reply(w, status)
        BY <4>1, ReplyEffect DEF Served, Resolved, HasToken, ToStore
      <4>2. CASE \E l \in Locals, label \in {"vcInsert", "vcUpdate"} :
              /\ l.telRow.number = req[w].number
              /\ label = "vcUpdate" => l.tel \in TelsWith(req[w].number)
              /\ loc' = [loc EXCEPT ![w] = l]
              /\ Goto(w, label) /\ UNCHANGED <<tables, issued>>
        <5>1. PICK l \in Locals, label \in {"vcInsert", "vcUpdate"} :
              /\ l.telRow.number = req[w].number
              /\ label = "vcUpdate" => l.tel \in TelsWith(req[w].number)
              /\ loc' = [loc EXCEPT ![w] = l]
              /\ Goto(w, label) /\ UNCHANGED <<tables, issued>>
          BY <4>2
        <5>2. pc'[w] = label /\ loc'[w] = l BY <5>1, MoveAlone
        <5> QED BY <5>1, <5>2 DEF TelsWith, tables, Served, Resolved, HasToken, ToStore
      <4> QED BY <3>1, <4>1, <4>2, VcQueryEffect
    <3>2. CASE LgTel(w)
      <4>1. CASE \E status \in Status : Reply(w, status)
        BY <4>1, ReplyEffect DEF Served, Resolved, HasToken, ToStore
      <4>2. CASE \E l \in Locals :
              /\ l.tel \in TelsWith(req[w].number)
              /\ loc' = [loc EXCEPT ![w] = l]
              /\ Goto(w, "lgUserTel") /\ UNCHANGED <<tables, issued>>
        <5>1. PICK l \in Locals :
              /\ l.tel \in TelsWith(req[w].number)
              /\ loc' = [loc EXCEPT ![w] = l]
              /\ Goto(w, "lgUserTel") /\ UNCHANGED <<tables, issued>>
          BY <4>2
        <5>2. pc'[w] = "lgUserTel" /\ loc'[w] = l /\ req' = req BY <5>1, MoveAlone
        <5> QED BY <5>1, <5>2 DEF TelsWith, tables, Served, Resolved, HasToken, ToStore
      <4> QED BY <3>2, <4>1, <4>2, LgTelEffect
    <3>3. CASE LgUserTel(w) \/ LgUser(w) \/ LgNewUser(w)
      <4>1. CASE Reply(w, "serverLogicError")
        BY <4>1, ReplyEffect DEF Served, Resolved, HasToken, ToStore
      <4>2. CASE ~Reply(w, "serverLogicError")
        <5>1. PICK l \in Locals :
                /\ l.tel = loc[w].tel
                /\ loc' = [loc EXCEPT ![w] = l] /\ UNCHANGED <<tables, issued>>
                /\ \/ pc[w] = "lgUserTel" /\ Goto(w, "lgNewUser")
                   \/ /\ pc[w] = "lgUserTel" /\ Goto(w, "lgUser")
                      /\ <<l.user, l.tel, "login">> \in userTel
                   \/ pc[w] = "lgUser" /\ Goto(w, "lgSessions") /\ l.user = loc[w].user
                   \/ pc[w] = "lgNewUser" /\ Goto(w, "lgSessions") /\ l.user \notin user
          BY <3>3, <4>2, LgUserEffect
        <5>2. PICK label \in {"lgNewUser", "lgUser", "lgSessions"} : Goto(w, label)
          BY <5>1
        <5>3. pc'[w] = label /\ loc'[w] = l /\ req' = req BY <5>1, <5>2, MoveAlone
        <5>4. loc[w].tel \in TelsWith(req[w].number)
          BY <5>1 DEF PhoneInv, Served, Resolved
        <5>5. pc[w] = "lgUser" /\ loc[w].user \in user =>
                <<loc[w].user, loc[w].tel, "login">> \in userTel
          BY DEF PhoneInv, Resolved
        <5>6. telephone' = telephone BY <5>1 DEF tables
        <5>7. (loc[w].tel \in TelsWith(req[w].number))'
          BY <5>1, <5>3, <5>4, <5>6 DEF TelsWith
        <5>8. label \in {"lgUser", "lgSessions"} /\ l.user \in user =>
                <<l.user, l.tel, "login">> \in userTel
          BY <5>1, <5>2, <5>3, <5>5 DEF Goto, TypeInv, TypeOK
        <5>9. pc'[w] \in Resolved /\ loc'[w].user \in user' =>
                <<loc'[w].user, loc'[w].tel, "login">> \in userTel'
          BY <2>2, <5>3, <5>8 DEF Resolved, HasToken, ToStore
        <5> QED BY <5>3, <5>7, <5>9
      <4> QED BY <4>1, <4>2
    <3>4. CASE LgSessions(w)
      <4>1. CASE Reply(w, "serverLogicError")
        BY <4>1, ReplyEffect DEF Served, Resolved, HasToken, ToStore
      <4>2. CASE \E l \in Locals, label \in ToStore :
              /\ l.tel = loc[w].tel /\ l.user = loc[w].user
              /\ loc' = [loc EXCEPT ![w] = l]
              /\ Goto(w, label) /\ UNCHANGED tables
        <5>1. PICK l \in Locals, label \in ToStore :
              /\ l.tel = loc[w].tel /\ l.user = loc[w].user
              /\ loc' = [loc EXCEPT ![w] = l]
              /\ Goto(w, label) /\ UNCHANGED tables
          BY <4>2
        <5>2. pc'[w] = label /\ loc'[w] = l /\ req' = req BY <5>1, MoveAlone
        <5>3. pc[w] = "lgSessions" BY <3>4 DEF LgSessions, At
        <5> QED BY <5>1, <5>2, <5>3 DEF PhoneInv, TelsWith, tables, Served, Resolved, HasToken, ToStore
      <4> QED BY <3>4, <4>1, <4>2, LgSessionsEffect
    <3>5. CASE LgRefresh(w) \/ LgNewSession(w)
      <4>1. pc[w] \in ToStore /\ pc'[w] = "lgPurge" /\ loc' = loc /\ req' = req
            /\ telephone' = telephone
        BY <3>5 DEF LgRefresh, LgNewSession, At, Goto, ToStore, TypeInv, TypeOK
      <4> QED BY <2>2, <4>1 DEF PhoneInv, TelsWith, Served, Resolved, HasToken, ToStore
    <3>6. CASE ~(pc'[w] = "vcUpdate" \/ pc'[w] \in Served)
      BY <3>6 DEF Served
    <3> QED BY <1>1, <3>1, <3>2, <3>3, <3>4, <3>5, <3>6, StepFrame
  <2> QED BY <2>3, <2>4 DEF PhoneInv
<1>2. CASE Tick
  BY <1>2 DEF Tick, tables, PhoneInv, TelsWith
<1>3. CASE UNCHANGED vars
  BY <1>3 DEF vars, tables, PhoneInv, TelsWith
<1> QED BY <1>1, <1>2, <1>3, NextSteps

LEMMA RowsInit == Init => RowsInv
<1> SUFFICES ASSUME Init, NEW n \in Number
             PROVE  /\ IsFiniteSet(TelsWith(n))
                    /\ TelsWith(n) # {} =>
                         Cardinality(TelsWith(n)) + Cardinality(Inserting(n))
                           <= Cardinality(Workers)
  BY DEF RowsInv
<1>1. Inserting(n) = {} BY InitTables DEF Inserting
<1>2. Cardinality(Inserting(n)) = 0 BY <1>1, FS_EmptySet
<1>3. CASE TelsWith(n) = {} BY <1>3, FS_EmptySet
<1>4. CASE TelsWith(n) # {}
  <2>1. PICK i \in TelId : TelsWith(n) = {i} BY <1>4, InitTables DEF TelsWith
  <2>2. IsFiniteSet(TelsWith(n)) /\ Cardinality(TelsWith(n)) = 1 BY <2>1, FS_Singleton
  <2>3. Cardinality(Workers) \in Nat /\ Cardinality(Workers) # 0
    BY WorkersAssumption, FS_CardinalityType, FS_EmptySet
  <2> QED BY <1>2, <2>2, <2>3
<1> QED BY <1>3, <1>4

LEMMA InsertingFinite ==
  ASSUME NEW n
  PROVE  /\ IsFiniteSet(Inserting(n)) /\ Cardinality(Inserting(n)) \in Nat
         /\ Cardinality(Inserting(n)) <= Cardinality(Workers)
         /\ Cardinality(Workers) \in Nat
<1>1. Inserting(n) \subseteq Workers BY DEF Inserting
<1> QED BY <1>1, WorkersAssumption, FS_Subset, FS_CardinalityType

\* If the rows of a number stay and no process starts inserting it, the sum
\* does not grow.
LEMMA RowsStay ==
  ASSUME RowsInv, NEW n \in Number, TelsWith(n)' = TelsWith(n),
         TelsWith(n) = {} \/ Inserting(n)' \subseteq Inserting(n)
  PROVE  /\ IsFiniteSet(TelsWith(n))'
         /\ TelsWith(n)' # {} =>
              Cardinality(TelsWith(n))' + Cardinality(Inserting(n))' <= Cardinality(Workers)
<1> DEFINE T == TelsWith(n)  I == Inserting(n)  J == Inserting(n)'
<1>1. IsFiniteSet(T) /\ (T # {} => Cardinality(T) + Cardinality(I) <= Cardinality(Workers))
  BY DEF RowsInv
<1>2. Cardinality(T) \in Nat BY <1>1, FS_CardinalityType
<1>3. /\ IsFiniteSet(I) /\ Cardinality(I) \in Nat /\ Cardinality(Workers) \in Nat
  BY InsertingFinite
<1>4. J \subseteq I => Cardinality(J) <= Cardinality(I) /\ Cardinality(J) \in Nat
  BY <1>3, FS_Subset, FS_CardinalityType
<1> HIDE DEF I, J, T
<1>5. TelsWith(n)' = T /\ Inserting(n)' = J /\ (T = {} \/ J \subseteq I) BY DEF T, J, I
<1> QED BY <1>1, <1>2, <1>3, <1>4, <1>5

LEMMA RowsStep == TypeInv /\ PhoneInv /\ RowsInv /\ [Next]_vars => RowsInv'
<1> SUFFICES ASSUME TypeInv, PhoneInv, RowsInv, [Next]_vars, NEW n \in Number
             PROVE  /\ IsFiniteSet(TelsWith(n))'
                    /\ TelsWith(n)' # {} =>
                         Cardinality(TelsWith(n))' + Cardinality(Inserting(n))'
                           <= Cardinality(Workers)
  BY DEF RowsInv
<1>1. ASSUME NEW w \in Workers, Step(w), telephone' = telephone
      PROVE  /\ TelsWith(n)' = TelsWith(n)
             /\ TelsWith(n) = {} \/ Inserting(n)' \subseteq Inserting(n)
  <2>1. TelsWith(n)' = TelsWith(n) BY <1>1 DEF TelsWith
  <2>2. CASE pc'[w] # "vcInsert"
    <3>1. Inserting(n)' \subseteq Inserting(n)
      BY <1>1, <2>2, StepFrame DEF Alone, Inserting
    <3> QED BY <2>1, <3>1
  <2>3. CASE VcQuery(w) /\ pc'[w] = "vcInsert"
    <3>1. PICK l \in Locals, label \in {"vcInsert", "vcUpdate"} :
            /\ l.telRow.number = req[w].number
            /\ label = "vcInsert" => TelsWith(req[w].number) = {}
            /\ loc' = [loc EXCEPT ![w] = l] /\ Goto(w, label)
      BY <2>3, VcQueryEffect, ReplyEffect
    <3>2. pc'[w] = label /\ loc'[w] = l BY <3>1, MoveAlone
    <3>3. CASE req[w].number = n BY <2>1, <2>3, <3>1, <3>2, <3>3
    <3>4. CASE req[w].number # n
      <4>1. Inserting(n)' \subseteq Inserting(n)
        BY <1>1, <3>1, <3>2, <3>4, StepFrame DEF Alone, Inserting
      <4> QED BY <2>1, <4>1
    <3> QED BY <3>3, <3>4
  <2> QED BY <1>1, <2>2, <2>3, StepFrame
<1>2. ASSUME NEW w \in Workers, Step(w), VcUpdate(w)
      PROVE  TelsWith(n)' = TelsWith(n) /\ Inserting(n)' \subseteq Inserting(n)
  <2>1. /\ loc[w].telRow \in TelRow /\ loc[w].tel \in TelId
        /\ telephone[loc[w].tel] # None
        /\ telephone[loc[w].tel].number = loc[w].telRow.number
    BY <1>2 DEF VcUpdate, At, TypeInv, LocalsOK, PhoneInv
  <2>2. telephone' = [telephone EXCEPT ![loc[w].tel] = loc[w].telRow]
    BY <1>2 DEF VcUpdate
  <2>3. TelsWith(n)' = TelsWith(n)
    BY <2>1, <2>2, RowAssumption DEF TelsWith, TypeInv, TypeOK
  <2>4. pc'[w] = "idle" /\ Alone(w)
    BY <1>2, StopAlone DEF VcUpdate, Written, Finish
  <2> QED BY <2>3, <2>4 DEF Alone, Inserting
<1>3. ASSUME NEW w \in Workers, Step(w), VcInsert(w)
      PROVE  /\ IsFiniteSet(TelsWith(n))'
             /\ TelsWith(n)' # {} =>
                  Cardinality(TelsWith(n))' + Cardinality(Inserting(n))'
                    <= Cardinality(Workers)
  <2>1. /\ pc[w] = "vcInsert" /\ loc[w].telRow \in TelRow
    BY <1>3 DEF VcInsert, At, TypeInv, LocalsOK
  <2>2. PICK i \in TelId : /\ telephone[i] = None
                           /\ telephone' = [telephone EXCEPT ![i] = loc[w].telRow]
    BY <1>3 DEF VcInsert
  <2>3. pc'[w] = "idle" /\ Alone(w)
    BY <1>3, StopAlone DEF VcInsert, Written, Finish
  <2>4. CASE loc[w].telRow.number # n
    <3>1. TelsWith(n)' = TelsWith(n)
      BY <2>1, <2>2, <2>4 DEF TelsWith, TypeInv, TypeOK
    <3>2. Inserting(n)' \subseteq Inserting(n) BY <2>3 DEF Alone, Inserting
    <3> QED BY <3>1, <3>2, RowsStay
  <2>5. CASE loc[w].telRow.number = n
    <3> DEFINE T == TelsWith(n)  I == Inserting(n)
    <3>1. TelsWith(n)' = T \cup {i} /\ i \notin T
      BY <2>1, <2>2, <2>5, RowAssumption DEF TelsWith, TypeInv, TypeOK
    <3>2. Inserting(n)' = I \ {w} /\ w \in I
      BY <2>1, <2>3, <2>5 DEF Alone, Inserting
    <3>3. IsFiniteSet(T) /\ (T # {} => Cardinality(T) + Cardinality(I) <= Cardinality(Workers))
      BY DEF RowsInv
    <3>4. IsFiniteSet(I) /\ Cardinality(I) \in Nat /\ Cardinality(I) <= Cardinality(Workers)
          /\ Cardinality(Workers) \in Nat
      BY InsertingFinite
    <3> HIDE DEF T, I
    <3>5. /\ IsFiniteSet(T \cup {i}) /\ Cardinality(T \cup {i}) = Cardinality(T) + 1
          /\ Cardinality(T) \in Nat
      BY <3>1, <3>3, FS_AddElement, FS_CardinalityType
    <3>6. Cardinality(I \ {w}) = Cardinality(I) - 1
      BY <3>2, <3>4, FS_RemoveElement
    <3>7. T = {} => Cardinality(T) = 0 BY FS_EmptySet
    <3>8. Cardinality(T \cup {i}) + Cardinality(I \ {w}) <= Cardinality(Workers)
      BY <3>3, <3>4, <3>5, <3>6, <3>7
    <3> QED BY <3>1, <3>2, <3>5, <3>8
  <2> QED BY <2>4, <2>5
<1>4. CASE Tick \/ UNCHANGED vars
  <2>1. TelsWith(n)' = TelsWith(n) /\ Inserting(n)' \subseteq Inserting(n)
    BY <1>4 DEF Tick, vars, tables, TelsWith, Inserting
  <2> QED BY <2>1, RowsStay
<1>5. ASSUME NEW w \in Workers, Step(w)
      PROVE  /\ IsFiniteSet(TelsWith(n))'
             /\ TelsWith(n)' # {} =>
                  Cardinality(TelsWith(n))' + Cardinality(Inserting(n))'
                    <= Cardinality(Workers)
  <2>1. CASE telephone' = telephone BY <1>1, <1>5, <2>1, RowsStay
  <2>2. CASE VcUpdate(w) BY <1>2, <1>5, <2>2, RowsStay
  <2>3. CASE VcInsert(w) BY <1>3, <1>5, <2>3
  <2> QED BY <1>5, <2>1, <2>2, <2>3, StepFrame
<1> QED BY <1>4, <1>5, NextSteps

-----------------------------------------------------------------------------
(* Tokens *)

LEMMA TokenInit == Init => TokenInv
<1> SUFFICES ASSUME Init PROVE TokenInv
  OBVIOUS
<1>1. TypeOK BY TypeInit DEF TypeInv
<1>2. OwnerInv
  <2> SUFFICES ASSUME NEW s \in SessionId, session[s] # None
               PROVE  /\ issued[session[s].token] \in User
                      /\ \A u \in User : <<u, s>> \in userSession <=> u = issued[session[s].token]
    BY DEF OwnerInv
  <2>1. session[s].token \in Token BY <1>1 DEF TypeOK, SessionRow
  <2> QED BY <1>1, <2>1, InitTables DEF TypeOK
<1> QED BY <1>2, InitTables DEF TokenInv, PendingInv, GateInv, ToStore

\* A stored token is not fresh.
LEMMA StoredIsDrawn ==
  ASSUME TypeInv, OwnerInv, NEW s \in SessionId, session[s] # None
  PROVE  session[s] \in SessionRow /\ session[s].token \in Token /\ ~Fresh(session[s].token)
<1>1. session[s] \in SessionRow BY DEF TypeInv, TypeOK
<1>2. session[s].token \in Token BY <1>1 DEF SessionRow
<1> QED BY <1>1, <1>2, NullAssumption DEF OwnerInv, Fresh

\* Drawing a token.
LEMMA DrawStep ==
  ASSUME TypeInv, TokenInv, NEW w \in Workers, Step(w), LgSessions(w)
  PROVE  TokenInv'
<1>1. CASE Reply(w, "serverLogicError")
  <2>1. Alone(w) /\ pc'[w] = "idle" /\ UNCHANGED <<session, issued, userSession>>
    BY <1>1, ReplyEffect DEF accounts
  <2> QED BY <2>1 DEF TokenInv, TokenNamesOneSession, OwnerInv, PendingInv, GateInv, Alone,
                      SessionsWith, ToStore
<1>2. CASE ~Reply(w, "serverLogicError")
  <2>1. PICK t \in Token, l \in Locals, label \in ToStore :
          /\ Fresh(t) /\ issued' = [issued EXCEPT ![t] = loc[w].user]
          /\ l.tel = loc[w].tel /\ l.user = loc[w].user
          /\ l.sesRow \in SessionRow /\ l.sesRow.token = t
          /\ label = "lgRefresh" => l.ses \in SessionsOf(l.user)
          /\ loc' = [loc EXCEPT ![w] = l]
          /\ Goto(w, label) /\ UNCHANGED tables
    BY <1>2, LgSessionsEffect
  <2>2. Alone(w) /\ pc'[w] = label /\ loc'[w] = l BY <2>1, MoveAlone
  <2>3. session' = session /\ userSession' = userSession BY <2>1 DEF tables
  <2>4. loc[w].user \in User
    BY DEF LgSessions, At, TypeInv, LocalsOK, Resolved
  <2>5. \A x \in Token : ~Fresh(x) => issued'[x] = issued[x]
    BY <2>1 DEF TypeInv, TypeOK
  <2>6. issued'[t] = loc[w].user BY <2>1 DEF TypeInv, TypeOK
  <2>7. \A s \in SessionId : session[s] # None =>
          session[s].token \in Token /\ ~Fresh(session[s].token)
    BY StoredIsDrawn DEF TokenInv
  <2>8. SessionsWith(t)' = {} BY <2>1, <2>3, <2>7 DEF SessionsWith
  <2>9. TokenNamesOneSession' BY <2>3 DEF TokenInv, TokenNamesOneSession
  <2>10. OwnerInv'
    BY <2>3, <2>5, <2>7 DEF TokenInv, OwnerInv
  <2>11. \A v \in Workers : v # w /\ pc[v] \in ToStore =>
           /\ loc[v].sesRow.token \in Token /\ ~Fresh(loc[v].sesRow.token)
    <3> SUFFICES ASSUME NEW v \in Workers, pc[v] \in ToStore
                 PROVE  loc[v].sesRow.token \in Token /\ ~Fresh(loc[v].sesRow.token)
      OBVIOUS
    <3>1. loc[v].sesRow \in SessionRow /\ loc[v].user \in User
      BY DEF TypeInv, LocalsOK, Resolved, HasToken
    <3>2. loc[v].sesRow.token \in Token BY <3>1 DEF SessionRow
    <3>3. issued[loc[v].sesRow.token] = loc[v].user BY DEF TokenInv, PendingInv
    <3> QED BY <3>1, <3>2, <3>3, NullAssumption DEF Fresh
  <2>12. PendingInv'
    <3>1. ASSUME NEW v \in Workers, pc'[v] \in ToStore
          PROVE  /\ issued'[loc'[v].sesRow.token] = loc'[v].user
                 /\ (SessionsWith(loc[v].sesRow.token) = {})'
      <4>1. CASE v = w BY <2>1, <2>2, <2>6, <2>8, <4>1 DEF SessionsWith
      <4>2. CASE v # w
        <5>1. pc[v] \in ToStore /\ loc'[v] = loc[v] BY <2>2, <3>1, <4>2 DEF Alone
        <5>2. issued[loc[v].sesRow.token] = loc[v].user /\ SessionsWith(loc[v].sesRow.token) = {}
          BY <5>1 DEF TokenInv, PendingInv
        <5> QED BY <2>3, <2>5, <2>11, <4>2, <5>1, <5>2 DEF SessionsWith
      <4> QED BY <4>1, <4>2
    <3>2. ASSUME NEW v \in Workers, pc'[v] = "lgRefresh"
          PROVE  session'[loc'[v].ses] # None /\ <<loc'[v].user, loc'[v].ses>> \in userSession'
      <4>1. CASE v = w BY <2>1, <2>2, <2>3, <3>2, <4>1 DEF SessionsOf
      <4>2. CASE v # w BY <2>2, <2>3, <3>2, <4>2 DEF Alone, TokenInv, PendingInv
      <4> QED BY <4>1, <4>2
    <3>3. ASSUME NEW v \in Workers, NEW x \in Workers, pc'[v] \in ToStore, pc'[x] \in ToStore,
                 loc'[v].sesRow.token = loc'[x].sesRow.token
          PROVE  v = x
      BY <2>1, <2>2, <2>11, <3>3 DEF Alone, TokenInv, PendingInv
    <3> QED BY <3>1, <3>2, <3>3 DEF PendingInv
  <2>13. GateInv'
    <3> SUFFICES ASSUME NEW v \in Workers, v # w
                 PROVE  /\ pc[v] = "gateUser" =>
                             /\ session[loc[v].ses] # None
                             /\ req[v].token \in Token
                             /\ issued'[req[v].token] \in User
                             /\ <<issued'[req[v].token], loc[v].ses>> \in userSession
                        /\ pc[v] = "admitted" =>
                             req[v].token \in Token /\ loc[v].user = issued'[req[v].token]
                               /\ loc[v].user \in User
      BY <2>2, <2>3 DEF GateInv, Alone, ToStore
    <3>1. pc[v] \in {"gateUser", "admitted"} =>
            req[v].token \in Token /\ issued[req[v].token] \in User
      BY DEF TokenInv, GateInv
    <3>2. pc[v] \in {"gateUser", "admitted"} => issued'[req[v].token] = issued[req[v].token]
      BY <2>5, <3>1, NullAssumption DEF Fresh
    <3> QED BY <3>1, <3>2 DEF TokenInv, GateInv
  <2> QED BY <2>9, <2>10, <2>12, <2>13 DEF TokenInv
<1> QED BY <1>1, <1>2

\* Storing a token in the row of the session it was drawn for.
LEMMA RefreshStep ==
  ASSUME TypeInv, TokenInv, NEW w \in Workers, Step(w), LgRefresh(w)
  PROVE  TokenInv'
<1> DEFINE s0 == loc[w].ses  row == loc[w].sesRow  t0 == row.token
<1>1. /\ pc[w] = "lgRefresh" /\ pc'[w] = "lgPurge" /\ Alone(w) /\ loc' = loc
      /\ session' = [session EXCEPT ![s0] = row]
      /\ userSession' = userSession /\ issued' = issued
  BY DEF LgRefresh, At, Goto, Alone, accounts, TypeInv, TypeOK
<1>2. s0 \in SessionId /\ row \in SessionRow /\ loc[w].user \in User
  BY <1>1 DEF TypeInv, LocalsOK, Resolved, HasToken, ToStore
<1>3. t0 \in Token BY <1>2 DEF SessionRow
<1>4. /\ issued[t0] = loc[w].user /\ SessionsWith(t0) = {}
      /\ session[s0] # None /\ <<loc[w].user, s0>> \in userSession
  BY <1>1 DEF TokenInv, PendingInv, ToStore
<1>5. row # None BY <1>2, RowAssumption
<1> HIDE DEF s0, row, t0
<1>6. /\ session'[s0] = row
      /\ \A s \in SessionId : s # s0 => session'[s] = session[s]
  BY <1>1, <1>2 DEF TypeInv, TypeOK
<1>7. \A s \in SessionId : session[s] # None => session[s].token # t0
  BY <1>4 DEF SessionsWith
<1>8. row.token = t0 BY DEF t0
<1>9. TokenNamesOneSession'
  BY <1>6, <1>7, <1>8 DEF TokenInv, TokenNamesOneSession
<1>10. OwnerInv'
  <2> SUFFICES ASSUME NEW s \in SessionId, session'[s] # None
               PROVE  /\ issued[session'[s].token] \in User
                      /\ \A u \in User : <<u, s>> \in userSession <=> u = issued[session'[s].token]
    BY <1>1 DEF OwnerInv
  <2>1. CASE s # s0 BY <1>6, <2>1 DEF TokenInv, OwnerInv
  <2>2. CASE s = s0
    <3>1. loc[w].user = issued[session[s0].token]
      BY <1>2, <1>4 DEF TokenInv, OwnerInv
    <3>2. \A u \in User : <<u, s0>> \in userSession <=> u = loc[w].user
      BY <1>2, <1>4, <3>1 DEF TokenInv, OwnerInv
    <3> QED BY <1>2, <1>4, <1>6, <1>8, <2>2, <3>2
  <2> QED BY <2>1, <2>2
<1>11. PendingInv'
  <2>1. ASSUME NEW v \in Workers, pc'[v] \in ToStore
        PROVE  v # w /\ pc[v] \in ToStore /\ loc[v].sesRow.token # t0
    <3>1. v # w /\ pc[v] \in ToStore BY <1>1, <2>1 DEF Alone, ToStore
    <3> QED BY <1>1, <3>1 DEF TokenInv, PendingInv, ToStore, t0, row
  <2>2. ASSUME NEW v \in Workers, pc'[v] \in ToStore
        PROVE  /\ issued'[loc'[v].sesRow.token] = loc'[v].user
               /\ (SessionsWith(loc[v].sesRow.token) = {})'
    <3>1. /\ issued[loc[v].sesRow.token] = loc[v].user
          /\ SessionsWith(loc[v].sesRow.token) = {}
      BY <2>1, <2>2 DEF TokenInv, PendingInv
    <3> QED BY <1>1, <1>6, <1>8, <2>1, <2>2, <3>1 DEF SessionsWith
  <2>3. \A s \in SessionId : session[s] # None => session'[s] # None
    BY <1>5, <1>6
  <2>4. ASSUME NEW v \in Workers, pc'[v] = "lgRefresh"
        PROVE  session'[loc'[v].ses] # None /\ <<loc'[v].user, loc'[v].ses>> \in userSession'
    <3>1. pc[v] = "lgRefresh" BY <1>1, <2>4 DEF Alone
    <3>2. loc[v].ses \in SessionId BY <3>1 DEF TypeInv, LocalsOK
    <3> QED BY <1>1, <2>3, <3>1, <3>2 DEF TokenInv, PendingInv
  <2>5. ASSUME NEW v \in Workers, NEW x \in Workers, pc'[v] \in ToStore, pc'[x] \in ToStore,
               loc'[v].sesRow.token = loc'[x].sesRow.token
        PROVE  v = x
    BY <1>1, <2>1, <2>5 DEF TokenInv, PendingInv
  <2> QED BY <2>2, <2>4, <2>5 DEF PendingInv
<1>12. GateInv'
  <2> SUFFICES ASSUME NEW v \in Workers, v # w
               PROVE  /\ pc[v] = "gateUser" =>
                           /\ session'[loc[v].ses] # None
                           /\ req[v].token \in Token
                           /\ issued[req[v].token] \in User
                           /\ <<issued[req[v].token], loc[v].ses>> \in userSession
                      /\ pc[v] = "admitted" =>
                           req[v].token \in Token /\ loc[v].user = issued[req[v].token]
                             /\ loc[v].user \in User
    BY <1>1 DEF GateInv, Alone
  <2>1. pc[v] = "gateUser" => loc[v].ses \in SessionId BY DEF TypeInv, LocalsOK
  <2> QED BY <1>5, <1>6, <2>1 DEF TokenInv, GateInv
<1> QED BY <1>9, <1>10, <1>11, <1>12 DEF TokenInv

\* The two queries of the gate.
LEMMA GateStep ==
  ASSUME TypeInv, TokenInv, NEW w \in Workers, Step(w), GateSession(w) \/ GateUser(w)
  PROVE  TokenInv'
<1>1. Alone(w) BY StepFrame
<1>2. CASE Reply(w, "forbidden")
  <2>1. pc'[w] = "idle" /\ UNCHANGED <<session, issued, userSession>>
    BY <1>2, ReplyEffect DEF accounts
  <2> QED BY <1>1, <2>1 DEF TokenInv, TokenNamesOneSession, OwnerInv, PendingInv, GateInv,
                            Alone, SessionsWith, ToStore
<1>3. CASE ~Reply(w, "forbidden")
  <2>1. PICK l \in Locals :
          /\ loc' = [loc EXCEPT ![w] = l] /\ UNCHANGED <<tables, issued>>
          /\ \/ /\ pc[w] = "gateSession" /\ SessionsWith(req[w].token) = {l.ses}
                /\ Goto(w, "gateUser")
             \/ /\ pc[w] = "gateUser" /\ l.user \in user
                /\ OwnersOf(loc[w].ses) = {l.user}
                /\ Goto(w, Handler(req[w].uri))
    BY <1>3, GateEffect
  <2>2. PICK label \in {"gateUser", "vcQuery", "lgTel", "admitted"} : Goto(w, label)
    BY <2>1, HandlerLabels
  <2>3. pc'[w] = label /\ loc'[w] = l /\ req' = req BY <2>1, <2>2, MoveAlone
  <2>4. UNCHANGED <<session, issued, userSession>> BY <2>1 DEF tables
  <2>5. TokenNamesOneSession' /\ OwnerInv'
    BY <2>4 DEF TokenInv, TokenNamesOneSession, OwnerInv
  <2>6. PendingInv'
    BY <1>1, <2>2, <2>3, <2>4 DEF TokenInv, PendingInv, Alone, SessionsWith, ToStore
  <2>7. label = "gateUser" =>
          /\ session[l.ses] # None
          /\ req[w].token \in Token
          /\ issued[req[w].token] \in User
          /\ <<issued[req[w].token], l.ses>> \in userSession
    <3>1. SUFFICES ASSUME label = "gateUser"
                   PROVE  /\ session[l.ses] # None
                          /\ req[w].token \in Token
                          /\ issued[req[w].token] \in User
                          /\ <<issued[req[w].token], l.ses>> \in userSession
      OBVIOUS
    <3>2. Goto(w, Handler(req[w].uri)) => Handler(req[w].uri) = label
      BY <2>3, MoveAlone, <2>1
    <3>3. SessionsWith(req[w].token) = {l.ses} BY <2>1, <3>1, <3>2, HandlerLabels
    <3>4. l.ses \in SessionId /\ session[l.ses] # None /\ session[l.ses].token = req[w].token
      BY <3>3 DEF SessionsWith
    <3>5. req[w].token \in Token BY <3>4, StoredIsDrawn DEF TokenInv
    <3> QED BY <3>4, <3>5 DEF TokenInv, OwnerInv
  <2>8. label = "admitted" =>
          req[w].token \in Token /\ l.user = issued[req[w].token] /\ l.user \in User
    <3>1. SUFFICES ASSUME label = "admitted"
                   PROVE  req[w].token \in Token /\ l.user = issued[req[w].token] /\ l.user \in User
      OBVIOUS
    <3>2. Goto(w, "gateUser") => label = "gateUser"
      BY <2>3, MoveAlone, <2>1
    <3>3. pc[w] = "gateUser" /\ l.user \in user /\ OwnersOf(loc[w].ses) = {l.user}
      BY <2>1, <3>1, <3>2
    <3>4. l.user \in User BY <3>3 DEF TypeInv, TypeOK
    <3>5. <<l.user, loc[w].ses>> \in userSession BY <3>3 DEF OwnersOf
    <3>6. loc[w].ses \in SessionId BY <3>3 DEF TypeInv, LocalsOK
    <3>7. /\ session[loc[w].ses] # None /\ req[w].token \in Token
          /\ issued[req[w].token] \in User
          /\ <<issued[req[w].token], loc[w].ses>> \in userSession
      BY <3>3 DEF TokenInv, GateInv
    <3>8. l.user = issued[session[loc[w].ses].token]
          /\ issued[req[w].token] = issued[session[loc[w].ses].token]
      BY <3>4, <3>5, <3>6, <3>7 DEF TokenInv, OwnerInv
    <3> QED BY <3>4, <3>7, <3>8
  <2>9. GateInv'
    <3>1. ASSUME NEW v \in Workers, v # w
          PROVE  /\ pc'[v] = pc[v] /\ loc'[v] = loc[v] /\ req'[v] = req[v]
      BY <1>1, <3>1 DEF Alone
    <3> QED BY <2>3, <2>4, <2>7, <2>8, <3>1 DEF TokenInv, GateInv
  <2> QED BY <2>5, <2>6, <2>9 DEF TokenInv
<1> QED BY <1>2, <1>3

LEMMA TokenStep == TypeInv /\ TokenInv /\ [Next]_vars => TokenInv'
<1> SUFFICES ASSUME TypeInv, TokenInv, [Next]_vars PROVE TokenInv'
  OBVIOUS
<1>1. ASSUME NEW w \in Workers, Step(w), session' = session, issued' = issued,
             pc'[w] \notin ToStore \cup {"gateUser", "admitted"}
      PROVE  TokenInv'
  <2>1. Alone(w) /\ userSession' = userSession BY <1>1, StepFrame DEF accounts
  <2> QED BY <1>1, <2>1 DEF TokenInv, TokenNamesOneSession, OwnerInv, PendingInv, GateInv,
                            Alone, SessionsWith, ToStore
<1>2. ASSUME NEW w \in Workers, Step(w) PROVE TokenInv'
  BY <1>1, <1>2, StepFrame, DrawStep, RefreshStep, GateStep
<1>3. CASE Tick \/ UNCHANGED vars
  BY <1>3 DEF Tick, vars, tables, TokenInv, TokenNamesOneSession, OwnerInv, PendingInv,
              GateInv, SessionsWith
<1> QED BY <1>2, <1>3, NextSteps

-----------------------------------------------------------------------------
(* The theorems *)

\* What every handler remembers between its statements stays true of the tables,
\* whatever the other processes commit meanwhile: the four theorems below follow.
THEOREM AuthInvariantHolds == Spec => []AuthIInv
<1>1. Init => AuthIInv BY TypeInit, PhoneInit, RowsInit, TokenInit DEF AuthIInv
<1>2. AuthIInv /\ [Next]_vars => AuthIInv' BY TypeStep, PhoneStep, RowsStep, TokenStep DEF AuthIInv
<1> QED BY <1>1, <1>2, PTL DEF Spec

\* A phone number never has more rows than there are processes on the database.
THEOREM RowsAreBounded == Spec => []RowsPerNumberBounded
<1>1. AuthIInv => RowsPerNumberBounded
  <2> SUFFICES ASSUME AuthIInv, NEW n \in Number
               PROVE  Cardinality(TelsWith(n)) <= Cardinality(Workers)
    BY DEF RowsPerNumberBounded
  <2>1. /\ Cardinality(Inserting(n)) \in Nat /\ Cardinality(Workers) \in Nat
    BY InsertingFinite
  <2>2. IsFiniteSet(TelsWith(n)) /\ (TelsWith(n) # {} =>
          Cardinality(TelsWith(n)) + Cardinality(Inserting(n)) <= Cardinality(Workers))
    BY DEF AuthIInv, RowsInv
  <2>3. Cardinality(TelsWith(n)) \in Nat BY <2>2, FS_CardinalityType
  <2>4. TelsWith(n) = {} => Cardinality(TelsWith(n)) = 0 BY FS_EmptySet
  <2> QED BY <2>1, <2>2, <2>3, <2>4
<1> QED BY <1>1, AuthInvariantHolds, PTL

\* A token is never in two session rows.
THEOREM TokensAreUnique == Spec => []TokenNamesOneSession
<1>1. AuthIInv => TokenNamesOneSession BY DEF AuthIInv, TokenInv
<1> QED BY <1>1, AuthInvariantHolds, PTL

\* A request that passes the gate runs as the user its token was drawn for.
THEOREM GateIsSound == Spec => []TokenAuthenticatesItsUser
<1>1. AuthIInv => TokenAuthenticatesItsUser
  BY DEF AuthIInv, TokenInv, GateInv, TokenAuthenticatesItsUser, At
<1> QED BY <1>1, AuthInvariantHolds, PTL

\* A login reaches only the account whose login number had the code.
THEOREM LoginIsByLoginPhone == Spec => []LoginNeedsLoginPhone
<1>1. AuthIInv => LoginNeedsLoginPhone
  <2> SUFFICES ASSUME AuthIInv, NEW w \in Workers, loc[w].sesRow # None, loc[w].user \in user
               PROVE  \E i \in TelsWith(req[w].number) : <<loc[w].user, i, "login">> \in userTel
    BY DEF LoginNeedsLoginPhone
  <2>1. pc[w] \in HasToken BY DEF AuthIInv, TypeInv, LocalsOK
  <2> QED BY <2>1 DEF AuthIInv, PhoneInv, Resolved, Served
<1> QED BY <1>1, AuthInvariantHolds, PTL
=============================================================================
