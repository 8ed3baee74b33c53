------------------------ MODULE AuthRefinementProofs ------------------------
(***************************************************************************)
(* Auth implements TokenLife: every step of the handlers is a step in the  *)
(* life of one token, of two, or of none.  What Auth promises when one     *)
(* process has the database to itself: it implements VerifyCodes, its      *)
(* "success" means a usable code, and a login that takes over a session    *)
(* answers the token that opens it.                                        *)
(***************************************************************************)
EXTENDS AuthProofs

Phases == [t \in Token |-> TokenPhase(t)]

LEMMA PhaseCases ==
  ASSUME NEW t
  PROVE  /\ TokenPhase(t) = "undrawn" <=> Fresh(t)
         /\ TokenPhase(t) = "live" <=> ~Fresh(t) /\ SessionsWith(t) # {}
         /\ TokenPhase(t) = "pending" <=> ~Fresh(t) /\ SessionsWith(t) = {} /\ Pending(t)
         /\ TokenPhase(t) = "dead" <=> ~Fresh(t) /\ SessionsWith(t) = {} /\ ~Pending(t)
BY DEF TokenPhase

LEMMA LifeInit == Init => Life!Init
<1> SUFFICES ASSUME Init PROVE Life!Init
  OBVIOUS
<1>1. TypeOK BY TypeInit DEF TypeInv
<1>2. \A t : ~Pending(t) BY InitTables DEF Pending
<1>3. \A t \in Token : TokenPhase(t) \in {"undrawn", "live", "dead"}
  BY <1>2 DEF TokenPhase
<1>4. \A t \in Token : TokenPhase(t) # "undrawn" <=> issued[t] # None
  BY PhaseCases DEF Fresh
<1> QED BY <1>1, <1>3, <1>4 DEF Life!Init, TypeOK

\* The token a worker is about to store is pending.
LEMMA PendingToken ==
  ASSUME AuthIInv, NEW w \in Workers, pc[w] \in ToStore
  PROVE  /\ loc[w].sesRow.token \in Token
         /\ TokenPhase(loc[w].sesRow.token) = "pending"
         /\ issued[loc[w].sesRow.token] = loc[w].user
         /\ loc[w].user \in User
<1> DEFINE t == loc[w].sesRow.token
<1>1. loc[w].sesRow \in SessionRow /\ loc[w].user \in User
  BY DEF AuthIInv, TypeInv, LocalsOK, Resolved, HasToken
<1>2. t \in Token BY <1>1 DEF SessionRow
<1>3. issued[t] = loc[w].user /\ SessionsWith(t) = {}
  BY DEF AuthIInv, TokenInv, PendingInv
<1>4. Pending(t) BY DEF Pending, ToStore
<1>5. ~Fresh(t) BY <1>1, <1>3, NullAssumption DEF Fresh
<1> QED BY <1>1, <1>2, <1>3, <1>4, <1>5, PhaseCases

\* A step that stores nothing and draws nothing ends a pending token's life, if
\* its worker had one, and is no step in the life of any other token.
LEMMA AbandonStep ==
  ASSUME AuthIInv, NEW w \in Workers, Alone(w), pc'[w] \notin ToStore,
         session' = session, issued' = issued
  PROVE  [Life!Next]_Life!vars
<1>1. \A t : Fresh(t)' = Fresh(t) BY DEF Fresh
<1>2. \A t : SessionsWith(t)' = SessionsWith(t) BY DEF SessionsWith
<1>3. CASE pc[w] \notin ToStore
  <2>1. \A t : Pending(t)' = Pending(t)
    BY <1>3 DEF Pending, Alone, ToStore
  <2>2. \A t \in Token : TokenPhase(t)' = TokenPhase(t)
    BY <1>1, <1>2, <2>1 DEF TokenPhase
  <2>3. Phases' = Phases BY <2>2 DEF Phases
  <2> QED BY <2>3 DEF Life!vars, Phases
<1>4. CASE pc[w] \in ToStore
  <2>1. PICK t0 \in Token : t0 = loc[w].sesRow.token /\ TokenPhase(t0) = "pending"
    BY <1>4, PendingToken
  <2>2. ASSUME NEW t, t # t0 PROVE Pending(t)' = Pending(t)
    BY <1>4, <2>1, <2>2 DEF Pending, Alone, ToStore
  <2>3. ~Pending(t0)'
    <3>1. ASSUME NEW v \in Workers, pc'[v] \in ToStore, loc'[v].sesRow.token = t0
          PROVE  FALSE
      <4>1. v # w /\ pc[v] \in ToStore /\ loc[v].sesRow.token = t0
        BY <3>1 DEF Alone
      <4> QED BY <1>4, <2>1, <4>1 DEF AuthIInv, TokenInv, PendingInv
    <3> QED BY <3>1 DEF Pending, ToStore
  <2>4. TokenPhase(t0)' = "dead"
    BY <1>1, <1>2, <2>1, <2>3, PhaseCases DEF TokenPhase
  <2>5. \A t \in Token : t # t0 => TokenPhase(t)' = TokenPhase(t)
    BY <1>1, <1>2, <2>2 DEF TokenPhase
  <2>6. Phases' = [Phases EXCEPT ![t0] = "dead"] /\ Phases[t0] = "pending"
    BY <2>1, <2>4, <2>5 DEF Phases
  <2>7. Life!Abandon(t0) BY <2>6 DEF Life!Abandon, Phases
  <2> QED BY <2>1, <2>7 DEF Life!Next
<1> QED BY <1>3, <1>4

LEMMA DrawLife ==
  ASSUME AuthIInv, NEW w \in Workers, Step(w), LgSessions(w), ~Reply(w, "serverLogicError")
  PROVE  Life!Next
<1>1. PICK t \in Token, l \in Locals, label \in ToStore :
        /\ Fresh(t) /\ issued' = [issued EXCEPT ![t] = loc[w].user]
        /\ l.sesRow.token = t
        /\ loc' = [loc EXCEPT ![w] = l]
        /\ Goto(w, label) /\ UNCHANGED tables
  BY LgSessionsEffect DEF AuthIInv
<1>2. Alone(w) /\ pc'[w] = label /\ loc'[w] = l BY <1>1, MoveAlone DEF AuthIInv
<1>3. session' = session BY <1>1 DEF tables
<1>4. loc[w].user \in User /\ pc[w] \notin ToStore
  BY DEF LgSessions, At, AuthIInv, TypeInv, LocalsOK, Resolved, ToStore
<1>5. issued'[t] = loc[w].user /\ \A x \in Token : x # t => issued'[x] = issued[x]
  BY <1>1 DEF AuthIInv, TypeInv, TypeOK
<1>6. SessionsWith(t) = {}
  BY <1>1, StoredIsDrawn DEF SessionsWith, AuthIInv, TokenInv
<1>7. \A x : SessionsWith(x)' = SessionsWith(x) BY <1>3 DEF SessionsWith
<1>8. Pending(t)' BY <1>1, <1>2 DEF Pending, ToStore
<1>9. \A x : x # t => Pending(x)' = Pending(x)
  BY <1>1, <1>2, <1>4 DEF Pending, Alone, ToStore
<1>10. ~Fresh(t)' BY <1>4, <1>5, NullAssumption DEF Fresh
<1>11. TokenPhase(t)' = "pending" BY <1>6, <1>7, <1>8, <1>10 DEF TokenPhase
<1>12. \A x \in Token : x # t => TokenPhase(x)' = TokenPhase(x)
  BY <1>5, <1>7, <1>9 DEF TokenPhase, Fresh
<1>13. TokenPhase(t) = "undrawn" BY <1>1, PhaseCases
<1>14. Phases' = [Phases EXCEPT ![t] = "pending"] /\ Phases[t] = "undrawn"
  BY <1>11, <1>12, <1>13 DEF Phases
<1>15. Life!Draw(t, loc[w].user) BY <1>1, <1>14 DEF Life!Draw, Phases
<1> QED BY <1>4, <1>15 DEF Life!Next

LEMMA ReplaceLife ==
  ASSUME AuthIInv, NEW w \in Workers, Step(w), LgRefresh(w)
  PROVE  Life!Next
<1>1. PICK s0, row, new, old :
        /\ s0 = loc[w].ses /\ row = loc[w].sesRow
        /\ new = row.token /\ old = session[s0].token
  OBVIOUS
<1>2. /\ pc[w] = "lgRefresh" /\ pc'[w] = "lgPurge" /\ Alone(w) /\ loc' = loc
      /\ session' = [session EXCEPT ![s0] = row] /\ issued' = issued
  BY <1>1 DEF LgRefresh, At, Goto, Alone, AuthIInv, TypeInv, TypeOK
<1>3. s0 \in SessionId /\ row \in SessionRow
  BY <1>1, <1>2 DEF AuthIInv, TypeInv, LocalsOK, HasToken, ToStore
<1>4. /\ new \in Token /\ TokenPhase(new) = "pending" /\ issued[new] = loc[w].user
      /\ loc[w].user \in User
  BY <1>1, <1>2, PendingToken DEF ToStore
<1>5. session[s0] # None /\ <<loc[w].user, s0>> \in userSession
  BY <1>1, <1>2 DEF AuthIInv, TokenInv, PendingInv
<1>6. old \in Token /\ ~Fresh(old) /\ s0 \in SessionsWith(old)
  BY <1>1, <1>3, <1>5, StoredIsDrawn DEF AuthIInv, TokenInv, SessionsWith
<1>7. issued[old] = issued[new]
  BY <1>1, <1>3, <1>4, <1>5 DEF AuthIInv, TokenInv, OwnerInv
<1>8. TokenPhase(old) = "live" /\ new # old BY <1>4, <1>6, PhaseCases
<1>9. /\ session'[s0] = row /\ row # None
      /\ \A s \in SessionId : s # s0 => session'[s] = session[s]
  BY <1>2, <1>3, RowAssumption DEF AuthIInv, TypeInv, TypeOK
<1>10. s0 \in SessionsWith(new)' BY <1>1, <1>3, <1>9 DEF SessionsWith
<1>11. SessionsWith(old)' = {}
  BY <1>1, <1>3, <1>5, <1>8, <1>9 DEF SessionsWith, AuthIInv, TokenInv, TokenNamesOneSession
<1>12. \A t : t # new /\ t # old => SessionsWith(t)' = SessionsWith(t)
  BY <1>1, <1>5, <1>9 DEF SessionsWith
<1>13. \A t : Fresh(t)' = Fresh(t) BY <1>2 DEF Fresh
<1>14. \A t : t # new => Pending(t)' = Pending(t)
  BY <1>1, <1>2 DEF Pending, Alone, ToStore
<1>15. ~Pending(old)
  <2>1. \A v \in Workers : pc[v] \in ToStore => loc[v].sesRow.token # old
    BY <1>8, PendingToken
  <2> QED BY <2>1 DEF Pending, ToStore
<1>16. TokenPhase(new)' = "live"
  <2>1. ~Fresh(new)' BY <1>4, <1>13, PhaseCases
  <2> QED BY <1>10, <2>1 DEF TokenPhase
<1>17. TokenPhase(old)' = "dead"
  <2>1. ~Fresh(old)' /\ ~Pending(old)' BY <1>6, <1>8, <1>13, <1>14, <1>15
  <2> QED BY <1>11, <2>1 DEF TokenPhase
<1>18. \A t \in Token : t # new /\ t # old => TokenPhase(t)' = TokenPhase(t)
  BY <1>12, <1>13, <1>14 DEF TokenPhase
<1>19. /\ Phases' = [Phases EXCEPT ![old] = "dead", ![new] = "live"]
       /\ Phases[old] = "live" /\ Phases[new] = "pending"
  BY <1>4, <1>6, <1>8, <1>16, <1>17, <1>18 DEF Phases
<1>20. Life!Replace(old, new)
  BY <1>2, <1>7, <1>19 DEF Life!Replace, Phases
<1> QED BY <1>4, <1>6, <1>20 DEF Life!Next

LEMMA LifeStep == AuthIInv /\ [Next]_vars => [Life!Next]_Life!vars
<1> SUFFICES ASSUME AuthIInv, [Next]_vars PROVE [Life!Next]_Life!vars
  OBVIOUS
<1>1. ASSUME NEW w \in Workers, Step(w) PROVE [Life!Next]_Life!vars
  <2>1. TypeInv BY DEF AuthIInv
  <2>2. CASE LgRefresh(w) BY <1>1, <2>2, ReplaceLife
  <2>3. CASE LgSessions(w) /\ ~Reply(w, "serverLogicError") BY <1>1, <2>3, DrawLife
  <2>4. CASE LgSessions(w) /\ Reply(w, "serverLogicError")
    BY <2>1, <2>4, ReplyEffect, AbandonStep DEF ToStore
  <2>5. CASE ~LgRefresh(w) /\ ~LgSessions(w)
    BY <1>1, <2>1, <2>5, StepFrame, AbandonStep
  <2> QED BY <2>2, <2>3, <2>4, <2>5
<1>2. CASE Tick \/ UNCHANGED vars
  <2>1. UNCHANGED <<session, issued, pc, loc>> BY <1>2 DEF Tick, vars, tables
  <2>2. \A t \in Token : TokenPhase(t)' = TokenPhase(t)
    BY <2>1 DEF TokenPhase, Fresh, SessionsWith, Pending
  <2>3. Phases' = Phases BY <2>2 DEF Phases
  <2> QED BY <2>1, <2>3 DEF Life!vars, Phases
<1> QED BY <1>1, <1>2, NextSteps

\* Whatever logins, failures and crashes interleave, a token follows the life
\* cycle of TokenLife.
THEOREM ImplementsTokenLife == Spec => TokensFollowTheirLife
<1>1. Init => Life!Init BY LifeInit
<1>2. AuthIInv /\ [Next]_vars => [Life!Next]_Life!vars BY LifeStep
<1> QED BY <1>1, <1>2, AuthInvariantHolds, PTL DEF Spec, TokensFollowTheirLife, Life!Spec

\* A token that a login replaced, or whose login failed, never works again.
THEOREM ReplacedTokensStayDead == Spec => Life!DeadStaysDead
<1>1. [Life!Next]_Life!vars => [Life!StayDead]_Life!vars
  <2>1. \A t \in Token, u \in User : Life!Draw(t, u) => Life!StayDead
    BY DEF Life!Draw, Life!StayDead
  <2>2. \A old, new \in Token : Life!Replace(old, new) => Life!StayDead
    BY DEF Life!Replace, Life!StayDead
  <2>3. \A t \in Token : Life!Abandon(t) => Life!StayDead
    BY DEF Life!Abandon, Life!StayDead
  <2> QED BY <2>1, <2>2, <2>3 DEF Life!Next
<1> QED BY <1>1, LifeStep, AuthInvariantHolds, PTL DEF Spec, Life!DeadStaysDead
-----------------------------------------------------------------------------
(* One process with the database to itself *)

LEMMA SameWorker ==
  ASSUME OneProcess, NEW v \in Workers, NEW w \in Workers
  PROVE  v = w
BY DEF OneProcess

\* With one process a number has one row, and none while it is being inserted.
LEMMA OneRow ==
  ASSUME AuthIInv, OneProcess, NEW n \in Number
  PROVE  /\ \A i \in TelsWith(n) : TelsWith(n) = {i}
         /\ Inserting(n) # {} => TelsWith(n) = {}
<1> DEFINE T == TelsWith(n)  I == Inserting(n)
<1>1. Cardinality(Workers) = 1 BY FS_Singleton DEF OneProcess
<1>2. IsFiniteSet(T) /\ (T # {} => Cardinality(T) + Cardinality(I) <= Cardinality(Workers))
  BY DEF AuthIInv, RowsInv
<1>3. IsFiniteSet(I) /\ Cardinality(I) \in Nat BY InsertingFinite
<1>4. Cardinality(T) \in Nat /\ (Cardinality(T) = 0 <=> T = {})
  BY <1>2, FS_CardinalityType, FS_EmptySet
<1>5. Cardinality(I) = 0 <=> I = {} BY <1>3, FS_EmptySet
<1>6. Cardinality(T) = 1 => \E i : T = {i} BY <1>2, FS_Singleton
<1> HIDE DEF T, I
<1>7. T # {} => Cardinality(T) = 1 /\ I = {} BY <1>1, <1>2, <1>3, <1>4, <1>5
<1>8. \A i \in T : T = {i} BY <1>6, <1>7
<1>9. I # {} => T = {} BY <1>7
<1> QED BY <1>8, <1>9 DEF T, I

-----------------------------------------------------------------------------
(* The invariant *)

LEMMA OneInit == Init => CodeInv /\ TakenInv
<1> SUFFICES ASSUME Init PROVE CodeInv /\ TakenInv
  OBVIOUS
<1>1. \A w \in Workers : pc[w] = "idle" /\ req[w].uri = "none"
  BY DEF Init, NoRequest
<1> QED BY <1>1 DEF CodeInv, TakenInv, Served, Resolved, HasToken, ToStore

LEMMA StopOne ==
  ASSUME TypeInv, OneProcess, NEW w \in Workers, Stop(w)
  PROVE  CodeInv' /\ TakenInv'
<1>1. pc'[w] = "idle" /\ req'[w].uri = "none"
  BY DEF Stop, TypeInv, TypeOK, NoRequest
<1>2. \A v \in Workers : v = w BY SameWorker
<1> QED BY <1>1, <1>2 DEF CodeInv, TakenInv, Served, Resolved, HasToken, ToStore

\* A step to a label at which neither part of the invariant asks for anything
\* but the request's own handler.
LEMMA MoveOne ==
  ASSUME OneProcess, NEW w \in Workers,
         pc'[w] \in {"gateSession", "gateUser", "vcQuery", "lgTel", "admitted"},
         req'[w].uri = "requestVC" => pc'[w] \in {"gateSession", "gateUser", "vcQuery"}
  PROVE  CodeInv' /\ TakenInv'
<1>1. \A v \in Workers : v = w BY SameWorker
<1> QED BY <1>1 DEF CodeInv, TakenInv, Served, Resolved, HasToken, ToStore

LEMMA GateOne ==
  ASSUME TypeInv, OneProcess, NEW w \in Workers, Accept(w) \/ GateSession(w) \/ GateUser(w)
  PROVE  CodeInv' /\ TakenInv'
<1>0. ASSUME NEW uri, uri = "requestVC" PROVE Handler(uri) = "vcQuery"
  BY <1>0 DEF Handler
<1>1. CASE Accept(w)
  <2>1. PICK r \in Request :
          /\ req' = [req EXCEPT ![w] = r]
          /\ pc' = [pc EXCEPT ![w] = IF r.token = NoToken THEN Handler(r.uri)
                                                          ELSE "gateSession"]
    BY <1>1 DEF Accept
  <2>2. req'[w] = r /\ pc'[w] \in {Handler(r.uri), "gateSession"}
    BY <2>1 DEF TypeInv, TypeOK
  <2> QED BY <1>0, <2>2, HandlerLabels, MoveOne
<1>2. CASE GateSession(w) \/ GateUser(w)
  <2>1. CASE Reply(w, "forbidden") BY <2>1, StopOne DEF Reply, Finish
  <2>2. CASE ~Reply(w, "forbidden")
    <3>1. PICK l \in Locals, label \in {"gateUser", Handler(req[w].uri)} :
            loc' = [loc EXCEPT ![w] = l] /\ Goto(w, label)
      BY <1>2, <2>2, GateEffect
    <3>2. pc'[w] = label /\ req' = req BY <3>1, MoveAlone
    <3> QED BY <1>0, <3>1, <3>2, HandlerLabels, MoveOne
  <2> QED BY <2>1, <2>2
<1> QED BY <1>1, <1>2

LEMMA VcOne ==
  ASSUME TypeInv, OneProcess, NEW w \in Workers, VcQuery(w), now' = now
  PROVE  CodeInv' /\ TakenInv'
<1>1. CASE \E status \in Status : Reply(w, status) BY <1>1, StopOne DEF Reply, Finish
<1>2. CASE ~\E status \in Status : Reply(w, status)
  <2>1. PICK l \in Locals, label \in {"vcInsert", "vcUpdate"} :
          /\ l.telRow.number = req[w].number
          /\ l.telRow.code \in Code /\ l.telRow.at = now
          /\ label = "vcUpdate" => /\ l.tel \in TelsWith(req[w].number)
                                   /\ VcIsExpired(telephone[l.tel])
          /\ loc' = [loc EXCEPT ![w] = l]
          /\ Goto(w, label) /\ UNCHANGED <<tables, issued>>
    BY <1>2, VcQueryEffect
  <2>2. pc'[w] = label /\ loc'[w] = l /\ req' = req BY <2>1, MoveAlone
  <2>3. telephone' = telephone BY <2>1 DEF tables
  <2>4. now \in Nat BY DEF TypeInv, TypeOK
  <2>5. \A v \in Workers : v = w BY SameWorker
  <2>6. CodeInv'
    BY <2>1, <2>2, <2>3, <2>4, <2>5 DEF CodeInv, VcIsExpired
  <2>7. TakenInv'
    BY <2>1, <2>2, <2>5 DEF TakenInv, Served, Resolved, HasToken, ToStore
  <2> QED BY <2>6, <2>7
<1> QED BY <1>1, <1>2

\* The statements of login before it stores a token: what was true stays true.
LEMMA LookupOne ==
  ASSUME TypeInv, CodeInv, TakenInv, OneProcess, NEW w \in Workers,
         LgTel(w) \/ LgUserTel(w) \/ LgUser(w) \/ LgNewUser(w) \/ LgSessions(w)
  PROVE  CodeInv' /\ TakenInv'
<1> DEFINE Before == {"lgUserTel", "lgUser", "lgNewUser", "lgSessions", "lgNewSession"}
<1>1. \A v \in Workers : v = w BY SameWorker
<1>2. req[w].uri # "requestVC"
  BY DEF CodeInv, LgTel, LgUserTel, LgUser, LgNewUser, LgSessions, At
<1>3. ASSUME NEW l \in Locals, NEW label \in Before \cup {"lgRefresh"},
             label \in Before => l.ses = None,
             loc' = [loc EXCEPT ![w] = l], Goto(w, label)
      PROVE  CodeInv' /\ TakenInv'
  <2>1. pc'[w] = label /\ loc'[w] = l /\ req' = req BY <1>3, MoveAlone
  <2> QED BY <1>1, <1>2, <1>3, <2>1 DEF CodeInv, TakenInv, Served, Resolved, HasToken, ToStore
<1>4. ASSUME NEW status, Reply(w, status) PROVE CodeInv' /\ TakenInv'
  BY <1>4, StopOne DEF Reply, Finish
<1>5. pc[w] \in Before => loc[w].ses = None
  BY DEF TakenInv, Served, Resolved, HasToken, ToStore
<1>6. CASE LgTel(w) BY <1>3, <1>4, <1>6, LgTelEffect
<1>7. CASE LgUserTel(w) \/ LgUser(w) \/ LgNewUser(w)
  BY <1>3, <1>4, <1>5, <1>7, LgUserEffect
<1>8. CASE LgSessions(w)
  <2>1. pc[w] = "lgSessions" BY <1>8 DEF LgSessions, At
  <2> QED BY <1>3, <1>4, <1>5, <1>8, <2>1, LgSessionsEffect DEF ToStore
<1> QED BY <1>6, <1>7, <1>8

LEMMA StoreOne ==
  ASSUME AuthIInv, CodeInv, TakenInv, OneProcess, NEW w \in Workers, LgRefresh(w) \/ LgNewSession(w)
  PROVE  CodeInv' /\ TakenInv'
<1>1. \A v \in Workers : v = w BY SameWorker
<1>2. /\ pc'[w] = "lgPurge" /\ loc' = loc /\ req' = req /\ req[w].uri # "requestVC"
  BY DEF LgRefresh, LgNewSession, At, Goto, CodeInv, AuthIInv, TypeInv, TypeOK
<1>3. CodeInv' BY <1>1, <1>2 DEF CodeInv
<1>4. loc[w].ses # None => SessionsWith(loc[w].sesRow.token)' = {loc[w].ses}
  <2>1. SUFFICES ASSUME loc[w].ses # None
                 PROVE  SessionsWith(loc[w].sesRow.token)' = {loc[w].ses}
    OBVIOUS
  <2>2. pc[w] = "lgRefresh" /\ session' = [session EXCEPT ![loc[w].ses] = loc[w].sesRow]
    BY <2>1 DEF LgRefresh, LgNewSession, At, TakenInv, Served, Resolved, HasToken, ToStore
  <2>3. /\ SessionsWith(loc[w].sesRow.token) = {} /\ loc[w].ses \in SessionId
        /\ loc[w].sesRow # None
    BY <2>2, RowAssumption DEF AuthIInv, TypeInv, LocalsOK, TokenInv, PendingInv, HasToken, ToStore
  <2>4. session \in [SessionId -> SessionRow \cup {None}] BY DEF AuthIInv, TypeInv, TypeOK
  <2> QED BY <1>2, <2>2, <2>3, <2>4 DEF SessionsWith
<1>5. TakenInv' BY <1>1, <1>2, <1>4 DEF TakenInv, Served, Resolved, HasToken, ToStore
<1> QED BY <1>3, <1>5

LEMMA OneStep ==
  ASSUME OneProcess
  PROVE  AuthIInv /\ CodeInv /\ TakenInv /\ [Next]_vars => CodeInv' /\ TakenInv'
<1> SUFFICES ASSUME AuthIInv, CodeInv, TakenInv, [Next]_vars PROVE CodeInv' /\ TakenInv'
  OBVIOUS
<1>0. TypeInv BY DEF AuthIInv
<1>1. ASSUME NEW w \in Workers, Step(w) PROVE CodeInv' /\ TakenInv'
  <2>1. CASE Stop(w) BY <1>0, <2>1, StopOne
  <2>2. CASE Accept(w) \/ GateSession(w) \/ GateUser(w) BY <1>0, <2>2, GateOne
  <2>3. CASE VcQuery(w) BY <1>0, <1>1, <2>3, VcOne DEF Step
  <2>4. CASE LgTel(w) \/ LgUserTel(w) \/ LgUser(w) \/ LgNewUser(w) \/ LgSessions(w)
    BY <1>0, <2>4, LookupOne
  <2>5. CASE LgRefresh(w) \/ LgNewSession(w) BY <2>5, StoreOne
  <2>6. CASE \/ Serve(w) \/ VcInsert(w) \/ VcUpdate(w) \/ LgPurge(w)
             \/ RejectHeaders(w) \/ Throws(w) \/ Crash(w)
    <3>1. Stop(w)
      BY <2>6 DEF Serve, VcInsert, VcUpdate, Written, LgPurge, RejectHeaders, Throws, Crash,
                  Reply, Finish
    <3> QED BY <2>1, <3>1
  <2> QED BY <1>1, <2>2, <2>3, <2>4, <2>5, <2>6 DEF Step, Work
<1>2. CASE Tick
  <2>1. now \in Nat BY <1>0 DEF TypeInv, TypeOK
  <2>2. now' = now + 1 /\ UNCHANGED <<pc, req, loc, telephone, session>>
    BY <1>2 DEF Tick, tables
  <2>3. CodeInv' BY <2>1, <2>2 DEF CodeInv
  <2>4. TakenInv' BY <2>2 DEF TakenInv, SessionsWith
  <2> QED BY <2>3, <2>4
<1>3. CASE UNCHANGED vars
  BY <1>3 DEF vars, tables, CodeInv, TakenInv, SessionsWith
<1> QED BY <1>1, <1>2, <1>3, NextSteps

\* With one process, what a handler has read still holds when it writes: the code
\* it replaces had expired, and the session it took over is the one its token opens.
THEOREM OneInvariantHolds == ASSUME OneProcess PROVE Spec => []OneInv
<1>1. Init => CodeInv /\ TakenInv BY OneInit
<1>2. AuthIInv /\ CodeInv /\ TakenInv /\ [Next]_vars => CodeInv' /\ TakenInv' BY OneStep
<1>3. OneInv <=> AuthIInv /\ CodeInv /\ TakenInv BY DEF OneInv
<1> QED BY <1>1, <1>2, <1>3, AuthInvariantHolds, PTL DEF Spec

-----------------------------------------------------------------------------
(* Auth implements VerifyCodes *)

Current == [n \in Number |-> CurrentCode(n)]

LEMMA CurrentRow ==
  ASSUME NEW n, NEW i
  PROVE  /\ TelsWith(n) = {} => CurrentCode(n) = None
         /\ TelsWith(n) = {i} =>
              CurrentCode(n) = [code |-> telephone[i].code, at |-> telephone[i].at]
         /\ TelsWith(n)' = {} => CurrentCode(n)' = None
         /\ TelsWith(n)' = {i} =>
              CurrentCode(n)' = [code |-> telephone'[i].code, at |-> telephone'[i].at]
BY DEF CurrentCode

LEMMA CodesInit == ASSUME OneProcess PROVE Init => Codes!Init
<1> SUFFICES ASSUME Init PROVE Codes!Init
  OBVIOUS
<1>1. AuthIInv BY TypeInit, PhoneInit, RowsInit, TokenInit DEF AuthIInv
<1>2. ASSUME NEW n \in Number
      PROVE  CurrentCode(n) \in [code: Code \cup {NoCode}, at: Nat \cup {NoTime}] \cup {None}
  <2>1. CASE TelsWith(n) = {} BY <2>1, CurrentRow
  <2>2. CASE TelsWith(n) # {}
    <3>1. PICK i \in TelsWith(n) : TelsWith(n) = {i} BY <1>1, <2>2, OneRow
    <3>2. telephone[i] \in TelRow BY <1>1, <3>1 DEF AuthIInv, TypeInv, TypeOK, TelsWith
    <3> QED BY <3>1, <3>2, CurrentRow DEF TelRow
  <2> QED BY <2>1, <2>2
<1>3. now = 0 BY DEF Init
<1> QED BY <1>2, <1>3 DEF Codes!Init

\* If the rows of a number are the same rows with the same contents, so is its code.
LEMMA SameCode ==
  ASSUME NEW n, TelsWith(n)' = TelsWith(n),
         \A i \in TelsWith(n) : telephone'[i] = telephone[i] /\ TelsWith(n) = {i}
  PROVE  CurrentCode(n)' = CurrentCode(n)
<1>1. CASE TelsWith(n) = {} BY <1>1, CurrentRow
<1>2. CASE TelsWith(n) # {}
  <2>1. PICK i \in TelsWith(n) : TelsWith(n) = {i} /\ telephone'[i] = telephone[i]
    BY <1>2
  <2> QED BY <2>1, CurrentRow
<1> QED BY <1>1, <1>2

\* The code a handler is about to write was made at a time that has passed.
LEMMA MadeCode ==
  ASSUME OneInv, NEW w \in Workers, pc[w] \in {"vcInsert", "vcUpdate"}
  PROVE  /\ loc[w].telRow \in TelRow /\ loc[w].telRow.at \in 0..now
         /\ [code |-> loc[w].telRow.code, at |-> loc[w].telRow.at]
              \in Codes!Made(loc[w].telRow.at)
BY DEF OneInv, AuthIInv, TypeInv, LocalsOK, CodeInv, Codes!Made

LEMMA InsertEnrols ==
  ASSUME OneInv, OneProcess, NEW w \in Workers, VcInsert(w), now' = now
  PROVE  \E n \in Number : Codes!Enrol(n)
<1>1. pc[w] = "vcInsert" BY DEF VcInsert, At
<1>2. PICK row \in TelRow :
        /\ row = loc[w].telRow /\ row.at \in 0..now
        /\ [code |-> row.code, at |-> row.at] \in Codes!Made(row.at)
  BY <1>1, MadeCode
<1>3. PICK n \in Number : n = row.number BY <1>2 DEF TelRow
<1>4. TelsWith(n) = {}
  <2>1. w \in Inserting(n) BY <1>1, <1>2, <1>3 DEF Inserting
  <2> QED BY <1>3, <2>1, OneRow DEF OneInv
<1>5. PICK i \in TelId : telephone[i] = None /\ telephone' = [telephone EXCEPT ![i] = row]
  BY <1>2 DEF VcInsert
<1>6. telephone \in [TelId -> TelRow \cup {None}] BY DEF OneInv, AuthIInv, TypeInv, TypeOK
<1>7. TelsWith(n)' = {i} /\ telephone'[i] = row
  BY <1>2, <1>3, <1>4, <1>5, <1>6, RowAssumption DEF TelsWith
<1>8. \A m \in Number : m # n => CurrentCode(m)' = CurrentCode(m)
  <2> SUFFICES ASSUME NEW m \in Number, m # n PROVE CurrentCode(m)' = CurrentCode(m)
    OBVIOUS
  <2>1. TelsWith(m)' = TelsWith(m) BY <1>2, <1>3, <1>5, <1>6 DEF TelsWith
  <2>2. \A j \in TelsWith(m) : telephone'[j] = telephone[j]
    BY <1>5, <1>6 DEF TelsWith
  <2>3. \A j \in TelsWith(m) : TelsWith(m) = {j} BY OneRow DEF OneInv
  <2> QED BY <2>1, <2>2, <2>3, SameCode
<1>9. Current[n] = None /\ CurrentCode(n)' = [code |-> row.code, at |-> row.at]
  BY <1>3, <1>4, <1>7, CurrentRow DEF Current
<1>10. Current' = [Current EXCEPT ![n] = [code |-> row.code, at |-> row.at]]
  BY <1>3, <1>8, <1>9 DEF Current
<1>11. Codes!Enrol(n) BY <1>2, <1>9, <1>10 DEF Codes!Enrol, Current
<1> QED BY <1>3, <1>11

LEMMA UpdateRenews ==
  ASSUME OneInv, OneProcess, NEW w \in Workers, VcUpdate(w), now' = now
  PROVE  \E n \in Number : Codes!Renew(n)
<1>1. pc[w] = "vcUpdate" BY DEF VcUpdate, At
<1>2. PICK row \in TelRow :
        /\ row = loc[w].telRow /\ row.at \in 0..now
        /\ [code |-> row.code, at |-> row.at] \in Codes!Made(row.at)
  BY <1>1, MadeCode
<1>3. PICK n \in Number : n = row.number BY <1>2 DEF TelRow
<1>4. PICK i \in TelId : i = loc[w].tel /\ telephone[i] # None /\ telephone[i].number = n
  BY <1>1, <1>2, <1>3 DEF OneInv, AuthIInv, TypeInv, LocalsOK, PhoneInv
<1>5. telephone[i].at # NoTime => row.at - telephone[i].at > VcLife
  BY <1>1, <1>2, <1>4 DEF OneInv, CodeInv
<1>6. telephone' = [telephone EXCEPT ![i] = row] BY <1>2, <1>4 DEF VcUpdate
<1>7. telephone \in [TelId -> TelRow \cup {None}] BY DEF OneInv, AuthIInv, TypeInv, TypeOK
<1>8. TelsWith(n) = {i}
  <2>1. i \in TelsWith(n) BY <1>4 DEF TelsWith
  <2> QED BY <1>3, <2>1, OneRow DEF OneInv
<1>9. TelsWith(n)' = {i} /\ telephone'[i] = row
  BY <1>2, <1>3, <1>4, <1>6, <1>7, <1>8, RowAssumption DEF TelsWith
<1>10. \A m \in Number : m # n => CurrentCode(m)' = CurrentCode(m)
  <2> SUFFICES ASSUME NEW m \in Number, m # n PROVE CurrentCode(m)' = CurrentCode(m)
    OBVIOUS
  <2>1. TelsWith(m)' = TelsWith(m) BY <1>2, <1>3, <1>4, <1>6, <1>7 DEF TelsWith
  <2>2. \A j \in TelsWith(m) : telephone'[j] = telephone[j]
    BY <1>4, <1>6, <1>7 DEF TelsWith
  <2>3. \A j \in TelsWith(m) : TelsWith(m) = {j} BY OneRow DEF OneInv
  <2> QED BY <2>1, <2>2, <2>3, SameCode
<1>11. Current[n] = [code |-> telephone[i].code, at |-> telephone[i].at]
  BY <1>3, <1>8, CurrentRow DEF Current
<1>12. Current[n] # None
  <2>1. telephone[i] \in TelRow BY <1>4, <1>7
  <2> QED BY <1>11, <2>1, RowAssumption DEF TelRow
<1>13. Codes!Expired(Current[n], row.at) BY <1>5, <1>11 DEF Codes!Expired
<1>14. CurrentCode(n)' = [code |-> row.code, at |-> row.at]
  BY <1>9, CurrentRow
<1>15. Current' = [Current EXCEPT ![n] = [code |-> row.code, at |-> row.at]]
  BY <1>3, <1>10, <1>14 DEF Current
<1>16. Codes!Renew(n) BY <1>2, <1>12, <1>13, <1>15 DEF Codes!Renew, Current
<1> QED BY <1>3, <1>16

LEMMA CodesStep ==
  ASSUME OneProcess
  PROVE  OneInv /\ [Next]_vars => [Codes!Next]_Codes!vars
<1> SUFFICES ASSUME OneInv, [Next]_vars PROVE [Codes!Next]_Codes!vars
  OBVIOUS
<1>1. ASSUME telephone' = telephone PROVE Current' = Current
  BY <1>1 DEF Current, CurrentCode, TelsWith
<1>2. ASSUME NEW w \in Workers, Step(w) PROVE [Codes!Next]_Codes!vars
  <2>1. TypeInv /\ now' = now BY <1>2 DEF Step, OneInv, AuthIInv
  <2>2. CASE VcInsert(w) BY <2>1, <2>2, InsertEnrols DEF Codes!Next
  <2>3. CASE VcUpdate(w) BY <2>1, <2>3, UpdateRenews DEF Codes!Next
  <2>4. CASE telephone' = telephone BY <1>1, <2>1, <2>4 DEF Codes!vars, Current
  <2> QED BY <1>2, <2>1, <2>2, <2>3, <2>4, StepFrame
<1>3. CASE Tick
  <2>1. telephone' = telephone /\ now' = now + 1 BY <1>3 DEF Tick, tables
  <2>2. Codes!Advance BY <1>1, <2>1 DEF Codes!Advance, Current
  <2> QED BY <2>2 DEF Codes!Next
<1>4. CASE UNCHANGED vars
  BY <1>1, <1>4 DEF vars, tables, Codes!vars, Current
<1> QED BY <1>2, <1>3, <1>4, NextSteps

\* One process never replaces a code that had not expired when its replacement
\* was made, and never takes a number's code away, whatever fails in between.
THEOREM ImplementsVerifyCodes == ASSUME OneProcess PROVE Spec => CodesAreRenewedWhenExpired
<1>1. Init => Codes!Init BY CodesInit
<1>2. OneInv /\ [Next]_vars => [Codes!Next]_Codes!vars BY CodesStep
<1> QED BY <1>1, <1>2, OneInvariantHolds, PTL DEF Spec, CodesAreRenewedWhenExpired, Codes!Spec

-----------------------------------------------------------------------------
(* The answers *)

\* Which statements answer "success", and which answer a token.
LEMMA Answers ==
  ASSUME NEW w \in Workers, Step(w)
  PROVE  /\ resp'.status = "success" =>
              VcQuery(w) \/ VcInsert(w) \/ VcUpdate(w) \/ Serve(w) \/ LgPurge(w)
         /\ resp'.token # NoToken => LgPurge(w)
<1>1. ASSUME NEW status, Reply(w, status)
      PROVE  resp'.status = status /\ resp'.token = NoToken
  BY <1>1 DEF Reply, Finish, Answer, Silent
<1>2. ASSUME NEW label, Goto(w, label)
      PROVE  resp'.status = "unset" /\ resp'.token = NoToken
  BY <1>2 DEF Goto, Silent
<1>3. CASE RejectHeaders(w) \/ Throws(w) \/ Crash(w) \/ Accept(w)
  BY <1>1, <1>3 DEF RejectHeaders, Throws, Crash, Accept, Silent
<1>4. CASE GateSession(w) \/ GateUser(w) BY <1>1, <1>2, <1>4 DEF GateSession, GateUser
<1>5. CASE VcQuery(w) BY <1>1, <1>2, <1>5 DEF VcQuery
<1>6. CASE VcInsert(w) \/ VcUpdate(w) \/ Serve(w)
  BY <1>6 DEF VcInsert, VcUpdate, Serve, Written, Finish, Answer, Silent
<1>7. CASE LgTel(w) \/ LgUserTel(w) \/ LgUser(w) \/ LgNewUser(w)
  BY <1>1, <1>2, <1>7 DEF LgTel, LgUserTel, LgUser, LgNewUser
<1>8. CASE LgSessions(w) \/ LgRefresh(w) \/ LgNewSession(w)
  <2>1. CASE LgSessions(w)
    <3>1. Reply(w, "serverLogicError") \/ \E label : Goto(w, label)
      BY <2>1 DEF LgSessions
    <3> QED BY <1>1, <1>2, <3>1
  <2>2. CASE LgRefresh(w) \/ LgNewSession(w) BY <1>2, <2>2 DEF LgRefresh, LgNewSession
  <2> QED BY <1>8, <2>1, <2>2
<1> QED BY <1>3, <1>4, <1>5, <1>6, <1>7, <1>8 DEF Step, Work

LEMMA UsableStep ==
  ASSUME OneProcess, OneInv, [Next]_vars, ~UNCHANGED vars,
         NEW w \in Workers, NEW n \in Number,
         req[w].uri = "requestVC", req[w].number = n,
         resp'.to = w, resp'.status = "success"
  PROVE  \E i \in TelId :
           /\ TelsWith(n)' = {i}
           /\ ~VcIsExpired(telephone[i])' \/ telephone'[i] = loc[w].telRow
<1>0. telephone \in [TelId -> TelRow \cup {None}] BY DEF OneInv, AuthIInv, TypeInv, TypeOK
<1>1. Step(w)
  <2>1. ~Tick BY NullAssumption DEF Tick, Silent
  <2> QED BY <2>1, NextSteps, SameWorker
<1>2. pc[w] \in {"gateSession", "gateUser", "vcQuery", "vcInsert", "vcUpdate"}
  BY DEF OneInv, CodeInv
<1>3. VcQuery(w) \/ VcInsert(w) \/ VcUpdate(w)
  BY <1>1, <1>2, Answers DEF Serve, LgPurge, At
<1>4. CASE VcQuery(w)
  <2>1. ASSUME NEW status, Reply(w, status) PROVE status = "success"
    BY <2>1 DEF Reply, Finish, Answer, Silent
  <2>2. ~\E label : Goto(w, label) BY DEF Goto, Silent
  <2>3. PICK i \in TelId :
          TelsWith(n) = {i} /\ ~VcIsExpired(telephone[i]) /\ Reply(w, "success")
    BY <1>4, <2>1, <2>2 DEF VcQuery
  <2>4. telephone' = telephone /\ now' = now
    BY <1>1, <2>3 DEF Step, Reply, tables
  <2> QED BY <2>3, <2>4 DEF TelsWith, VcIsExpired
<1>5. CASE VcInsert(w)
  <2>1. pc[w] = "vcInsert" BY <1>5 DEF VcInsert, At
  <2>2. PICK row \in TelRow : row = loc[w].telRow /\ row.number = n
    BY <2>1 DEF OneInv, AuthIInv, TypeInv, LocalsOK, CodeInv
  <2>3. TelsWith(n) = {}
    <3>1. w \in Inserting(n) BY <2>1, <2>2 DEF Inserting
    <3> QED BY <3>1, OneRow DEF OneInv
  <2>4. PICK i \in TelId : telephone[i] = None /\ telephone' = [telephone EXCEPT ![i] = row]
    BY <1>5, <2>2 DEF VcInsert
  <2>5. TelsWith(n)' = {i} /\ telephone'[i] = row
    BY <1>0, <2>2, <2>3, <2>4, RowAssumption DEF TelsWith
  <2> QED BY <2>2, <2>5
<1>6. CASE VcUpdate(w)
  <2>1. pc[w] = "vcUpdate" BY <1>6 DEF VcUpdate, At
  <2>2. PICK row \in TelRow : row = loc[w].telRow /\ row.number = n
    BY <2>1 DEF OneInv, AuthIInv, TypeInv, LocalsOK, CodeInv
  <2>3. PICK i \in TelId : i = loc[w].tel /\ telephone[i] # None /\ telephone[i].number = n
    BY <2>1, <2>2 DEF OneInv, AuthIInv, TypeInv, LocalsOK, PhoneInv
  <2>4. TelsWith(n) = {i}
    <3>1. i \in TelsWith(n) BY <2>3 DEF TelsWith
    <3> QED BY <3>1, OneRow DEF OneInv
  <2>5. telephone' = [telephone EXCEPT ![i] = row] BY <1>6, <2>2, <2>3 DEF VcUpdate
  <2>6. TelsWith(n)' = {i} /\ telephone'[i] = row
    BY <1>0, <2>2, <2>3, <2>4, <2>5, RowAssumption DEF TelsWith
  <2> QED BY <2>2, <2>6
<1> QED BY <1>3, <1>4, <1>5, <1>6

\* With one process, "success" from /request_verify_code leaves the number with
\* one row, whose code is valid or was made by this very request.
THEOREM SuccessMeansUsable == ASSUME OneProcess PROVE Spec => VcSuccessMeansUsableCode
<1> DEFINE Usable ==
      \A w \in Workers, n \in Number :
        /\ req[w].uri = "requestVC" /\ req[w].number = n
        /\ resp'.to = w /\ resp'.status = "success"
        =>
          \E i \in TelId :
            /\ TelsWith(n)' = {i}
            /\ ~VcIsExpired(telephone[i])' \/ telephone'[i] = loc[w].telRow
<1>1. OneInv /\ [Next]_vars => [Usable]_vars BY UsableStep
<1> QED BY <1>1, OneInvariantHolds, PTL DEF Spec, VcSuccessMeansUsableCode

\* With one process, the token a login answers after it took over a session opens
\* that session and no other.
THEOREM RefreshedTokenWorks == ASSUME OneProcess PROVE Spec => RefreshedTokenOpensTheSession
<1> DEFINE Opens ==
      \A w \in Workers, t \in Token :
        resp'.to = w /\ resp'.token = t /\ loc[w].ses # None =>
          SessionsWith(t)' = {loc[w].ses}
<1>1. ASSUME OneInv, [Next]_vars, ~UNCHANGED vars, NEW w \in Workers, NEW t \in Token,
             resp'.to = w, resp'.token = t, loc[w].ses # None
      PROVE  SessionsWith(t)' = {loc[w].ses}
  <2>1. Step(w)
    <3>1. ~Tick BY <1>1, NullAssumption DEF Tick, Silent
    <3> QED BY <1>1, <3>1, NextSteps, SameWorker
  <2>2. LgPurge(w) BY <1>1, <2>1, Answers, NullAssumption
  <2>3. pc[w] = "lgPurge" /\ session' = session /\ t = loc[w].sesRow.token
    BY <1>1, <2>2 DEF LgPurge, At, VectorTransaction, Finish, Answer, Silent
  <2>4. SessionsWith(t) = {loc[w].ses} BY <1>1, <2>3 DEF OneInv, TakenInv
  <2> QED BY <2>3, <2>4 DEF SessionsWith
<1>2. OneInv /\ [Next]_vars => [Opens]_vars BY <1>1
<1> QED BY <1>2, OneInvariantHolds, PTL DEF Spec, RefreshedTokenOpensTheSession
=============================================================================
