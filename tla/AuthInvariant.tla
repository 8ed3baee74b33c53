--------------------------- MODULE AuthInvariant ---------------------------
(***************************************************************************)
(* The inductive invariant of Auth.  None of the safety properties is      *)
(* inductive: each speaks of the tables or of one label, and depends on    *)
(* what a handler remembers between two of its statements.  The parts      *)
(* below say what a worker knows at each label, and that what it read      *)
(* earlier still holds of the tables where the code relies on it.          *)
(***************************************************************************)
EXTENDS Auth

ToStore  == {"lgRefresh", "lgNewSession"}    \* a login has drawn a token to store
HasToken == ToStore \cup {"lgPurge"}
Resolved == HasToken \cup {"lgUser", "lgSessions"}   \* its user is known
Served   == Resolved \cup {"lgUserTel", "lgNewUser"} \* its code was right

\* What the locals of a worker hold at each label.
LocalsOK ==
  \A w \in Workers :
    /\ pc[w] = "gateUser" => loc[w].ses \in SessionId
    /\ pc[w] \in {"vcInsert", "vcUpdate"} => loc[w].telRow \in TelRow
    /\ pc[w] = "vcUpdate" => loc[w].tel \in TelId
    /\ pc[w] \in Served =>
         /\ loc[w].tel \in TelId
         /\ req[w].number \in Number
    /\ pc[w] \in Resolved => loc[w].user \in User
    /\ pc[w] \in HasToken => loc[w].sesRow \in SessionRow
    /\ pc[w] \notin HasToken => loc[w].sesRow = None
    /\ pc[w] = "lgRefresh" => loc[w].ses \in SessionId

TypeInv == TypeOK /\ LocalsOK

\* A row that was read by number still has that number when it is written back.
PhoneInv ==
  \A w \in Workers :
    /\ pc[w] = "vcUpdate" =>
         /\ telephone[loc[w].tel] # None
         /\ telephone[loc[w].tel].number = loc[w].telRow.number
    /\ pc[w] \in Served =>
         loc[w].tel \in TelsWith(req[w].number)
    /\ pc[w] \in Resolved /\ loc[w].user \in user =>
         <<loc[w].user, loc[w].tel, "login">> \in userTel

\* Processes that found no row of number n and are about to insert one.
Inserting(n) == {w \in Workers : pc[w] = "vcInsert" /\ loc[w].telRow.number = n}

\* A process can insert a number only if it looked before any row was there.
RowsInv ==
  \A n \in Number :
    /\ IsFiniteSet(TelsWith(n))
    /\ TelsWith(n) # {} =>
         Cardinality(TelsWith(n)) + Cardinality(Inserting(n)) <= Cardinality(Workers)

\* A session has one owner, and its token was drawn for that owner.
OwnerInv ==
  \A s \in SessionId : session[s] # None =>
    /\ issued[session[s].token] \in User
    /\ \A u \in User : <<u, s>> \in userSession <=> u = issued[session[s].token]

\* The tokens that logins are about to store are in no session, differ from
\* each other, and were drawn for the owner of the session they go to.
PendingInv ==
  /\ \A w \in Workers : pc[w] \in ToStore =>
       /\ issued[loc[w].sesRow.token] = loc[w].user
       /\ SessionsWith(loc[w].sesRow.token) = {}
  /\ \A w \in Workers : pc[w] = "lgRefresh" =>
       session[loc[w].ses] # None /\ <<loc[w].user, loc[w].ses>> \in userSession
  /\ \A v, w \in Workers : pc[v] \in ToStore /\ pc[w] \in ToStore /\
       loc[v].sesRow.token = loc[w].sesRow.token => v = w

\* The session the gate found belongs to the user the token was drawn for.
GateInv ==
  \A w \in Workers :
    /\ pc[w] = "gateUser" =>
         /\ session[loc[w].ses] # None
         /\ req[w].token \in Token
         /\ issued[req[w].token] \in User
         /\ <<issued[req[w].token], loc[w].ses>> \in userSession
    /\ pc[w] = "admitted" =>
         req[w].token \in Token /\ loc[w].user = issued[req[w].token] /\ loc[w].user \in User

TokenInv == TokenNamesOneSession /\ OwnerInv /\ PendingInv /\ GateInv

AuthIInv == TypeInv /\ PhoneInv /\ RowsInv /\ TokenInv

-----------------------------------------------------------------------------
(* What holds besides if no other process writes to the database           *)

OneProcess == \E w \in Workers : Workers = {w}

\* A code about to be written was made for a row that had expired by then.
CodeInv ==
  \A w \in Workers :
    /\ req[w].uri = "requestVC" =>
         pc[w] \in {"gateSession", "gateUser", "vcQuery", "vcInsert", "vcUpdate"}
    /\ pc[w] \in {"vcInsert", "vcUpdate"} =>
         /\ loc[w].telRow.number = req[w].number
         /\ loc[w].telRow.code \in Code
         /\ loc[w].telRow.at \in 0..now
    /\ pc[w] = "vcUpdate" =>
         LET row == telephone[loc[w].tel]
         IN  row.at # NoTime => loc[w].telRow.at - row.at > VcLife

\* The session a login took over is the one its token opens.
TakenInv ==
  \A w \in Workers :
    /\ pc[w] \in Served \ {"lgRefresh", "lgPurge"} => loc[w].ses = None
    /\ pc[w] = "lgPurge" /\ loc[w].ses # None =>
         SessionsWith(loc[w].sesRow.token) = {loc[w].ses}

OneInv == AuthIInv /\ CodeInv /\ TakenInv
=============================================================================
