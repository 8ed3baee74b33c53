---------------------------- MODULE TravelProofs ----------------------------
(***************************************************************************)
(* Travel keeps TravelIInv, implements OwnedRows and leaves the offers alone     *)
(* when it refuses, for any number of processes, users and rows.           *)
(*                                                                         *)
(* A step is the step of one worker w.  What it does to the part of TravelIInv   *)
(* about another worker v depends only on whether it commits (OthersKeep,  *)
(* OthersKeepSaved); what it does to w itself is shown action by action.   *)
(***************************************************************************)
EXTENDS TravelInvariant, TLAPS

Step(w) == Work(w) \/ RejectBody(w) \/ Accept(w) \/ Fails(w) \/ Crash(w)

LEMMA NextSteps ==
  ASSUME [Next]_vars
  PROVE  (\E w \in Workers : Step(w)) \/ UNCHANGED vars
BY DEF Next, Step

\* Only w's entries change.
Alone(w) ==
  \A v \in Workers \ {w} :
    /\ pc'[v] = pc[v] /\ body'[v] = body[v] /\ tx'[v] = tx[v] /\ outcome'[v] = outcome[v]

LEMMA StepAlone ==
  ASSUME TypeOK, NEW w \in Workers, Step(w)
  PROVE  Alone(w)
<1>1. ASSUME Stop(w) PROVE Alone(w) BY <1>1 DEF Stop, Alone, TypeOK
<1>2. CASE RejectBody(w) \/ Fails(w) \/ Crash(w)
  BY <1>1, <1>2 DEF RejectBody, Fails, Crash, Reply
<1>3. CASE Accept(w) BY <1>3 DEF Accept, Goto, Alone, TypeOK
<1>4. CASE Commit(w) BY <1>1, <1>4 DEF Commit, Reply
<1>5. ASSUME NEW t \in Table, Check(w, t) \/ Update(w, t) \/ Insert(w, t) \/ Link(w, t)
      PROVE  Alone(w)
  BY <1>5 DEF Check, Update, Insert, Link, Goto, Alone, TypeOK
<1>6. ASSUME NEW t \in Table, NEW op \in {"update", "insert"},
             RefuseIncomplete(w, op, t) \/ Rejected(w, op, t)
      PROVE  Alone(w)
  BY <1>1, <1>6 DEF RefuseIncomplete, Rejected, Refuse, Reply, Goto, Alone, TypeOK
<1> QED BY <1>2, <1>3, <1>4, <1>5, <1>6 DEF Step, Work

-----------------------------------------------------------------------------
(* The other workers *)

\* Workers whose entries stay keep their invariant when no row is committed.
LEMMA OthersKeep ==
  ASSUME NEW v \in Workers, WorkerOK(v), UNCHANGED tables,
         pc'[v] = pc[v], body'[v] = body[v], tx'[v] = tx[v], outcome'[v] = outcome[v]
  PROVE  WorkerOK(v)'
<1>1. row' = row /\ link' = link BY DEF tables
<1>2. \A t, i : Mine(v, t, i)' <=> Mine(v, t, i) BY <1>1 DEF Mine
<1>3. \A t, i : Written(v, t, i)' <=> Written(v, t, i) BY DEF Written
<1>4. LabelOK(v)' BY DEF WorkerOK, LabelOK
<1>5. PendingOK(v)' BY <1>2, <1>3 DEF WorkerOK, PendingOK, At
<1>6. LinksOK(v)' BY <1>1, <1>3 DEF WorkerOK, LinksOK
<1>7. KnowsOK(v)' BY <1>1, <1>3 DEF WorkerOK, KnowsOK, At
<1>8. PartsOK(v)' BY <1>2 DEF WorkerOK, PartsOK
<1>9. OffersLastOK(v)' BY <1>3 DEF WorkerOK, OffersLastOK
<1> QED BY <1>4, <1>5, <1>6, <1>7, <1>8, <1>9 DEF WorkerOK

\* A transaction that commits adds its links, and only changes rows that no
\* other transaction has written.
LEMMA OthersKeepSaved ==
  ASSUME TypeOK, ApartOK, NEW w \in Workers, NEW v \in Workers, v # w,
         WorkerOK(v), Save(w),
         pc'[v] = pc[v], body'[v] = body[v], tx'[v] = tx[v], outcome'[v] = outcome[v]
  PROVE  WorkerOK(v)'
<1>1. link \subseteq link' BY DEF Save
<1>2. \A t, i : Mine(v, t, i) => Mine(v, t, i)' BY <1>1 DEF Mine
<1>3. \A t, i : Written(v, t, i)' <=> Written(v, t, i) BY DEF Written
<1>4. ASSUME NEW t \in Table, NEW i \in Id, Written(v, t, i) PROVE row'[t][i] = row[t][i]
  <2>1. ~Written(w, t, i) BY <1>4 DEF ApartOK
  <2> QED BY <2>1 DEF Save, Current, Written
<1>5. LabelOK(v)' BY DEF WorkerOK, LabelOK
<1>6. PendingOK(v)' BY <1>2, <1>3 DEF WorkerOK, PendingOK, At
<1>7. LinksOK(v)' BY <1>3, <1>4 DEF WorkerOK, LinksOK
<1>8. KnowsOK(v)' BY <1>1, <1>3, <1>4 DEF WorkerOK, KnowsOK, At
<1>9. PartsOK(v)' BY <1>2 DEF WorkerOK, PartsOK
<1>10. OffersLastOK(v)' BY <1>3 DEF WorkerOK, OffersLastOK
<1> QED BY <1>5, <1>6, <1>7, <1>8, <1>9, <1>10 DEF WorkerOK

\* A worker that is idle satisfies its invariant.
LEMMA IdleKeeps ==
  ASSUME TypeOK, NEW w \in Workers, Stop(w)
  PROVE  WorkerOK(w)'
<1>1. /\ pc'[w] = Idle /\ body'[w] = NoBody /\ tx'[w] = NoTx /\ outcome'[w] = "none"
  BY DEF Stop, TypeOK
<1>2. \A t \in Table, i \in Id : ~Written(w, t, i)'
  BY <1>1 DEF Written, NoTx, NoRows
<1>3. tx'[w].link = {} /\ tx'[w].seen = {} BY <1>1 DEF NoTx
<1>4. LabelOK(w)' BY <1>1 DEF LabelOK
<1>5. PendingOK(w)' BY <1>2 DEF PendingOK
<1>6. LinksOK(w)' BY <1>3 DEF LinksOK
<1>7. KnowsOK(w)' BY <1>1, <1>3 DEF KnowsOK, At, Idle
<1>8. PartsOK(w)' BY <1>1 DEF PartsOK, Idle
<1>9. OffersLastOK(w)' BY <1>1, <1>2 DEF OffersLastOK, Table
<1> QED BY <1>4, <1>5, <1>6, <1>7, <1>8, <1>9 DEF WorkerOK

-----------------------------------------------------------------------------
(* Requests and labels *)

Tx == [row: Rows, link: Links, seen: SUBSET Links]

LEMMA BusyWorker ==
  ASSUME NEW w \in Workers, LabelOK(w), pc[w] # Idle
  PROVE  body[w] \in Request
BY DEF LabelOK

LEMMA RequestFields ==
  ASSUME NEW b \in Request
  PROVE  /\ b.user \in User /\ b.offer \in Offers /\ b.id \in OfferId \cup {None}
         /\ b.goods \in GoodsId \cup {None} /\ b.car \in CarId \cup {None}
         /\ b.offer \in {"findCar", "findCustomers"}
         /\ b.offer \notin {"goods", "car"}
         /\ b.offer = "findCar" => b.car = None
BY DEF Request

\* The statement at which worker w is belongs to a part of its request.
LEMMA PartOfRequest ==
  ASSUME NEW w \in Workers, LabelOK(w), NEW op, NEW t, At(w, op, t),
         op \in {"check", "update", "insert", "link"}
  PROVE  /\ body[w] \in Request
         /\ t \in {"goods", "car", body[w].offer}
         /\ t = "car" => body[w].offer = "findCustomers"
BY DEF LabelOK, At, Idle, AtCommit

\* Where a request goes from a stage: labels of parts that it has.
LEMMA StagesAreParts ==
  ASSUME NEW b \in Request
  PROVE  LET Part(l) == \/ l = AtCommit
                        \/ \E op \in {"check", "update", "insert", "link"},
                              t \in {"goods", "car", b.offer} :
                             l = <<op, t>> /\ (t = "car" => b.offer = "findCustomers")
         IN  /\ Part(OfferStage(b)) /\ Part(GoodsStage(b)) /\ Part(CarStage(b)) /\ Part(First(b))
             /\ \A t \in {"goods", "car", b.offer} : Part(Stored(b, t))
             /\ \A t \in {"goods", "car", b.offer} :
                  (t = "car" => b.offer = "findCustomers") => Part(Checked(b, t))
<1> DEFINE Part(l) == \/ l = AtCommit
                      \/ \E op \in {"check", "update", "insert", "link"},
                            t \in {"goods", "car", b.offer} :
                           l = <<op, t>> /\ (t = "car" => b.offer = "findCustomers")
<1>0. b.offer \in {"findCar", "findCustomers"} BY RequestFields
<1>1. Part(OfferStage(b)) BY <1>0 DEF OfferStage
<1>2. Part(GoodsStage(b)) BY <1>1 DEF GoodsStage
<1>3. Part(CarStage(b)) BY <1>0, <1>2 DEF CarStage
<1>4. Part(First(b)) BY <1>0, <1>3 DEF First
<1>5. \A t \in {"goods", "car", b.offer} : Part(Stored(b, t))
  BY <1>1, <1>2 DEF Stored
<1>6. \A t \in {"goods", "car", b.offer} :
        (t = "car" => b.offer = "findCustomers") => Part(Checked(b, t))
  BY <1>3 DEF Checked
<1> QED BY <1>1, <1>2, <1>3, <1>4, <1>5, <1>6

-----------------------------------------------------------------------------
(* What a statement does to the transaction *)

\* The statement writes r as row i of table t.
Puts(w, t, i, r) == tx' = [tx EXCEPT ![w].row[t][i] = r]

LEMMA WriteEffect ==
  ASSUME tx \in [Workers -> Tx], NEW w \in Workers, NEW t \in Table, NEW i \in Id,
         NEW r \in Row, Puts(w, t, i, r)
  PROVE  /\ tx' \in [Workers -> Tx]
         /\ tx'[w].link = tx[w].link /\ tx'[w].seen = tx[w].seen
         /\ \A s \in Table, j \in Id :
              tx'[w].row[s][j] = IF s = t /\ j = i THEN r ELSE tx[w].row[s][j]
<1> DEFINE rows == [tx[w].row EXCEPT ![t][i] = r]
           new  == [tx[w] EXCEPT !.row = rows]
<1>1. tx[w] \in Tx /\ tx[w].row \in Rows BY DEF Tx
<1>2. rows \in Rows BY <1>1 DEF Rows
<1>3. \A s \in Table, j \in Id :
        rows[s][j] = IF s = t /\ j = i THEN r ELSE tx[w].row[s][j]
  BY <1>1 DEF Rows
<1>4. tx' = [tx EXCEPT ![w] = new] BY DEF Puts
<1> HIDE DEF rows
<1>5. /\ new \in Tx /\ new.row = rows
      /\ new.link = tx[w].link /\ new.seen = tx[w].seen
  BY <1>1, <1>2 DEF Tx
<1> HIDE DEF new
<1>6. tx'[w] = new /\ tx' \in [Workers -> Tx] BY <1>4, <1>5
<1> QED BY <1>3, <1>5, <1>6

\* The statement adds the link x.
Joins(w, x) == tx' = [tx EXCEPT ![w].link = tx[w].link \cup {x}]

LEMMA LinkEffect ==
  ASSUME tx \in [Workers -> Tx], NEW w \in Workers, NEW x \in Table \X User \X Id,
         Joins(w, x)
  PROVE  /\ tx' \in [Workers -> Tx]
         /\ tx'[w].row = tx[w].row /\ tx'[w].seen = tx[w].seen
         /\ tx'[w].link = tx[w].link \cup {x}
<1> DEFINE links == tx[w].link \cup {x}
           new   == [tx[w] EXCEPT !.link = links]
<1>1. tx[w] \in Tx BY DEF Tx
<1>2. links \in Links BY <1>1 DEF Tx, Links
<1>3. tx' = [tx EXCEPT ![w] = new] BY DEF Joins
<1> HIDE DEF links
<1>4. /\ new \in Tx /\ new.row = tx[w].row
      /\ new.link = links /\ new.seen = tx[w].seen
  BY <1>1, <1>2 DEF Tx
<1> HIDE DEF new
<1>5. tx'[w] = new /\ tx' \in [Workers -> Tx] BY <1>3, <1>4
<1> QED BY <1>4, <1>5 DEF links

LEMMA SnapshotEffect ==
  ASSUME tx \in [Workers -> Tx], NEW w \in Workers, NEW seen \in Links,
         tx' = [tx EXCEPT ![w].seen = {seen}]
  PROVE  /\ tx' \in [Workers -> Tx]
         /\ tx'[w].row = tx[w].row /\ tx'[w].link = tx[w].link
         /\ tx'[w].seen = {seen}
<1> DEFINE new == [tx[w] EXCEPT !.seen = {seen}]
<1>1. tx[w] \in Tx BY DEF Tx
<1>2. tx' = [tx EXCEPT ![w] = new] OBVIOUS
<1>3. /\ new \in Tx /\ new.row = tx[w].row
      /\ new.link = tx[w].link /\ new.seen = {seen}
  BY <1>1 DEF Tx
<1> HIDE DEF new
<1>4. tx'[w] = new /\ tx' \in [Workers -> Tx] BY <1>2, <1>3
<1> QED BY <1>3, <1>4

\* The id that an INSERT has drawn is put into the request's body.
LEMMA WithIdEffect ==
  ASSUME NEW b \in Request, NEW t \in {"goods", "car", b.offer}, NEW i \in IdsOf(t),
         t = "car" => b.offer = "findCustomers"
  PROVE  /\ WithId(b, t, i) \in Request
         /\ IdIn(WithId(b, t, i), t) = i
         /\ WithId(b, t, i).user = b.user /\ WithId(b, t, i).offer = b.offer
         /\ WithId(b, t, i).lacks = b.lacks
         /\ t # "goods" => WithId(b, t, i).goods = b.goods
         /\ t # "car" => WithId(b, t, i).car = b.car
         /\ t # b.offer => WithId(b, t, i).id = b.id
<1>0. b.offer \in {"findCar", "findCustomers"} BY RequestFields
<1>1. CASE t = "goods" BY <1>0, <1>1 DEF Request, WithId, IdIn, IdsOf
<1>2. CASE t = "car" BY <1>0, <1>2 DEF Request, WithId, IdIn, IdsOf
<1>3. CASE t = b.offer BY <1>0, <1>3 DEF Request, WithId, IdIn, IdsOf
<1> QED BY <1>1, <1>2, <1>3

LEMMA NewRowIsRow ==
  ASSUME NEW w \in Workers, body[w] \in Request, NEW t
  PROVE  NewRow(w, t) \in Row
BY RequestFields DEF NewRow, Row

-----------------------------------------------------------------------------
(* Reaching a stage with what it needs.  Stated of the next state, where the *)
(* actions use them.                                                         *)

LEMMA OfferStageReady ==
  ASSUME NEW w \in Workers, body'[w] \in Request, pc'[w] = OfferStage(body'[w]),
         UNION tx'[w].seen \subseteq link',
         body'[w].goods \in Preset \/ Mine(w, "goods", body[w].goods)',
         body'[w].offer = "findCustomers" => Mine(w, "car", body[w].car)',
         body'[w].offer = "findCustomers" /\ body'[w].id # None =>
           <<body'[w].offer, body'[w].user, body'[w].id>> \in link'
  PROVE  KnowsOK(w)' /\ PartsOK(w)'
<1> DEFINE c == body'[w]
<1>1. c.offer \in Offers /\ c.offer \in {"findCar", "findCustomers"}
  BY RequestFields
<1>2. \/ pc'[w] = <<"insert", c.offer>>
      \/ pc'[w] = <<"update", c.offer>> /\ c.offer = "findCustomers" /\ c.id # None
  BY DEF OfferStage
<1>3. KnowsOK(w)' BY <1>1, <1>2 DEF KnowsOK, At, IdIn
<1>4. PartsOK(w)' BY <1>1, <1>2 DEF PartsOK
<1> QED BY <1>3, <1>4

LEMMA GoodsStageReady ==
  ASSUME NEW w \in Workers, body'[w] \in Request, pc'[w] = GoodsStage(body'[w]),
         UNION tx'[w].seen \subseteq link',
         body'[w].offer = "findCustomers" => Mine(w, "car", body[w].car)',
         body'[w].id # None =>
           <<body'[w].offer, body'[w].user, body'[w].id>> \in link'
  PROVE  KnowsOK(w)' /\ PartsOK(w)'
<1>1. body'[w].offer \notin {"goods", "car"} BY RequestFields
<1>2. CASE body'[w].goods \in Preset
  <2>1. body'[w].goods # None BY <1>2, GoodsAssumption, NoneAssumption DEF Id
  <2> QED BY <1>2, <2>1, OfferStageReady DEF GoodsStage
<1>3. CASE body'[w].goods \notin Preset
  <2>1. pc'[w] \in {<<"insert", "goods">>, <<"check", "goods">>}
    BY <1>3 DEF GoodsStage
  <2>2. KnowsOK(w)' BY <1>1, <2>1 DEF KnowsOK, At
  <2>3. PartsOK(w)' BY <1>1, <2>1, OffersAssumption DEF PartsOK
  <2> QED BY <2>2, <2>3
<1> QED BY <1>2, <1>3

LEMMA CarStageReady ==
  ASSUME NEW w \in Workers, body'[w] \in Request, pc'[w] = CarStage(body'[w]),
         UNION tx'[w].seen \subseteq link',
         body'[w].id # None =>
           <<body'[w].offer, body'[w].user, body'[w].id>> \in link'
  PROVE  KnowsOK(w)' /\ PartsOK(w)'
<1>1. CASE body'[w].offer = "findCar" BY <1>1, GoodsStageReady DEF CarStage
<1>2. CASE body'[w].offer # "findCar"
  <2>1. pc'[w] \in {<<"insert", "car">>, <<"check", "car">>} BY <1>2 DEF CarStage
  <2>2. KnowsOK(w)' BY <2>1 DEF KnowsOK, At
  <2>3. PartsOK(w)' BY <2>1, OffersAssumption DEF PartsOK
  <2> QED BY <2>2, <2>3
<1> QED BY <1>1, <1>2

\* At the commit nothing is needed any more.
LEMMA CommitReady ==
  ASSUME NEW w \in Workers, pc'[w] = AtCommit, UNION tx'[w].seen \subseteq link'
  PROVE  KnowsOK(w)' /\ PartsOK(w)'
<1>1. KnowsOK(w)' BY OffersAssumption, NoneAssumption DEF KnowsOK, At, AtCommit, Table
<1>2. PartsOK(w)' BY OffersAssumption DEF PartsOK, AtCommit
<1> QED BY <1>1, <1>2

LEMMA StagesAreLabels ==
  ASSUME NEW w \in Workers, body'[w] \in Request,
         \/ \E t \in {"goods", "car", body'[w].offer} : pc'[w] = Stored(body'[w], t)
         \/ \E t \in {"goods", "car", body'[w].offer} :
              pc'[w] = Checked(body'[w], t) /\ (t = "car" => body'[w].offer = "findCustomers")
         \/ pc'[w] = First(body'[w])
         \/ pc'[w] = AtCommit
         \/ \E t \in {"goods", "car", body'[w].offer} :
              pc'[w] = <<"link", t>> /\ (t = "car" => body'[w].offer = "findCustomers")
  PROVE  LabelOK(w)' /\ pc'[w] \in Labels /\ pc'[w] # Idle
<1> DEFINE c == body'[w]
<1>1. \/ pc'[w] = AtCommit
      \/ \E op \in {"check", "update", "insert", "link"}, t \in {"goods", "car", c.offer} :
           pc'[w] = <<op, t>> /\ (t = "car" => c.offer = "findCustomers")
  BY StagesAreParts
<1>2. LabelOK(w)' BY <1>1 DEF LabelOK
<1>3. pc'[w] \in Labels BY <1>1, RequestFields DEF Labels, Table
<1>4. pc'[w] # Idle BY <1>1 DEF Idle, AtCommit
<1> QED BY <1>2, <1>3, <1>4

-----------------------------------------------------------------------------
(* The worker that steps, action by action *)

LEMMA ResponseType ==
  Silent \in [to: Workers \cup {None}, status: Refusals \cup {"none", "success", "unset"}]
BY DEF Silent

\* The type of each variable in the next state, for an action of w that sets
\* only w's entries.
LEMMA TypeAfter ==
  ASSUME TypeOK, NEW w \in Workers, tx' \in [Workers -> Tx],
         row' \in Rows, link' \in Links,
         pc' = [pc EXCEPT ![w] = pc'[w]], pc'[w] \in Labels,
         body' = [body EXCEPT ![w] = body'[w]], body'[w] \in Request \cup {NoBody},
         outcome' = [outcome EXCEPT ![w] = outcome'[w]],
         outcome'[w] \in Refusals \cup {"none"},
         resp' \in [to: Workers \cup {None}, status: Refusals \cup {"none", "success", "unset"}]
  PROVE  TypeOK'
<1>1. pc' \in [Workers -> Labels] BY DEF TypeOK
<1>2. body' \in [Workers -> Request \cup {NoBody}] BY DEF TypeOK
<1>3. outcome' \in [Workers -> Refusals \cup {"none"}] BY DEF TypeOK
<1> QED BY <1>1, <1>2, <1>3 DEF TypeOK, Tx

\* An action that writes no row keeps transactions apart.
LEMMA ApartAfter ==
  ASSUME ApartOK, NEW w \in Workers, Alone(w),
         \A t \in Table, i \in Id : Written(w, t, i)' => Written(w, t, i)
  PROVE  ApartOK'
<1>1. \A v \in Workers, t \in Table, i \in Id : Written(v, t, i)' => Written(v, t, i)
  BY DEF Alone, Written
<1> QED BY <1>1 DEF ApartOK

LEMMA AcceptKeeps ==
  ASSUME TravelIInv, NEW w \in Workers, Accept(w)
  PROVE  TypeOK' /\ WorkerOK(w)' /\ ApartOK'
<1>1. PICK r \in Request : /\ body' = [body EXCEPT ![w] = r]
                           /\ pc' = [pc EXCEPT ![w] = First(r)]
                           /\ resp' = Silent
  BY DEF Accept, Goto
<1>2. UNCHANGED <<tables, tx, outcome>> BY DEF Accept, Goto
<1>3. TypeOK /\ ApartOK /\ LabelOK(w) BY DEF TravelIInv, WorkerOK
<1>4. pc[w] = Idle /\ tx[w] = NoTx /\ outcome[w] = "none"
  BY <1>3 DEF Accept, LabelOK, Idle, AtCommit
<1>5. body'[w] = r /\ pc'[w] = First(r) /\ tx'[w] = NoTx /\ outcome'[w] = "none"
  BY <1>1, <1>2, <1>3, <1>4 DEF TypeOK
<1>6. \A t \in Table, i \in Id : ~Written(w, t, i)'
  BY <1>5 DEF Written, NoTx, NoRows
<1>7. tx'[w].link = {} /\ tx'[w].seen = {} BY <1>5 DEF NoTx
<1>8. LabelOK(w)' /\ pc'[w] \in Labels BY <1>5, StagesAreLabels
<1>9. PendingOK(w)' BY <1>6 DEF PendingOK
<1>10. LinksOK(w)' BY <1>7 DEF LinksOK
<1>11. KnowsOK(w)' /\ PartsOK(w)'
  <2>1. CASE r.id = None
    BY <1>5, <1>7, <2>1, CarStageReady DEF First
  <2>2. CASE r.id # None
    <3>1. pc'[w] = <<"check", r.offer>> /\ r.offer \notin {"goods", "car"}
      BY <1>5, <2>2, RequestFields DEF First
    <3>2. KnowsOK(w)' BY <1>7, <3>1 DEF KnowsOK, At
    <3>3. PartsOK(w)' BY <3>1 DEF PartsOK
    <3> QED BY <3>2, <3>3
  <2> QED BY <2>1, <2>2
<1>12. OffersLastOK(w)' BY <1>5, <1>6 DEF OffersLastOK, Table
<1>13. WorkerOK(w)' BY <1>8, <1>9, <1>10, <1>11, <1>12 DEF WorkerOK
<1>14. TypeOK'
  BY <1>1, <1>2, <1>3, <1>5, <1>8, TypeAfter, ResponseType DEF TypeOK, tables, Tx
<1>15. ApartOK'
  BY <1>2, <1>3 DEF ApartOK, Written
<1> QED BY <1>13, <1>14, <1>15

LEMMA CheckKeeps ==
  ASSUME TravelIInv, NEW w \in Workers, NEW t \in Table, Check(w, t)
  PROVE  TypeOK' /\ WorkerOK(w)' /\ ApartOK'
<1> DEFINE b == body[w]
<1>1. /\ TypeOK /\ ApartOK /\ LabelOK(w) /\ PendingOK(w) /\ LinksOK(w)
      /\ KnowsOK(w) /\ PartsOK(w) /\ OffersLastOK(w)
  BY DEF TravelIInv, WorkerOK
<1>2. At(w, "check", t) /\ UNCHANGED <<tables, body>> /\ resp' = Silent
  BY DEF Check, Goto
<1>3. /\ b \in Request /\ t \in {"goods", "car", b.offer}
      /\ t = "car" => b.offer = "findCustomers"
  BY <1>1, <1>2, PartOfRequest
<1>4. Seen(w) \subseteq link /\ Seen(w) \in Links /\ tx \in [Workers -> Tx]
  BY <1>1 DEF Seen, KnowsOK, TypeOK, Links, Tx
<1>5. /\ tx' \in [Workers -> Tx] /\ tx'[w].row = tx[w].row
      /\ tx'[w].link = tx[w].link /\ tx'[w].seen = {Seen(w)}
  <2>1. tx' = [tx EXCEPT ![w].seen = {Seen(w)}] BY DEF Check
  <2> QED BY <1>4, <2>1, SnapshotEffect
<1>6. \A s, i : Mine(w, s, i)' <=> Mine(w, s, i) BY <1>2, <1>5 DEF Mine, tables
<1>7. \A s, i : Written(w, s, i)' <=> Written(w, s, i) BY <1>5 DEF Written
<1>8. UNION tx'[w].seen \subseteq link' BY <1>2, <1>4, <1>5 DEF tables
<1>9. outcome[w] = "none" /\ \A s \in Offers, i \in Id : ~Written(w, s, i)
  BY <1>1, <1>2 DEF OffersLastOK, At, AtCommit
<1>10. PendingOK(w)'
  <2>1. \A s, i : Written(w, s, i) /\ s \in Table /\ i \in Id => Mine(w, s, i)
    BY <1>1, <1>2 DEF PendingOK, At
  <2> QED BY <1>1, <1>2, <1>5, <1>6, <1>7, <2>1 DEF PendingOK
<1>11. LinksOK(w)' BY <1>1, <1>2, <1>5, <1>7 DEF LinksOK, tables
<1>12. CASE <<t, b.user, IdIn(b, t)>> \in Seen(w) /\ Goto(w, Checked(b, t)) /\ UNCHANGED outcome
  <2>1. pc' = [pc EXCEPT ![w] = pc'[w]] /\ pc'[w] = Checked(b, t) /\ body'[w] = b
    BY <1>1, <1>2, <1>12 DEF Goto, TypeOK
  <2>2. LabelOK(w)' /\ pc'[w] \in Labels BY <1>3, <2>1, StagesAreLabels
  <2>3. <<t, b.user, IdIn(b, t)>> \in link' BY <1>2, <1>4, <1>12 DEF tables
  <2>4. b.offer \notin {"goods", "car"} BY <1>3, RequestFields
  <2>5. KnowsOK(w)' /\ PartsOK(w)'
    <3>1. CASE t \in {"goods", "car"}
      <4>1. pc'[w] = <<"update", t>> BY <2>1, <3>1 DEF Checked
      <4>2. b.id # None => <<b.offer, b.user, b.id>> \in link
        BY <1>1, <1>2, <3>1 DEF KnowsOK, At
      <4>3. KnowsOK(w)' BY <1>2, <1>8, <2>1, <2>3, <4>1, <4>2 DEF KnowsOK, At, tables
      <4>4. t = "goods" /\ b.offer = "findCustomers" => Mine(w, "car", b.car)
        BY <1>1, <1>2 DEF PartsOK, At
      <4>5. PartsOK(w)' BY <1>2, <1>6, <2>1, <3>1, <4>1, <4>4, OffersAssumption DEF PartsOK
      <4> QED BY <4>3, <4>5
    <3>2. CASE t = b.offer
      BY <1>3, <1>8, <2>1, <2>3, <2>4, <3>2, CarStageReady DEF Checked, IdIn
    <3> QED BY <1>3, <3>1, <3>2
  <2>6. OffersLastOK(w)' BY <1>7, <1>9, <1>12 DEF OffersLastOK, Table
  <2>7. TypeOK'
    BY <1>1, <1>2, <1>3, <1>5, <1>12, <2>1, <2>2, TypeAfter, ResponseType DEF TypeOK, tables
  <2> QED BY <1>1, <1>7, <1>10, <1>11, <2>2, <2>5, <2>6, <2>7, ApartAfter, StepAlone
          DEF WorkerOK, Step, Work
<1>13. CASE outcome' = [outcome EXCEPT ![w] = "forbidden"] /\ Goto(w, AtCommit)
  <2>1. pc' = [pc EXCEPT ![w] = pc'[w]] /\ pc'[w] = AtCommit /\ body'[w] = b
    BY <1>1, <1>2, <1>13 DEF Goto, TypeOK
  <2>2. LabelOK(w)' /\ pc'[w] \in Labels BY <1>3, <2>1, StagesAreLabels
  <2>3. KnowsOK(w)' /\ PartsOK(w)' BY <1>8, <2>1, CommitReady
  <2>4. OffersLastOK(w)' BY <1>7, <1>9, <2>1 DEF OffersLastOK, Table
  <2>5. TypeOK'
    BY <1>1, <1>2, <1>3, <1>5, <1>13, <2>1, <2>2, TypeAfter, ResponseType
       DEF TypeOK, tables, Refusals
  <2> QED BY <1>1, <1>7, <1>10, <1>11, <2>2, <2>3, <2>4, <2>5, ApartAfter, StepAlone
          DEF WorkerOK, Step, Work
<1> QED BY <1>12, <1>13 DEF Check

LEMMA RefuseKeeps ==
  ASSUME TravelIInv, NEW w \in Workers, NEW t \in Table, NEW op \in {"update", "insert"},
         RefuseIncomplete(w, op, t)
  PROVE  TypeOK' /\ WorkerOK(w)' /\ ApartOK'
<1>1. /\ TypeOK /\ ApartOK /\ LabelOK(w) /\ PendingOK(w) /\ LinksOK(w)
      /\ KnowsOK(w) /\ OffersLastOK(w)
  BY DEF TravelIInv, WorkerOK
<1>2. /\ At(w, op, t) /\ UNCHANGED <<tables, body, tx>> /\ resp' = Silent
      /\ pc' = [pc EXCEPT ![w] = AtCommit]
      /\ outcome' = [outcome EXCEPT ![w] = "badRequest"]
  BY DEF RefuseIncomplete, Refuse, Goto
<1>3. body[w] \in Request BY <1>1, <1>2, PartOfRequest
<1>4. pc'[w] = AtCommit /\ outcome'[w] = "badRequest" BY <1>1, <1>2 DEF TypeOK
<1>5. LabelOK(w)' /\ pc'[w] \in Labels BY <1>2, <1>3, <1>4, StagesAreLabels
<1>6. \A s, i : Written(w, s, i)' <=> Written(w, s, i) BY <1>2 DEF Written
<1>7. \A s, i : Mine(w, s, i)' <=> Mine(w, s, i) BY <1>2 DEF Mine, tables
<1>8. PendingOK(w)'
  <2>1. \A s, i : Written(w, s, i) /\ s \in Table /\ i \in Id => Mine(w, s, i)
    BY <1>1, <1>2 DEF PendingOK, At
  <2> QED BY <1>1, <1>2, <1>6, <1>7, <2>1 DEF PendingOK
<1>9. LinksOK(w)' BY <1>1, <1>2, <1>6 DEF LinksOK, tables
<1>10. KnowsOK(w)' /\ PartsOK(w)'
  BY <1>1, <1>2, <1>4, CommitReady DEF KnowsOK, tables
<1>11. OffersLastOK(w)'
  <2>1. \A s \in Offers, i \in Id : ~Written(w, s, i)
    BY <1>1, <1>2 DEF OffersLastOK, At, AtCommit
  <2> QED BY <1>4, <1>6, <2>1 DEF OffersLastOK, Table
<1>12. TypeOK'
  BY <1>1, <1>2, <1>3, <1>4, <1>5, TypeAfter, ResponseType DEF TypeOK, tables, Refusals, Tx
<1>13. ApartOK' BY <1>1, <1>2 DEF ApartOK, Written
<1> QED BY <1>5, <1>8, <1>9, <1>10, <1>11, <1>12, <1>13 DEF WorkerOK

LEMMA UpdateKeeps ==
  ASSUME TravelIInv, NEW w \in Workers, NEW t \in Table, Update(w, t)
  PROVE  TypeOK' /\ WorkerOK(w)' /\ ApartOK'
<1> DEFINE b == body[w]
           i == IdIn(b, t)
           r == NewRow(w, t)
<1>1. /\ TypeOK /\ ApartOK /\ LabelOK(w) /\ PendingOK(w) /\ LinksOK(w)
      /\ KnowsOK(w) /\ PartsOK(w) /\ OffersLastOK(w)
  BY DEF TravelIInv, WorkerOK
<1>2. /\ At(w, "update", t) /\ UNCHANGED <<tables, body, outcome>> /\ resp' = Silent
      /\ pc' = [pc EXCEPT ![w] = Stored(b, t)]
      /\ Puts(w, t, i, r)
      /\ Writable(w, t, i)
  BY DEF Update, Goto, Puts
<1>3. /\ b \in Request /\ t \in {"goods", "car", b.offer}
      /\ t = "car" => b.offer = "findCustomers"
  BY <1>1, <1>2, PartOfRequest
<1>4. b.offer \notin {"goods", "car"} /\ b.offer \in Offers BY <1>3, RequestFields
<1>5. <<t, b.user, i>> \in link /\ i \in Id BY <1>1, <1>2 DEF KnowsOK, TypeOK, Links
<1>6. r \in Row BY <1>3, NewRowIsRow
<1> HIDE DEF i, r
<1>7. /\ tx' \in [Workers -> Tx]
      /\ tx'[w].link = tx[w].link /\ tx'[w].seen = tx[w].seen
      /\ \A s \in Table, j \in Id :
           tx'[w].row[s][j] = IF s = t /\ j = i THEN r ELSE tx[w].row[s][j]
  <2>1. tx \in [Workers -> Tx] BY <1>1 DEF TypeOK, Tx
  <2> QED BY <1>2, <1>5, <1>6, <2>1, WriteEffect
<1>8. pc'[w] = Stored(b, t) /\ body'[w] = b /\ outcome'[w] = outcome[w]
  BY <1>1, <1>2 DEF TypeOK
<1>9. \A s, j : Mine(w, s, j)' <=> Mine(w, s, j) BY <1>2, <1>7 DEF Mine, tables
<1>10. \A s \in Table, j \in Id : Written(w, s, j)' <=> Written(w, s, j) \/ (s = t /\ j = i)
  BY <1>6, <1>7, RowAssumption DEF Written
<1>11. LabelOK(w)' /\ pc'[w] \in Labels BY <1>3, <1>8, StagesAreLabels
<1>12. PendingOK(w)'
  <2> SUFFICES ASSUME NEW s \in Table, NEW j \in Id, Written(w, s, j)'
               PROVE  /\ tx'[w].row[s][j].by = b.user
                      /\ Mine(w, s, j)
                      /\ s \in Offers => \/ tx'[w].row[s][j].goods \in Preset
                                         \/ Mine(w, "goods", tx'[w].row[s][j].goods)
                      /\ s = "findCustomers" => Mine(w, "car", tx'[w].row[s][j].car)
    BY <1>8, <1>9 DEF PendingOK
  <2>1. CASE s = t /\ j = i
    <3>1. tx'[w].row[s][j] = r BY <1>7, <2>1
    <3>2. /\ r.by = b.user
          /\ t \in Offers => r.goods = b.goods
          /\ t = "findCustomers" => r.car = b.car
      BY DEF r, NewRow
    <3>3. t \in Offers => b.goods \in Preset \/ Mine(w, "goods", b.goods)
      BY <1>1, <1>2 DEF PartsOK, At
    <3>4. t = "findCustomers" => b.offer = "findCustomers" /\ t \in Offers
      BY <1>3, <1>4
    <3>5. t = "findCustomers" => Mine(w, "car", b.car)
      BY <1>1, <1>2, <3>4 DEF PartsOK, At
    <3>6. Mine(w, s, j) BY <1>5, <2>1 DEF Mine
    <3> QED BY <2>1, <3>1, <3>2, <3>3, <3>5, <3>6
  <2>2. CASE ~(s = t /\ j = i)
    <3>1. tx'[w].row[s][j] = tx[w].row[s][j] /\ Written(w, s, j) BY <1>7, <1>10, <2>2
    <3> QED BY <1>1, <1>2, <3>1 DEF PendingOK, At
  <2> QED BY <2>1, <2>2
<1>13. LinksOK(w)' BY <1>1, <1>2, <1>7, <1>8, <1>10 DEF LinksOK, tables
<1>14. UNION tx'[w].seen \subseteq link' BY <1>1, <1>2, <1>7 DEF KnowsOK, tables
<1>15. KnowsOK(w)' /\ PartsOK(w)'
  <2>0. t \in {"goods", "car"} /\ b.id # None => <<b.offer, b.user, b.id>> \in link'
    BY <1>1, <1>2 DEF KnowsOK, At, tables
  <2>1. CASE t = "car"
    <3>1. <<"car", b.user, b.car>> \in link' BY <1>2, <1>5, <2>1 DEF i, IdIn, tables
    <3>2. Mine(w, "car", body[w].car)' BY <1>8, <3>1 DEF Mine
    <3> QED BY <1>3, <1>8, <1>14, <2>0, <2>1, <3>2, GoodsStageReady DEF Stored
  <2>2. CASE t = "goods"
    <3>1. <<"goods", b.user, b.goods>> \in link' BY <1>2, <1>5, <2>2 DEF i, IdIn, tables
    <3>2. Mine(w, "goods", body[w].goods)' BY <1>8, <3>1 DEF Mine
    <3>3. b.offer = "findCustomers" => Mine(w, "car", b.car)
      BY <1>1, <1>2, <2>2 DEF PartsOK, At
    <3>4. body'[w].offer = "findCustomers" => Mine(w, "car", body[w].car)'
      BY <1>2, <1>7, <1>8, <3>3 DEF Mine, tables
    <3> QED BY <1>3, <1>8, <1>14, <2>0, <2>2, <3>2, <3>4, OfferStageReady DEF Stored
  <2>3. CASE t = b.offer
    BY <1>4, <1>8, <1>14, <2>3, CommitReady DEF Stored
  <2> QED BY <1>3, <2>1, <2>2, <2>3
<1>16. OffersLastOK(w)'
  <2>1. outcome[w] = "none" /\ \A s \in Offers, j \in Id : ~Written(w, s, j)
    BY <1>1, <1>2 DEF OffersLastOK, At, AtCommit
  <2>2. t \in Offers => pc'[w] = AtCommit BY <1>8, OffersAssumption DEF Stored
  <2> QED BY <1>8, <1>10, <2>1, <2>2 DEF OffersLastOK, Table
<1>17. TypeOK'
  BY <1>1, <1>2, <1>3, <1>7, <1>8, <1>11, TypeAfter, ResponseType DEF TypeOK, tables
<1>18. ApartOK'
  <2>1. \A v \in Workers \ {w} : ~Written(v, t, i) BY <1>2 DEF Writable
  <2>2. \A v \in Workers \ {w}, s \in Table, j \in Id : Written(v, s, j)' <=> Written(v, s, j)
    BY StepAlone, <1>1 DEF Alone, Written, Step, Work
  <2> QED BY <1>1, <1>10, <2>1, <2>2 DEF ApartOK
<1> QED BY <1>11, <1>12, <1>13, <1>15, <1>16, <1>17, <1>18 DEF WorkerOK

LEMMA InsertKeeps ==
  ASSUME TravelIInv, NEW w \in Workers, NEW t \in Table, Insert(w, t)
  PROVE  TypeOK' /\ WorkerOK(w)' /\ ApartOK'
<1> DEFINE b == body[w]
           r == NewRow(w, t)
<1>1. /\ TypeOK /\ ApartOK /\ LabelOK(w) /\ PendingOK(w) /\ LinksOK(w)
      /\ KnowsOK(w) /\ PartsOK(w) /\ OffersLastOK(w)
  BY DEF TravelIInv, WorkerOK
<1>2. PICK i \in NewIds(t) : Puts(w, t, i, r) /\ body' = [body EXCEPT ![w] = WithId(b, t, i)]
  BY DEF Insert, Puts
<1>3. /\ At(w, "insert", t) /\ UNCHANGED <<tables, outcome>> /\ resp' = Silent
      /\ pc' = [pc EXCEPT ![w] = <<"link", t>>]
  BY DEF Insert, Goto
<1>4. /\ b \in Request /\ t \in {"goods", "car", b.offer}
      /\ t = "car" => b.offer = "findCustomers"
  BY <1>1, <1>3, PartOfRequest
<1>5. b.offer \notin {"goods", "car"} /\ b.offer \in Offers BY <1>4, RequestFields
<1>6. /\ i \in Id /\ i \in IdsOf(t) /\ row[t][i] = None
      /\ \A v \in Workers : ~Written(v, t, i)
  BY <1>2 DEF NewIds, IdsOf, Id
<1>7. r \in Row BY <1>4, NewRowIsRow
<1> HIDE DEF r
<1>8. /\ tx' \in [Workers -> Tx]
      /\ tx'[w].link = tx[w].link /\ tx'[w].seen = tx[w].seen
      /\ \A s \in Table, j \in Id :
           tx'[w].row[s][j] = IF s = t /\ j = i THEN r ELSE tx[w].row[s][j]
  <2>1. tx \in [Workers -> Tx] BY <1>1 DEF TypeOK, Tx
  <2> QED BY <1>2, <1>6, <1>7, <2>1, WriteEffect
<1>9. /\ pc'[w] = <<"link", t>> /\ body'[w] = WithId(b, t, i) /\ outcome'[w] = outcome[w]
  BY <1>1, <1>2, <1>3 DEF TypeOK
<1>10. /\ body'[w] \in Request
       /\ IdIn(body'[w], t) = i
       /\ body'[w].user = b.user /\ body'[w].offer = b.offer
       /\ t # "goods" => body'[w].goods = b.goods
       /\ t # "car" => body'[w].car = b.car
       /\ t # b.offer => body'[w].id = b.id
  BY <1>4, <1>6, <1>9, WithIdEffect
<1>11. \A s, j : Mine(w, s, j)' <=> Mine(w, s, j) BY <1>3, <1>8, <1>10 DEF Mine, tables
<1>12. \A s \in Table, j \in Id : Written(w, s, j)' <=> Written(w, s, j) \/ (s = t /\ j = i)
  BY <1>7, <1>8, RowAssumption DEF Written
<1>13. LabelOK(w)' /\ pc'[w] \in Labels BY <1>4, <1>9, <1>10, StagesAreLabels
<1>14. t \in Offers => b.goods \in Preset \/ Mine(w, "goods", b.goods)
  BY <1>1, <1>3 DEF PartsOK, At
<1>15. t = "goods" \/ t \in Offers =>
         (b.offer = "findCustomers" => Mine(w, "car", b.car))
  BY <1>1, <1>3 DEF PartsOK, At
<1>16. PendingOK(w)'
  <2> SUFFICES ASSUME NEW s \in Table, NEW j \in Id, Written(w, s, j)'
               PROVE  /\ tx'[w].row[s][j].by = b.user
                      /\ Mine(w, s, j) \/ (pc'[w] = <<"link", s>> /\ s = t /\ j = i)
                      /\ s \in Offers => \/ tx'[w].row[s][j].goods \in Preset
                                         \/ Mine(w, "goods", tx'[w].row[s][j].goods)
                      /\ s = "findCustomers" => Mine(w, "car", tx'[w].row[s][j].car)
    BY <1>9, <1>10, <1>11 DEF PendingOK, At
  <2>1. CASE s = t /\ j = i
    <3>1. tx'[w].row[s][j] = r BY <1>8, <2>1
    <3>2. /\ r.by = b.user
          /\ t \in Offers => r.goods = b.goods
          /\ t = "findCustomers" => r.car = b.car
      BY DEF r, NewRow
    <3>3. t = "findCustomers" => b.offer = "findCustomers" /\ t \in Offers
      BY <1>4, <1>5
    <3> QED BY <1>9, <1>14, <1>15, <2>1, <3>1, <3>2, <3>3
  <2>2. CASE ~(s = t /\ j = i)
    <3>1. tx'[w].row[s][j] = tx[w].row[s][j] /\ Written(w, s, j) BY <1>8, <1>12, <2>2
    <3> QED BY <1>1, <1>3, <3>1 DEF PendingOK, At
  <2> QED BY <2>1, <2>2
<1>17. LinksOK(w)' BY <1>1, <1>3, <1>8, <1>10, <1>12 DEF LinksOK, tables
<1>18. KnowsOK(w)'
  <2>1. UNION tx'[w].seen \subseteq link' BY <1>1, <1>3, <1>8 DEF KnowsOK, tables
  <2>2. t \in {"goods", "car"} /\ body'[w].id # None =>
          <<body'[w].offer, body'[w].user, body'[w].id>> \in link'
    BY <1>1, <1>3, <1>5, <1>10 DEF KnowsOK, At, tables
  <2>3. Written(w, t, i)' /\ row'[t][i] = None BY <1>3, <1>6, <1>12 DEF tables
  <2> QED BY <1>6, <1>9, <1>10, <2>1, <2>2, <2>3 DEF KnowsOK, At
<1>19. PartsOK(w)'
  <2>1. t \in Offers => body'[w].goods \in Preset \/ Mine(w, "goods", body[w].goods)'
    BY <1>10, <1>11, <1>14, OffersAssumption
  <2>2. t = "goods" \/ t \in Offers =>
          (body'[w].offer = "findCustomers" => Mine(w, "car", body[w].car)')
    BY <1>10, <1>11, <1>15, OffersAssumption
  <2> QED BY <1>9, <2>1, <2>2 DEF PartsOK
<1>20. OffersLastOK(w)'
  <2>1. outcome[w] = "none" /\ \A s \in Offers, j \in Id : ~Written(w, s, j)
    BY <1>1, <1>3 DEF OffersLastOK, At, AtCommit
  <2>2. ASSUME NEW s \in Offers, NEW j \in Id, Written(w, s, j)'
        PROVE  pc'[w] \in {"link"} \X Offers
    <3>1. s \in Table BY DEF Table
    <3>2. ~Written(w, s, j) BY <2>1
    <3>3. s = t BY <1>12, <2>2, <3>1, <3>2
    <3> QED BY <1>9, <3>3
  <2> QED BY <1>9, <2>1, <2>2 DEF OffersLastOK
<1>21. TypeOK'
  BY <1>1, <1>2, <1>3, <1>8, <1>9, <1>10, <1>13, TypeAfter, ResponseType DEF TypeOK, tables
<1>22. ApartOK'
  <2>1. \A v \in Workers \ {w}, s \in Table, j \in Id : Written(v, s, j)' <=> Written(v, s, j)
    BY StepAlone, <1>1 DEF Alone, Written, Step, Work
  <2> QED BY <1>1, <1>6, <1>12, <2>1 DEF ApartOK
<1> QED BY <1>13, <1>16, <1>17, <1>18, <1>19, <1>20, <1>21, <1>22 DEF WorkerOK

LEMMA LinkKeeps ==
  ASSUME TravelIInv, NEW w \in Workers, NEW t \in Table, Link(w, t)
  PROVE  TypeOK' /\ WorkerOK(w)' /\ ApartOK'
<1> DEFINE b == body[w]
           i == IdIn(b, t)
           x == <<t, b.user, i>>
<1>1. /\ TypeOK /\ ApartOK /\ LabelOK(w) /\ PendingOK(w) /\ LinksOK(w)
      /\ KnowsOK(w) /\ PartsOK(w) /\ OffersLastOK(w)
  BY DEF TravelIInv, WorkerOK
<1>2. /\ At(w, "link", t) /\ UNCHANGED <<tables, body, outcome>> /\ resp' = Silent
      /\ pc' = [pc EXCEPT ![w] = Stored(b, t)]
  BY DEF Link, Goto
<1>3. /\ b \in Request /\ t \in {"goods", "car", b.offer}
      /\ t = "car" => b.offer = "findCustomers"
  BY <1>1, <1>2, PartOfRequest
<1>4. /\ b.user \in User /\ b.offer \in Offers
      /\ b.offer \notin {"goods", "car"}
  BY <1>3, RequestFields
<1>5. i \in Id /\ Written(w, t, i) /\ row[t][i] = None BY <1>1, <1>2 DEF KnowsOK
<1> HIDE DEF x
<1>6. /\ tx' \in [Workers -> Tx]
      /\ tx'[w].row = tx[w].row /\ tx'[w].seen = tx[w].seen
      /\ tx'[w].link = tx[w].link \cup {x}
  <2>1. Joins(w, x) BY DEF Link, Joins, x, i
  <2>2. x \in Table \X User \X Id BY <1>4, <1>5 DEF x
  <2>3. tx \in [Workers -> Tx] BY <1>1 DEF TypeOK, Tx
  <2> QED BY <2>1, <2>2, <2>3, LinkEffect
<1> HIDE DEF i
<1>7. pc'[w] = Stored(b, t) /\ body'[w] = b /\ outcome'[w] = outcome[w]
  BY <1>1, <1>2 DEF TypeOK
<1>8. pc[w] = <<"link", t>> BY <1>2 DEF At
<1>9. \A s, j : Mine(w, s, j)' <=> Mine(w, s, j) \/ <<s, b.user, j>> = x
  BY <1>2, <1>6, <1>7 DEF Mine, tables
<1>10. \A s, j : s = t /\ j = i => <<s, b.user, j>> = x BY DEF x
<1>11. \A s, j : Written(w, s, j)' <=> Written(w, s, j) BY <1>6 DEF Written
<1>12. LabelOK(w)' /\ pc'[w] \in Labels BY <1>3, <1>7, StagesAreLabels
<1>13. PendingOK(w)'
  <2> SUFFICES ASSUME NEW s \in Table, NEW j \in Id, Written(w, s, j)'
               PROVE  /\ tx'[w].row[s][j].by = b.user
                      /\ Mine(w, s, j)'
                      /\ s \in Offers => \/ tx'[w].row[s][j].goods \in Preset
                                         \/ Mine(w, "goods", tx[w].row[s][j].goods)'
                      /\ s = "findCustomers" => Mine(w, "car", tx[w].row[s][j].car)'
    BY <1>6, <1>7 DEF PendingOK, Mine
  <2>1. Written(w, s, j) BY <1>11
  <2>2. Mine(w, s, j)'
    <3>1. Mine(w, s, j) \/ (At(w, "link", s) /\ j = IdIn(b, s))
      BY <1>1, <2>1 DEF PendingOK
    <3>2. CASE At(w, "link", s) /\ j = IdIn(b, s)
      <4>1. s = t BY <1>8, <3>2 DEF At
      <4>2. j = i BY <3>2, <4>1 DEF i
      <4> QED BY <1>9, <1>10, <4>1, <4>2
    <3> QED BY <1>9, <3>1, <3>2
  <2> QED BY <1>1, <1>6, <1>9, <2>1, <2>2 DEF PendingOK
<1>14. LinksOK(w)' BY <1>1, <1>2, <1>5, <1>6, <1>7, <1>11 DEF LinksOK, tables, x
<1>15. UNION tx'[w].seen \subseteq link' BY <1>1, <1>2, <1>6 DEF KnowsOK, tables
<1>16. KnowsOK(w)' /\ PartsOK(w)'
  <2>0. t \in {"goods", "car"} /\ b.id # None => <<b.offer, b.user, b.id>> \in link'
    BY <1>1, <1>2, <1>8 DEF KnowsOK, tables
  <2>1. CASE t = "car"
    <3>1. <<"car", b.user, b.car>> = x BY <2>1 DEF x, i, IdIn
    <3>2. Mine(w, "car", body[w].car)' BY <1>6, <1>7, <3>1 DEF Mine
    <3> QED BY <1>3, <1>7, <1>15, <2>0, <2>1, <3>2, GoodsStageReady DEF Stored
  <2>2. CASE t = "goods"
    <3>1. <<"goods", b.user, b.goods>> = x BY <2>2 DEF x, i, IdIn
    <3>2. Mine(w, "goods", body[w].goods)' BY <1>6, <1>7, <3>1 DEF Mine
    <3>3. b.offer = "findCustomers" => Mine(w, "car", b.car)
      BY <1>1, <1>8, <2>2 DEF PartsOK
    <3>4. body'[w].offer = "findCustomers" => Mine(w, "car", body[w].car)'
      BY <1>2, <1>6, <1>7, <3>3 DEF Mine, tables
    <3> QED BY <1>3, <1>7, <1>15, <2>0, <2>2, <3>2, <3>4, OfferStageReady DEF Stored
  <2>3. CASE t = b.offer
    BY <1>4, <1>7, <1>15, <2>3, CommitReady DEF Stored
  <2> QED BY <1>3, <2>1, <2>2, <2>3
<1>17. OffersLastOK(w)'
  <2>1. outcome[w] = "none" BY <1>1, <1>8 DEF OffersLastOK, AtCommit
  <2>2. CASE t \in Offers
    <3>1. pc'[w] = AtCommit BY <1>7, <2>2, OffersAssumption DEF Stored
    <3> QED BY <1>7, <2>1, <3>1 DEF OffersLastOK
  <2>3. CASE t \notin Offers
    <3>1. \A s \in Offers, j \in Id : ~Written(w, s, j)
      BY <1>1, <1>8, <2>3 DEF OffersLastOK, AtCommit
    <3> QED BY <1>7, <1>11, <2>1, <3>1 DEF OffersLastOK, Table
  <2> QED BY <2>2, <2>3
<1>18. TypeOK'
  BY <1>1, <1>2, <1>3, <1>6, <1>7, <1>12, TypeAfter, ResponseType DEF TypeOK, tables
<1>19. ApartOK' BY <1>1, <1>11, ApartAfter, StepAlone DEF Step, Work
<1> QED BY <1>12, <1>13, <1>14, <1>16, <1>17, <1>18, <1>19 DEF WorkerOK

-----------------------------------------------------------------------------
(* The steps that end a request *)

Responses == [to: Workers \cup {None}, status: Refusals \cup {"none", "success", "unset"}]

\* How a request ends: w is idle, and its transaction is gone or committed.  A
\* refusal that is answered then is the one that the handler has noted.
Ends(w) ==
  /\ Stop(w)
  /\ UNCHANGED tables \/ (pc[w] = AtCommit /\ Save(w))
  /\ resp' \in Responses
  /\ resp'.status \in Refusals /\ ~UNCHANGED tables => outcome[w] # "none"

LEMMA StepKinds ==
  ASSUME TypeOK, NEW w \in Workers, Step(w)
  PROVE  \/ Ends(w)
         \/ UNCHANGED tables /\ resp' = Silent
              /\ \/ Accept(w)
                 \/ \E t \in Table :
                      \/ Check(w, t) \/ Update(w, t) \/ Insert(w, t) \/ Link(w, t)
                      \/ \E op \in {"update", "insert"} : RefuseIncomplete(w, op, t)
<1>1. /\ Conclusion(w) \in Refusals \cup {"success"}
      /\ Conclusion(w) \in Refusals => outcome[w] # "none"
  BY DEF Conclusion, TypeOK, Refusals
<1>2. \A s : [to |-> w, status |-> s].status = s OBVIOUS
<1>3. ASSUME NEW s \in Refusals \cup {"success", "unset"}, Reply(w, s)
      PROVE  Stop(w) /\ resp' \in Responses /\ resp'.status = s
  BY <1>3 DEF Reply, Responses
<1>4. CASE RejectBody(w)
  BY <1>3, <1>4 DEF RejectBody, Ends, Refusals
<1>5. CASE Fails(w)
  <2>1. PICK s \in {Conclusion(w), "unset"} : Reply(w, s) BY <1>5 DEF Fails
  <2>2. s \in Refusals \cup {"success", "unset"} /\ (s \in Refusals => outcome[w] # "none")
    BY <1>1, <2>1 DEF Refusals
  <2> QED BY <1>3, <1>5, <2>1, <2>2 DEF Fails, Ends
<1>6. CASE Crash(w) BY <1>6, ResponseType DEF Crash, Ends, Responses
<1>7. CASE Commit(w) BY <1>1, <1>3, <1>7 DEF Commit, Ends
<1>8. ASSUME NEW t \in Table, NEW op \in {"update", "insert"}, Rejected(w, op, t)
      PROVE  Ends(w)
  BY <1>1, <1>3, <1>8 DEF Rejected, Ends
<1>9. CASE Accept(w) BY <1>9 DEF Accept, Goto
<1>10. ASSUME NEW t \in Table, Check(w, t) \/ Update(w, t) \/ Insert(w, t) \/ Link(w, t)
       PROVE  UNCHANGED tables /\ resp' = Silent
  BY <1>10 DEF Check, Update, Insert, Link, Goto
<1>11. ASSUME NEW t \in Table, NEW op \in {"update", "insert"}, RefuseIncomplete(w, op, t)
       PROVE  UNCHANGED tables /\ resp' = Silent
  BY <1>11 DEF RefuseIncomplete, Refuse, Goto
<1> QED BY <1>4, <1>5, <1>6, <1>7, <1>8, <1>9, <1>10, <1>11 DEF Step, Work

\* What a commit does to a row.
LEMMA SaveEffect ==
  ASSUME TypeOK, NEW w \in Workers, Save(w)
  PROVE  /\ row' \in Rows /\ link' \in Links
         /\ link' = link \cup tx[w].link
         /\ \A t \in Table, i \in Id :
              /\ Written(w, t, i) => row'[t][i] = tx[w].row[t][i]
              /\ ~Written(w, t, i) => row'[t][i] = row[t][i]
<1>1. tx[w].row \in Rows /\ tx[w].link \in Links BY DEF TypeOK
<1>2. \A t \in Table, i \in Id : Current(w, t, i) \in Row \cup {None}
  BY <1>1 DEF TypeOK, Rows, Current
<1>3. row' \in Rows BY <1>2 DEF Save, Rows
<1>4. link' \in Links /\ link' = link \cup tx[w].link BY <1>1 DEF Save, TypeOK, Links
<1> QED BY <1>3, <1>4 DEF Save, Current, Written

LEMMA EndKeeps ==
  ASSUME TravelIInv, NEW w \in Workers, Ends(w)
  PROVE  TypeOK' /\ WorkerOK(w)' /\ ApartOK' /\ CommittedOK'
<1>1. TypeOK /\ ApartOK /\ CommittedOK /\ LinksOK(w) BY DEF TravelIInv, WorkerOK
<1>2. Stop(w) BY DEF Ends
<1>3. /\ pc' = [pc EXCEPT ![w] = pc'[w]] /\ body' = [body EXCEPT ![w] = body'[w]]
      /\ outcome' = [outcome EXCEPT ![w] = outcome'[w]]
      /\ tx' = [tx EXCEPT ![w] = NoTx]
      /\ pc'[w] = Idle /\ body'[w] = NoBody /\ outcome'[w] = "none"
  BY <1>1, <1>2 DEF Stop, TypeOK
<1>4. tx' \in [Workers -> Tx]
  <2>1. NoTx \in Tx BY DEF NoTx, Tx, NoRows, Rows, Links
  <2> QED BY <1>1, <1>3, <2>1 DEF TypeOK, Tx
<1>5. row' \in Rows /\ link' \in Links
  BY <1>1, SaveEffect DEF Ends, tables, TypeOK
<1>6. TypeOK'
  BY <1>1, <1>3, <1>4, <1>5, TypeAfter DEF Ends, Responses, Labels
<1>7. ApartOK'
  <2>1. \A v \in Workers, t \in Table, i \in Id : Written(v, t, i)' => Written(v, t, i)
    BY <1>1, <1>3 DEF Written, TypeOK, NoTx, NoRows
  <2> QED BY <1>1, <2>1 DEF ApartOK
<1>8. CommittedOK'
  <2>1. CASE UNCHANGED tables BY <1>1, <2>1 DEF CommittedOK, tables
  <2>2. CASE Save(w)
    <3> SUFFICES ASSUME NEW t \in Table, NEW u \in User, NEW v \in User, NEW i \in Id,
                        <<t, u, i>> \in link'
                 PROVE  row'[t][i] # None /\ (<<t, v, i>> \in link' => u = v)
      BY DEF CommittedOK
    <3>1. <<t, u, i>> \in link => row[t][i] # None BY <1>1 DEF CommittedOK
    <3>2. <<t, v, i>> \in link => row[t][i] # None BY <1>1 DEF CommittedOK
    <3>3. <<t, u, i>> \in tx[w].link =>
            u = body[w].user /\ Written(w, t, i) /\ row[t][i] = None
      BY <1>1 DEF LinksOK
    <3>4. <<t, v, i>> \in tx[w].link => v = body[w].user /\ row[t][i] = None
      BY <1>1 DEF LinksOK
    <3>5. row'[t][i] # None
      BY <1>1, <2>2, <3>1, <3>3, SaveEffect DEF Written
    <3>6. <<t, v, i>> \in link /\ <<t, u, i>> \in link => u = v BY <1>1 DEF CommittedOK
    <3> QED BY <1>1, <2>2, <3>1, <3>2, <3>3, <3>4, <3>5, <3>6, SaveEffect
  <2> QED BY <2>1, <2>2 DEF Ends
<1> QED BY <1>1, <1>2, <1>6, <1>7, <1>8, IdleKeeps

-----------------------------------------------------------------------------
(* The invariant *)

LEMMA InitInv ==
  ASSUME Init
  PROVE  TravelIInv
<1>1. PICK d \in Seeds : row = d.row /\ link = d.link BY DEF Init
<1>2. SeedOK(d) BY SeedsAssumption
<1>3. row \in Rows /\ link \in Links BY <1>1, <1>2 DEF SeedOK
<1>4. NoTx \in Tx BY DEF NoTx, Tx, NoRows, Rows, Links
<1>5. /\ pc = [w \in Workers |-> Idle] /\ body = [w \in Workers |-> NoBody]
      /\ tx = [w \in Workers |-> NoTx] /\ outcome = [w \in Workers |-> "none"]
      /\ resp = Silent
  BY DEF Init
<1>6. TypeOK
  BY <1>3, <1>4, <1>5, ResponseType DEF TypeOK, Labels, Tx
<1>7. CommittedOK BY <1>1, <1>2 DEF SeedOK, CommittedOK
<1>8. \A w \in Workers, t \in Table, i \in Id : ~Written(w, t, i)
  BY <1>5 DEF Written, NoTx, NoRows
<1>9. ApartOK BY <1>8 DEF ApartOK
<1>10. ASSUME NEW w \in Workers PROVE WorkerOK(w)
  <2>1. /\ pc[w] = Idle /\ body[w] = NoBody /\ tx[w] = NoTx /\ outcome[w] = "none"
        /\ tx[w].link = {} /\ tx[w].seen = {}
    BY <1>5 DEF NoTx
  <2>2. LabelOK(w) BY <2>1 DEF LabelOK
  <2>3. PendingOK(w) /\ LinksOK(w) BY <1>8, <2>1 DEF PendingOK, LinksOK
  <2>4. KnowsOK(w) /\ PartsOK(w) BY <2>1 DEF KnowsOK, PartsOK, At, Idle
  <2>5. OffersLastOK(w) BY <1>8, <2>1 DEF OffersLastOK, Table
  <2> QED BY <2>2, <2>3, <2>4, <2>5 DEF WorkerOK
<1> QED BY <1>6, <1>7, <1>9, <1>10 DEF TravelIInv

LEMMA StepInv ==
  ASSUME TravelIInv, NEW w \in Workers, Step(w)
  PROVE  TravelIInv'
<1>1. /\ TypeOK /\ ApartOK /\ CommittedOK
      /\ \A v \in Workers : WorkerOK(v)
  BY DEF TravelIInv
<1>2. Alone(w) BY <1>1, StepAlone
<1>3. CASE Ends(w)
  <2>1. ASSUME NEW v \in Workers, v # w PROVE WorkerOK(v)'
    BY <1>1, <1>2, <1>3, <2>1, OthersKeep, OthersKeepSaved DEF Ends, Alone
  <2> QED BY <1>3, <2>1, EndKeeps DEF TravelIInv
<1>4. CASE ~Ends(w)
  <2>1. UNCHANGED tables BY <1>1, <1>4, StepKinds
  <2>2. ASSUME NEW v \in Workers, v # w PROVE WorkerOK(v)'
    BY <1>1, <1>2, <2>1, <2>2, OthersKeep DEF Alone
  <2>3. TypeOK' /\ WorkerOK(w)' /\ ApartOK'
    BY <1>1, <1>4, StepKinds, AcceptKeeps, CheckKeeps, UpdateKeeps, InsertKeeps, LinkKeeps,
       RefuseKeeps
  <2>4. CommittedOK' BY <1>1, <2>1 DEF CommittedOK, tables
  <2> QED BY <2>2, <2>3, <2>4 DEF TravelIInv
<1> QED BY <1>3, <1>4

LEMMA StutterInv ==
  ASSUME TravelIInv, UNCHANGED vars
  PROVE  TravelIInv'
<1>1. /\ UNCHANGED tables
      /\ row' = row /\ link' = link /\ pc' = pc /\ body' = body
      /\ tx' = tx /\ outcome' = outcome /\ resp' = resp
  BY DEF vars, tables
<1>2. TypeOK' BY <1>1 DEF TravelIInv, TypeOK
<1>3. CommittedOK' BY <1>1 DEF TravelIInv, CommittedOK
<1>4. ApartOK' BY <1>1 DEF TravelIInv, ApartOK, Written
<1>5. \A v \in Workers : WorkerOK(v)' BY <1>1, OthersKeep DEF TravelIInv
<1> QED BY <1>2, <1>3, <1>4, <1>5 DEF TravelIInv

\* Every reachable state satisfies the invariant: what an open transaction has
\* written belongs to its user and to no other transaction.
THEOREM TravelInvariantHolds == Spec => []TravelIInv
<1>1. Init => TravelIInv BY InitInv
<1>2. TravelIInv /\ [Next]_vars => TravelIInv' BY NextSteps, StepInv, StutterInv
<1> QED BY <1>1, <1>2, PTL DEF Spec

\* The variables of Travel keep their types.
THEOREM TravelTypeCorrect == Spec => []TypeOK
<1>1. TravelIInv => TypeOK BY DEF TravelIInv
<1> QED BY <1>1, TravelInvariantHolds, PTL

-----------------------------------------------------------------------------
(* Refinement of OwnedRows *)

LEMMA OwnedInit ==
  ASSUME Init
  PROVE  Owned!Init
BY InitInv DEF TravelIInv, CommittedOK, Owned!Init, Owned!Exists

LEMMA OwnedStep ==
  ASSUME TravelIInv, NEW w \in Workers, Step(w)
  PROVE  (\E u \in User : Owned!Write(u)) \/ UNCHANGED <<row, link>>
<1> DEFINE u == body[w].user
<1>1. /\ TypeOK /\ CommittedOK /\ LabelOK(w) /\ PendingOK(w) /\ LinksOK(w)
  BY DEF TravelIInv, WorkerOK
<1>2. CASE UNCHANGED tables BY <1>2 DEF tables
<1>3. CASE pc[w] = AtCommit /\ Save(w)
  <2>1. body[w] \in Request /\ u \in User
    BY <1>1, <1>3, RequestFields DEF LabelOK, Idle, AtCommit
  <2>2. /\ link' = link \cup tx[w].link
        /\ \A t \in Table, i \in Id :
             /\ Written(w, t, i) => row'[t][i] = tx[w].row[t][i]
             /\ ~Written(w, t, i) => row'[t][i] = row[t][i]
    BY <1>1, <1>3, SaveEffect
  <2>3. \A t \in Table, i \in Id : Written(w, t, i) => Mine(w, t, i)
    BY <1>1, <1>3 DEF PendingOK, At, AtCommit
  <2>4. \A t \in Table, i \in Id : Mine(w, t, i) => <<t, u, i>> \in link'
    BY <2>2 DEF Mine
  <2>5. tx[w].link = Owned!Created(u)
    <3>1. tx[w].link \subseteq Table \X User \X Id BY <1>1 DEF TypeOK, Links
    <3>2. ASSUME NEW t \in Table, NEW v \in User, NEW i \in Id, <<t, v, i>> \in tx[w].link
          PROVE  <<t, v, i>> \in Owned!Created(u)
      <4>1. v = u /\ Written(w, t, i) /\ row[t][i] = None BY <1>1, <3>2 DEF LinksOK
      <4>2. row'[t][i] # None BY <2>2, <4>1 DEF Written
      <4> QED BY <4>1, <4>2 DEF Owned!Created, Owned!Exists
    <3>3. ASSUME NEW t \in Table, NEW i \in Id, row[t][i] = None, row'[t][i] # None
          PROVE  <<t, u, i>> \in tx[w].link
      <4>1. Mine(w, t, i) BY <2>2, <2>3, <3>3
      <4>2. <<t, u, i>> \notin link BY <1>1, <2>1, <3>3 DEF CommittedOK
      <4> QED BY <4>1, <4>2 DEF Mine
    <3>4. tx[w].link \subseteq Owned!Created(u) BY <3>1, <3>2
    <3>5. Owned!Created(u) \subseteq tx[w].link
      BY <3>3 DEF Owned!Created, Owned!Exists
    <3> QED BY <3>4, <3>5
  <2>6. ASSUME NEW t \in Table, NEW i \in Id, row'[t][i] # row[t][i]
        PROVE  /\ row'[t][i] # None
               /\ row'[t][i].by = u
               /\ <<t, u, i>> \in link'
               /\ t \in Offers => \/ row'[t][i].goods \in Preset
                                  \/ <<"goods", u, row'[t][i].goods>> \in link'
               /\ t = "findCustomers" => <<"car", u, row'[t][i].car>> \in link'
    <3>1. Written(w, t, i) /\ row'[t][i] = tx[w].row[t][i] BY <2>2, <2>6
    <3>2. /\ tx[w].row[t][i].by = u
          /\ t \in Offers => \/ tx[w].row[t][i].goods \in Preset
                             \/ Mine(w, "goods", tx[w].row[t][i].goods)
          /\ t = "findCustomers" => Mine(w, "car", tx[w].row[t][i].car)
      BY <1>1, <3>1 DEF PendingOK
    <3>3. \A s, j : Mine(w, s, j) => <<s, u, j>> \in link' BY <2>2 DEF Mine
    <3>4. Mine(w, t, i) /\ row'[t][i] # None BY <2>3, <3>1 DEF Written
    <3> QED BY <3>1, <3>2, <3>3, <3>4
  <2>7. Owned!Write(u) BY <2>2, <2>5, <2>6 DEF Owned!Write
  <2> QED BY <2>1, <2>7
<1> QED BY <1>1, <1>2, <1>3, StepKinds DEF Ends

\* Whatever requests, failures and deaths interleave, the committed rows change
\* as OwnedRows says (postFindCar, postFindCustomers and what they call).
THEOREM TravelImplementsOwnedRows == Spec => RowsAreOwned
<1>1. Init => Owned!Init BY OwnedInit
<1>2. TravelIInv /\ [Next]_vars => [\E u \in User : Owned!Write(u)]_<<row, link>>
  BY NextSteps, OwnedStep DEF vars, tables
<1> QED BY <1>1, <1>2, TravelInvariantHolds, PTL DEF Spec, RowsAreOwned, Owned!Spec

-----------------------------------------------------------------------------
(* Refusals *)

KeepsOffersIfRefused == resp'.status \in Refusals => \A t \in Offers : row'[t] = row[t]

LEMMA RefusalStep ==
  ASSUME TravelIInv, NEW w \in Workers, Step(w)
  PROVE  KeepsOffersIfRefused
<1>1. TypeOK /\ OffersLastOK(w) BY DEF TravelIInv, WorkerOK
<1>2. CASE UNCHANGED tables BY <1>2 DEF KeepsOffersIfRefused, tables
<1>3. CASE Ends(w) /\ ~UNCHANGED tables
  <2> SUFFICES ASSUME resp'.status \in Refusals, NEW t \in Offers
               PROVE  row'[t] = row[t]
    BY DEF KeepsOffersIfRefused
  <2>1. outcome[w] # "none" /\ Save(w) BY <1>3 DEF Ends
  <2>2. \A i \in Id : ~Written(w, t, i) BY <1>1, <2>1 DEF OffersLastOK
  <2>3. t \in Table BY DEF Table
  <2>4. row' \in Rows /\ \A i \in Id : row'[t][i] = row[t][i]
    BY <1>1, <2>1, <2>2, <2>3, SaveEffect
  <2>5. row \in Rows BY <1>1 DEF TypeOK
  <2> QED BY <2>3, <2>4, <2>5 DEF Rows
<1> QED BY <1>1, <1>2, <1>3, StepKinds

\* A request that is refused, at whatever statement, leaves both offer tables
\* alone: the offer is the last row that postFindCar and postFindCustomers write.
THEOREM RefusalsKeepOffers == Spec => RefusedRequestsKeepOffers
<1>1. ASSUME TravelIInv, [Next]_vars PROVE [KeepsOffersIfRefused]_vars
  BY <1>1, NextSteps, RefusalStep
<1> QED BY <1>1, TravelInvariantHolds, PTL
        DEF Spec, RefusedRequestsKeepOffers, KeepsOffersIfRefused
=============================================================================
