------------------------------- MODULE Travel -------------------------------
(***************************************************************************)
(* Travel offers: postFindCar and postFindCustomers with the goods and car *)
(* they carry (src/control/db_proxy.cpp:334-643), each inside one database *)
(* transaction of executeTransactionSql (src/db/sql/db_manager.cpp:119).   *)
(*                                                                         *)
(* A worker is one process that serves one request at a time; a step is    *)
(* one SQL statement.  What a transaction has written stays in tx[w] until *)
(* it commits.  Rows it has written are locked for the others, and so are  *)
(* the goods and the car its offer points to (foreign keys).  Ownership is *)
(* read from the snapshot of the transaction's first SELECT.  The columns  *)
(* of a row are reduced to who wrote them last and what the row points to. *)
(***************************************************************************)
EXTENDS Integers, FiniteSets

CONSTANTS
  Workers,                  \* processes that serve requests
  User,                     \* users the token gate lets in
  GoodsId, CarId, OfferId,  \* primary keys; the two offer tables share one set
  Preset,                   \* goods ids that isPresetItem takes for preset items
  Offers,                   \* the offer tables in use
  References,               \* bound: goods_info_ids that are sent without a goodsInfo
  System,                   \* the writer of the rows the schema script inserts
  None,                     \* no id, no row
  Seeds                     \* databases the program may be started on

Table == {"goods", "car"} \cup Offers
Id    == GoodsId \cup CarId \cup OfferId

IdsOf(t) == IF t = "goods" THEN GoodsId ELSE IF t = "car" THEN CarId ELSE OfferId

ASSUME OffersAssumption == Offers \subseteq {"findCar", "findCustomers"}
ASSUME GoodsAssumption  == Preset \subseteq GoodsId /\ References \subseteq GoodsId
ASSUME NoneAssumption   == None \notin Id \cup User \cup Workers /\ System \notin User

Row   == [by: User \cup {System}, goods: GoodsId \cup {None}, car: CarId \cup {None}]
Rows  == [Table -> [Id -> Row \cup {None}]]
Links == SUBSET (Table \X User \X Id)

ASSUME RowAssumption == None \notin Row

VARIABLES
  row,      \* committed rows: row[t][i] is row i of table t, or None
  link,     \* committed rows of user_goods_info, user_car, user_find_car, ...
  pc,       \* per worker: the next statement <<operation, table>>
  body,     \* per worker: the request's body, with the ids the handler fills in
  tx,       \* per worker: what the open transaction has written and seen
  outcome,  \* per worker: the status the handler has refused with, or "none"
  resp      \* the response this step sent, or Silent

tables == <<row, link>>
vars   == <<row, link, pc, body, tx, outcome, resp>>

-----------------------------------------------------------------------------
(* Requests, transactions, responses *)

\* goods, car: the id in the body, None if it has none.  lacks: the part whose
\* NOT NULL columns are not all there.  ref: the offer names goods by
\* goods_info_id and the body has no goodsInfo.  The handler dereferences the
\* empty optional all the same, and goods is whatever it finds there; a missing
\* car is like that too.
Request ==
  [user: User, offer: Offers \cap {"findCar"}, id: OfferId \cup {None}, goods: GoodsId \cup {None},
   ref: References \cup {None}, car: {None}, lacks: {"nothing", "offer"}]
    \cup
  [user: User, offer: Offers \cap {"findCustomers"}, id: OfferId \cup {None}, goods: GoodsId \cup {None},
   ref: {None}, car: CarId \cup {None}, lacks: {"nothing", "offer", "car"}]

NoBody == [user |-> None, offer |-> None, id |-> None, goods |-> None,
           ref |-> None, car |-> None, lacks |-> "nothing"]

NoRows == [t \in Table |-> [i \in Id |-> None]]

\* seen holds the snapshot of link, from the first SELECT on.
NoTx == [row |-> NoRows, link |-> {}, seen |-> {}]

Idle   == <<"idle", None>>
AtCommit == <<"commit", None>>
Labels == {Idle, AtCommit} \cup ({"check", "update", "insert", "link"} \X Table)

Refusals == {"badRequest", "forbidden"}
Silent   == [to |-> None, status |-> "none"]

\* The id of the request's row in table t.
IdIn(b, t) == IF t = "goods" THEN b.goods ELSE IF t = "car" THEN b.car ELSE b.id

WithId(b, t, i) ==
  IF t = "goods" THEN [b EXCEPT !.goods = i]
  ELSE IF t = "car" THEN [b EXCEPT !.car = i]
  ELSE [b EXCEPT !.id = i]

-----------------------------------------------------------------------------
(* The order of the statements.  A part with an id is checked, then updated; *)
(* a part without one is inserted, then linked to the user.  Preset goods    *)
(* are left alone.  postFindCar inserts the offer even when it has an id.    *)

OfferStage(b) ==
  IF b.offer = "findCustomers" /\ b.id # None THEN <<"update", b.offer>> ELSE <<"insert", b.offer>>

\* Variant with a plausible bug, used by no specification: the goods are
\* updated without a look at whose they are.
GoodsStageUnchecked(b) ==
  IF b.goods = None THEN <<"insert", "goods">>
  ELSE IF b.goods \in Preset THEN OfferStage(b)
  ELSE <<"update", "goods">>

GoodsStage(b) ==
  IF b.goods = None THEN <<"insert", "goods">>
  ELSE IF b.goods \in Preset THEN OfferStage(b)
  ELSE <<"check", "goods">>

CarStage(b) ==
  IF b.offer = "findCar" THEN GoodsStage(b)
  ELSE IF b.car = None THEN <<"insert", "car">>
  ELSE <<"check", "car">>

First(b) == IF b.id = None THEN CarStage(b) ELSE <<"check", b.offer>>

\* The statement after the part t of the body has been stored.
Stored(b, t) ==
  IF t = "car" THEN GoodsStage(b) ELSE IF t = "goods" THEN OfferStage(b) ELSE AtCommit

\* The statement after the user has been found to own row t.
Checked(b, t) == IF t \in {"goods", "car"} THEN <<"update", t>> ELSE CarStage(b)

-----------------------------------------------------------------------------
(* What a statement of a transaction sees, and which locks it meets *)

Seen(w) == IF tx[w].seen = {} THEN link ELSE UNION tx[w].seen

\* The row as transaction w reads and writes it.
Current(w, t, i) == IF tx[w].row[t][i] # None THEN tx[w].row[t][i] ELSE row[t][i]

Written(v, t, i) == tx[v].row[t][i] # None

\* Foreign keys: an offer that v has written locks the rows it points to.
Referenced(v, t, i) ==
  \E o \in Offers, j \in OfferId :
    Written(v, o, j) /\ i = IF t = "goods" THEN tx[v].row[o][j].goods
                            ELSE IF t = "car" THEN tx[v].row[o][j].car
                            ELSE None

Writable(w, t, i) == \A v \in Workers \ {w} : ~Written(v, t, i) /\ ~Referenced(v, t, i)
Readable(w, t, i) == \A v \in Workers \ {w} : ~Written(v, t, i)

\* AUTO_INCREMENT: an id that no committed row and no open transaction has.
NewIds(t) == {i \in IdsOf(t) : row[t][i] = None /\ \A v \in Workers : ~Written(v, t, i)}

\* The row that the request w serves writes into table t.
NewRow(w, t) ==
  [by |-> body[w].user,
   goods |-> IF t \in Offers THEN body[w].goods ELSE None,
   car |-> IF t = "findCustomers" THEN body[w].car ELSE None]

\* The rows an offer points to, which MySQL looks up before it writes it.
Parents(w, t) ==
  (IF t \in Offers THEN {<<"goods", body[w].goods>>} ELSE {})
    \cup (IF t = "findCustomers" THEN {<<"car", body[w].car>>} ELSE {})

ParentsReadable(w, t) == \A p \in Parents(w, t) : Readable(w, p[1], p[2])
ParentsExist(w, t)    == \A p \in Parents(w, t) : Current(w, p[1], p[2]) # None

-----------------------------------------------------------------------------
(* Databases to start on: foreign keys hold, every row that a user wrote *)
(* belongs to that user alone, and no preset item belongs to anybody.    *)

SeedOK(d) ==
  /\ d.row \in Rows /\ d.link \in Links
  /\ \A t \in Table, i \in Id : d.row[t][i] # None => i \in IdsOf(t)
  /\ \A t \in Table, u \in User, i \in Id :
       <<t, u, i>> \in d.link <=> d.row[t][i] # None /\ d.row[t][i].by = u
  /\ \A t \in Offers, i \in Id : d.row[t][i] # None =>
       /\ d.row["goods"][d.row[t][i].goods] # None
       /\ t = "findCustomers" => d.row["car"][d.row[t][i].car] # None

ASSUME SeedsAssumption == \A d \in Seeds : SeedOK(d)

Init ==
  /\ \E seed \in Seeds : row = seed.row /\ link = seed.link
  /\ pc = [w \in Workers |-> Idle]
  /\ body = [w \in Workers |-> NoBody]
  /\ tx = [w \in Workers |-> NoTx]
  /\ outcome = [w \in Workers |-> "none"]
  /\ resp = Silent

At(w, op, t) == pc[w] = <<op, t>>

Goto(w, label) ==
  /\ pc' = [pc EXCEPT ![w] = label]
  /\ resp' = Silent
  /\ UNCHANGED tables

\* The handler returns early: its function ends, and what it wrote is committed.
Refuse(w, status) ==
  /\ outcome' = [outcome EXCEPT ![w] = status]
  /\ Goto(w, AtCommit)
  /\ UNCHANGED <<body, tx>>

\* The request ends; an open transaction that has not been committed is gone.
Stop(w) ==
  /\ pc' = [pc EXCEPT ![w] = Idle]
  /\ body' = [body EXCEPT ![w] = NoBody]
  /\ tx' = [tx EXCEPT ![w] = NoTx]
  /\ outcome' = [outcome EXCEPT ![w] = "none"]

Reply(w, status) == Stop(w) /\ resp' = [to |-> w, status |-> status]

\* A handler that has refused nothing answers success, also when the
\* transaction function has caught an exception and rolled back.
Conclusion(w) == IF outcome[w] = "none" THEN "success" ELSE outcome[w]

Save(w) ==
  /\ row' = [t \in Table |-> [i \in Id |-> Current(w, t, i)]]
  /\ link' = link \cup tx[w].link

-----------------------------------------------------------------------------
(* The handlers *)

\* isLegal: no offer, or no goods at all, or for find_customers no car at all.
RejectBody(w) ==
  /\ pc[w] = Idle
  /\ Reply(w, "badRequest")
  /\ UNCHANGED tables

\* The parts of body b that are to be inserted.
NewParts(b) ==
  {t \in Table : IdIn(b, t) = None /\ (t \in {"goods", b.offer} \/ (t = "car" /\ b.offer = "findCustomers"))}

\* Bound: every request that is being served finds the new ids it needs.
IdsLeft(r) ==
  \A t \in NewParts(r) :
    Cardinality({v \in Workers : pc[v] # Idle /\ t \in NewParts(body[v])}) < Cardinality(NewIds(t))

Accept(w) ==
  /\ pc[w] = Idle
  /\ \E r \in Request :
       /\ IdsLeft(r)
       /\ body' = [body EXCEPT ![w] = r]
       /\ Goto(w, First(r))
  /\ UNCHANGED <<tx, outcome>>

\* Variant: the refusal of the goods does not end the handler's function.
CheckGoesOn(w, t) ==
  LET b == body[w] IN
  /\ At(w, "check", t)
  /\ tx' = [tx EXCEPT ![w].seen = {Seen(w)}]
  /\ \/ /\ <<t, b.user, IdIn(b, t)>> \in Seen(w)
        /\ Goto(w, Checked(b, t))
        /\ UNCHANGED outcome
     \/ /\ <<t, b.user, IdIn(b, t)>> \notin Seen(w)
        /\ outcome' = [outcome EXCEPT ![w] = "forbidden"]
        /\ Goto(w, IF t = "goods" THEN OfferStage(b) ELSE AtCommit)
  /\ UNCHANGED body

\* Is the row with the given id linked to the user?
Check(w, t) ==
  LET b == body[w] IN
  /\ At(w, "check", t)
  /\ tx' = [tx EXCEPT ![w].seen = {Seen(w)}]
  /\ \/ /\ <<t, b.user, IdIn(b, t)>> \in Seen(w)
        /\ Goto(w, Checked(b, t))
        /\ UNCHANGED outcome
     \/ /\ <<t, b.user, IdIn(b, t)>> \notin Seen(w)
        /\ outcome' = [outcome EXCEPT ![w] = "forbidden"]
        /\ Goto(w, AtCommit)
  /\ UNCHANGED body

\* Columns that an INSERT needs are looked at first, and for a car those that
\* an UPDATE needs too.  goods_info has none.
Incomplete(w, op, t) ==
  \/ t = "car" /\ body[w].lacks = "car"
  \/ op = "insert" /\ t \in Offers /\ body[w].id = None /\ body[w].lacks = "offer"

RefuseIncomplete(w, op, t) == At(w, op, t) /\ Incomplete(w, op, t) /\ Refuse(w, "badRequest")

Update(w, t) ==
  LET b == body[w] IN
  /\ At(w, "update", t)
  /\ ~Incomplete(w, "update", t)
  /\ t \in Offers => b.lacks # "offer"
  /\ Writable(w, t, IdIn(b, t)) /\ ParentsReadable(w, t) /\ ParentsExist(w, t)
  /\ tx' = [tx EXCEPT ![w].row[t][IdIn(b, t)] = NewRow(w, t)]
  /\ Goto(w, Stored(b, t))
  /\ UNCHANGED <<body, outcome>>

Insert(w, t) ==
  LET b == body[w] IN
  /\ At(w, "insert", t)
  /\ ~Incomplete(w, "insert", t)
  /\ IdIn(b, t) = None
  /\ ParentsReadable(w, t) /\ ParentsExist(w, t)
  /\ \E i \in NewIds(t) :
       /\ tx' = [tx EXCEPT ![w].row[t][i] = NewRow(w, t)]
       /\ body' = [body EXCEPT ![w] = WithId(b, t, i)]
  /\ Goto(w, <<"link", t>>)
  /\ UNCHANGED outcome

Link(w, t) ==
  LET b == body[w] IN
  /\ At(w, "link", t)
  /\ tx' = [tx EXCEPT ![w].link = tx[w].link \cup {<<t, b.user, IdIn(b, t)>>}]
  /\ Goto(w, Stored(b, t))
  /\ UNCHANGED <<body, outcome>>

Commit(w) ==
  /\ pc[w] = AtCommit
  /\ Save(w)
  /\ Reply(w, Conclusion(w))

\* MySQL refuses an offer: a NOT NULL column is set to NULL, the id it is
\* inserted under exists, or a row it points to does not.
Unacceptable(w, op, t) ==
  \/ op = "update" /\ body[w].lacks = "offer"
  \/ op = "insert" /\ IdIn(body[w], t) # None
  \/ ParentsReadable(w, t) /\ ~ParentsExist(w, t)

\* Variant: the catch block does not roll back, and the session lives on.
RejectedStaysOpen(w, op, t) ==
  /\ At(w, op, t) /\ t \in Offers
  /\ ~Incomplete(w, op, t)
  /\ Unacceptable(w, op, t)
  /\ pc' = [pc EXCEPT ![w] = Idle]
  /\ body' = [body EXCEPT ![w] = NoBody]
  /\ resp' = [to |-> w, status |-> Conclusion(w)]
  /\ UNCHANGED <<tables, tx, outcome>>

\* The transaction function catches the error and rolls back.
Rejected(w, op, t) ==
  /\ At(w, op, t) /\ t \in Offers
  /\ ~Incomplete(w, op, t)
  /\ Unacceptable(w, op, t)
  /\ Reply(w, Conclusion(w))
  /\ UNCHANGED tables

-----------------------------------------------------------------------------
(* Failures, and the whole system *)

\* A statement fails for another reason.  If the rollback fails with it the
\* exception reaches optRequestTry, which leaves the status unset; a COMMIT
\* whose reply is lost may have taken effect.
Fails(w) ==
  /\ pc[w] # Idle
  /\ UNCHANGED tables \/ (pc[w] = AtCommit /\ Save(w))
  /\ \E status \in {Conclusion(w), "unset"} : Reply(w, status)

\* The process dies; MySQL rolls its transaction back.
Crash(w) ==
  /\ pc[w] # Idle
  /\ Stop(w)
  /\ resp' = Silent
  /\ UNCHANGED tables

Work(w) ==
  \/ \E t \in Table :
       \/ Check(w, t) \/ Update(w, t) \/ Insert(w, t) \/ Link(w, t)
       \/ \E op \in {"update", "insert"} : RefuseIncomplete(w, op, t) \/ Rejected(w, op, t)
  \/ Commit(w)

Next == \E w \in Workers : Work(w) \/ RejectBody(w) \/ Accept(w) \/ Fails(w) \/ Crash(w)

Spec == Init /\ [][Next]_vars

\* A handler is straight-line code; a statement that no lock holds up returns,
\* and InnoDB grants a lock to those that wait for it in turn.
FairSpec == Spec /\ \A w \in Workers : SF_vars(Work(w))

-----------------------------------------------------------------------------
(* Properties *)

TypeOK ==
  /\ row \in Rows
  /\ link \in Links
  /\ pc \in [Workers -> Labels]
  /\ body \in [Workers -> Request \cup {NoBody}]
  /\ tx \in [Workers -> [row: Rows, link: Links, seen: SUBSET Links]]
  /\ outcome \in [Workers -> Refusals \cup {"none"}]
  /\ resp \in [to: Workers \cup {None}, status: Refusals \cup {"none", "success", "unset"}]

Owned == INSTANCE OwnedRows

\* Whatever requests, failures and deaths interleave, the committed rows change
\* as OwnedRows says: new rows get their owner in the same step, only owners
\* rewrite, offers point to goods and cars of their owner or to preset goods.
RowsAreOwned == Owned!Spec

\* A request that is refused, at whatever statement, leaves both offer tables
\* alone, although the handler commits what it had written before the refusal.
RefusedRequestsKeepOffers ==
  [][resp'.status \in Refusals => \A t \in Offers : row'[t] = row[t]]_vars

\* Two requests that update the same rows never wait for each other: every
\* transaction takes its locks in the order car, goods, offer.
EveryRequestAnswered == \A w \in Workers : pc[w] # Idle ~> pc[w] = Idle
=============================================================================
