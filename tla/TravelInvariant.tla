-------------------------- MODULE TravelInvariant --------------------------
(***************************************************************************)
(* The inductive invariant of Travel.  RowsAreOwned speaks of the moment a  *)
(* transaction commits; what makes it true is what the transaction has      *)
(* collected by then, statement by statement.                               *)
(***************************************************************************)
EXTENDS Travel

\* User u of request w owns row i of table t, or will when w commits.
Mine(w, t, i) == <<t, body[w].user, i>> \in link \cup tx[w].link

\* A label names a part that the body has.
LabelOK(w) ==
  \/ pc[w] = Idle /\ body[w] = NoBody /\ tx[w] = NoTx /\ outcome[w] = "none"
  \/ pc[w] = AtCommit /\ body[w] \in Request
  \/ /\ body[w] \in Request
     /\ \E op \in {"check", "update", "insert", "link"},
           t \in {"goods", "car", body[w].offer} :
          pc[w] = <<op, t>> /\ (t = "car" => body[w].offer = "findCustomers")

\* The rows written so far are the user's, or are new and about to be linked,
\* and the offer among them points to rows of the user or preset goods.
PendingOK(w) ==
  \A t \in Table, i \in Id : Written(w, t, i) =>
    /\ tx[w].row[t][i].by = body[w].user
    /\ Mine(w, t, i) \/ (At(w, "link", t) /\ i = IdIn(body[w], t))
    /\ t \in Offers => \/ tx[w].row[t][i].goods \in Preset
                       \/ Mine(w, "goods", tx[w].row[t][i].goods)
    /\ t = "findCustomers" => Mine(w, "car", tx[w].row[t][i].car)

\* Only rows that w itself has created are linked by w.
LinksOK(w) ==
  \A t \in Table, u \in User, i \in Id : <<t, u, i>> \in tx[w].link =>
    u = body[w].user /\ Written(w, t, i) /\ row[t][i] = None

\* What the handler knows at a label.
KnowsOK(w) ==
  /\ UNION tx[w].seen \subseteq link
  /\ pc[w] \in {"check", "update", "insert", "link"} \X {"goods", "car"} /\ body[w].id # None =>
       <<body[w].offer, body[w].user, body[w].id>> \in link
  /\ \A t \in Table :
       /\ At(w, "update", t) => <<t, body[w].user, IdIn(body[w], t)>> \in link
       /\ At(w, "link", t) => /\ IdIn(body[w], t) \in Id
                              /\ Written(w, t, IdIn(body[w], t))
                              /\ row[t][IdIn(body[w], t)] = None

\* The parts that were due before a label are the user's.
PartsOK(w) ==
  /\ \A t \in Offers : pc[w] \in {<<"update", t>>, <<"insert", t>>, <<"link", t>>} =>
       body[w].goods \in Preset \/ Mine(w, "goods", body[w].goods)
  /\ \A t \in {"goods"} \cup Offers, op \in {"check", "update", "insert", "link"} :
       pc[w] = <<op, t>> /\ body[w].offer = "findCustomers" /\ (op = "check" => t = "goods") =>
         Mine(w, "car", body[w].car)

\* Offers are written last, and by no request that has been refused.
OffersLastOK(w) ==
  /\ outcome[w] # "none" => pc[w] = AtCommit
  /\ \A t \in Offers, i \in Id : Written(w, t, i) =>
       outcome[w] = "none" /\ pc[w] \in {AtCommit} \cup ({"link"} \X Offers)

WorkerOK(w) ==
  /\ LabelOK(w) /\ PendingOK(w) /\ LinksOK(w)
  /\ KnowsOK(w) /\ PartsOK(w) /\ OffersLastOK(w)

\* Rows and links that are committed agree, and a row has one owner.
CommittedOK ==
  \A t \in Table, u, v \in User, i \in Id :
    /\ <<t, u, i>> \in link => row[t][i] # None
    /\ <<t, u, i>> \in link /\ <<t, v, i>> \in link => u = v

\* No row is in two open transactions.
ApartOK ==
  \A w, v \in Workers, t \in Table, i \in Id :
    Written(w, t, i) /\ Written(v, t, i) => w = v

TravelIInv ==
  /\ TypeOK /\ CommittedOK /\ ApartOK
  /\ \A w \in Workers : WorkerOK(w)
=============================================================================
