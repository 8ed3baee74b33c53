------------------------------ MODULE MCTravel ------------------------------
(***************************************************************************)
(* Databases for model checking Travel.  Preset goods: p1 is in the table, *)
(* p2 is the id in the preset range that no script inserts.                *)
(***************************************************************************)
EXTENDS TravelInvariant, TLC

CONSTANTS ann, bob, p1, p2, g1, g2, k1, k2, o1, o2, w1, w2

Empty == [row |-> [NoRows EXCEPT !["goods"][p1] = [by |-> System, goods |-> None, car |-> None]],
          link |-> {}]

OfUser(u, goods, car) == [by |-> u, goods |-> goods, car |-> car]

\* ann has goods, and with find_customers in use a car; every offer table has
\* an offer of hers that points to them.
Offered ==
  [row |-> [t \in Table |->
              IF t = "goods" THEN [Empty.row[t] EXCEPT ![g1] = OfUser(ann, None, None)]
              ELSE IF t = "car" THEN [Empty.row[t] EXCEPT ![k1] = OfUser(ann, None, None)]
              ELSE [Empty.row[t] EXCEPT ![o1] =
                      OfUser(ann, g1, IF t = "findCustomers" THEN k1 ELSE None)]],
   link |-> {<<"goods", ann, g1>>, <<"car", ann, k1>>} \cup {<<t, ann, o1>> : t \in Offers}]

OnlyOffered   == {Offered}
OnlyEmpty     == {Empty}

\* Nothing in the empty database tells users, cars or new goods apart.
Symmetry ==
  Permutations(Workers) \cup Permutations(User) \cup Permutations(CarId)
    \cup Permutations(OfferId) \cup Permutations(GoodsId \ Preset)
=============================================================================
