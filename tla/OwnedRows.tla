----------------------------- MODULE OwnedRows -----------------------------
(***************************************************************************)
(* What the travel handlers promise about their tables: a request of user  *)
(* u changes the committed rows in one step, and in that step every row it  *)
(* creates becomes u's, every row it rewrites is u's already, and every     *)
(* offer it writes points to goods and cars that are u's or, for goods,     *)
(* in the preset range.  Nothing is deleted and nothing changes hands.      *)
(***************************************************************************)
CONSTANTS Table, Offers, Id, User, Preset, None

VARIABLES
  row,   \* row[t][i]: the row with id i of table t, or None
  link   \* <<t, u, i>>: row i of table t belongs to user u

Exists(t, i) == row[t][i] # None

Init ==
  \A t \in Table, u, v \in User, i \in Id :
    /\ <<t, u, i>> \in link => Exists(t, i)
    /\ <<t, u, i>> \in link /\ <<t, v, i>> \in link => u = v

Created(u) == {x \in Table \X {u} \X Id : ~Exists(x[1], x[3]) /\ row'[x[1]][x[3]] # None}

Write(u) ==
  /\ link' = link \cup Created(u)
  /\ \A t \in Table, i \in Id : row'[t][i] # row[t][i] =>
       /\ row'[t][i] # None
       /\ row'[t][i].by = u
       /\ <<t, u, i>> \in link'
       /\ t \in Offers =>
            \/ row'[t][i].goods \in Preset
            \/ <<"goods", u, row'[t][i].goods>> \in link'
       /\ t = "findCustomers" => <<"car", u, row'[t][i].car>> \in link'

Spec == Init /\ [][\E u \in User : Write(u)]_<<row, link>>
=============================================================================
