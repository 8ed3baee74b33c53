------------------------------ MODULE RowTimes ------------------------------
(***************************************************************************)
(* What DbManager's statements promise about the rows of a table, and what  *)
(* the program may conclude from their times.  A row keeps when it was      *)
(* created and when it was last renewed (vc_update_time, token_update_time, *)
(* update_time).  A handler reads rows, with every time moved by the        *)
(* decoder, judges whether what they carry has expired, and writes them     *)
(* back, renewed.  Rows are never deleted.                                  *)
(***************************************************************************)
EXTENDS RowClock

VARIABLES
  real,    \* the time
  late,    \* how far the system clock is behind it
  rows,    \* the stored rows
  copies   \* the rows each handler has read

vars == <<real, late, rows, copies>>

Now == real - late

\* born and since are history: the clock when the row was inserted, and the
\* time when it was last renewed.
Row  == [create : Nat, renewed : Nat, born : Nat, since : Nat]
Copy == [key : Key, create : Nat, renewed : Nat, since : Nat]

TypeOK ==
  /\ real \in Instants
  /\ late \in {0, Back}
  /\ DOMAIN rows \subseteq Key
  /\ rows \in [DOMAIN rows -> Row]
  /\ \A p \in Process : copies[p] \subseteq Copy

Init ==
  /\ real \in Instants
  /\ late = 0
  /\ rows = [k \in {} |-> 0]
  /\ copies = [p \in Process |-> {}]

Advance ==
  /\ real' \in Instants
  /\ real' > real
  /\ UNCHANGED <<late, rows, copies>>

SetClockBack ==
  /\ late = 0
  /\ late' = Back
  /\ UNCHANGED <<real, rows, copies>>

\* A handler reads rows of one table.
Query(p) == \E K \in SUBSET DOMAIN rows :
  /\ copies[p] = {}
  /\ copies' = [copies EXCEPT ![p] =
       {[key |-> k, create |-> Moved(rows[k].create),
         renewed |-> Moved(rows[k].renewed), since |-> rows[k].since] : k \in K}]
  /\ UNCHANGED <<real, late, rows>>

Forget(p) == copies' = [copies EXCEPT ![p] = {}]

Insert == \E K \in SUBSET (Key \ DOMAIN rows) :
  /\ rows' = [k \in DOMAIN rows \cup K |->
       IF k \in K THEN [create |-> Now, renewed |-> Now, born |-> Now, since |-> real]
       ELSE rows[k]]
  /\ UNCHANGED <<real, late, copies>>

\* The row of a copy is renewed; its creation time is written back, or kept.
Renewed(row, c, kept) ==
  [row EXCEPT !.create = IF kept THEN @ ELSE c.create, !.renewed = Now, !.since = real]

\* update, and updateSingleModelSql: one row.
Update(p) == \E c \in copies[p], kept \in BOOLEAN :
  /\ rows' = [rows EXCEPT ![c.key] = Renewed(@, c, kept)]
  /\ Forget(p)
  /\ UNCHANGED <<real, late>>

\* insertOrUpdate: every row that was read.
Upsert(p) ==
  /\ rows' = [k \in DOMAIN rows |->
       IF \E c \in copies[p] : c.key = k
       THEN Renewed(rows[k], CHOOSE c \in copies[p] : c.key = k, FALSE)
       ELSE rows[k]]
  /\ Forget(p)
  /\ UNCHANGED <<real, late>>

\* A statement that the server refuses, or a handler that writes nothing.
GiveUp(p) == Forget(p) /\ UNCHANGED <<real, late, rows>>

Next ==
  \/ Advance \/ SetClockBack \/ Insert
  \/ \E p \in Process : Query(p) \/ Update(p) \/ Upsert(p) \/ GiveUp(p)

Spec == Init /\ [][Next]_vars

-----------------------------------------------------------------------------
(* Properties *)

\* However often a row is read and written back, by however many handlers at
\* once, its creation time moves at most once, and stays within its second.
TimesMoveAtMostOnce == \A k \in DOMAIN rows :
  /\ rows[k].create \in {rows[k].born, Moved(rows[k].born)}
  /\ rows[k].create \div Second = rows[k].born \div Second

\* Telephone::vcIsExpired and Session::tokenIsExpired: an age below zero, of a
\* time that was moved or that a later setting of the clock has put into the
\* future, does not expire.
Expired(c) == Now - c.renewed > Life

\* Nothing expires early, and nothing lives longer than its life by more than
\* the second the decoder can add and what the clock was set back.
ExpiryIsBarelyLate == \A p \in Process : \A c \in copies[p] :
  /\ Expired(c) => real - c.since > Life
  /\ real - c.since >= Life + Second + Back => Expired(c)

-----------------------------------------------------------------------------
(* The inductive invariant *)

\* t is what a clock, no more behind than it is now, showed at the time since.
ClockShowed(t, since) == \E l \in {0, Back} : l <= late /\ t = since - l

RowInv(row) ==
  /\ row.create \in {row.born, Moved(row.born)}
  /\ row.since <= real
  /\ row.since >= Back
  /\ ClockShowed(row.renewed, row.since)

CopyInv(c) ==
  /\ c.key \in DOMAIN rows
  /\ c.create = Moved(rows[c.key].born)
  /\ c.since <= real
  /\ c.since >= Back
  /\ \E t \in Nat : c.renewed = Moved(t) /\ ClockShowed(t, c.since)

IInv ==
  /\ TypeOK
  /\ \A k \in DOMAIN rows : RowInv(rows[k])
  /\ \A p \in Process : \A c \in copies[p] : CopyInv(c)
=============================================================================
