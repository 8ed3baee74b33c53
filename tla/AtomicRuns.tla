----------------------------- MODULE AtomicRuns -----------------------------
(***************************************************************************)
(* What the three ways to run SQL (DbManager::executeSql and the two        *)
(* executeTransactionSql) promise together, whatever fails on the way: a    *)
(* run stores all of its statements in one step or none, at most once, and  *)
(* a run over a vector never stores anything.                               *)
(***************************************************************************)
EXTENDS Sequences

CONSTANTS
  Row,    \* rows of the database
  None,   \* no run
  Stop    \* the item of a run that ends it: an exception, or an empty text

VARIABLES
  stored,     \* the run that wrote each row's committed value
  committed   \* the runs whose statements are committed

vars == <<stored, committed>>

\* What the statements of run n write.
Written(n) == {n.call.sql[i] : i \in DOMAIN n.call.sql}

\* Run n gets to the end of its statements, and ends with a commit.
Storable(n) == n.call.kind # "vector" /\ Stop \notin Written(n)

Init == stored = [r \in Row |-> None] /\ committed = {}

Store(n) ==
  /\ n \notin committed
  /\ Storable(n)
  /\ stored' = [r \in Row |-> IF r \in Written(n) THEN n ELSE stored[r]]
  /\ committed' = committed \cup {n}

Next == \E n \in committed' : Store(n)

Spec == Init /\ [][Next]_vars
=============================================================================
