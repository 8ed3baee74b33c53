------------------------- MODULE MCTransactionRunner -------------------------
(***************************************************************************)
(* Runs for model checking TransactionRunner: a function and a vector that  *)
(* write two rows in opposite orders, so that they can wait for each other; *)
(* a function that throws half-way; a single statement.                     *)
(***************************************************************************)
EXTENDS TransactionRunner

CONSTANTS p1, p2, r1, r2

Calls(kind, sqls) == {[kind |-> kind, sql |-> s] : s \in sqls}

EveryKind ==
  Calls("single", {<<r1>>})
    \cup Calls("function", {<<r1, r2>>, <<r2, Stop>>})
    \cup Calls("vector", {<<r2, r1>>})
=============================================================================
