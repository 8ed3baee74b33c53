----------------------------- MODULE MCRowText -----------------------------
(***************************************************************************)
(* Runs for model checking RowText: two handlers, a table with a key of one  *)
(* column and up to two rows, one with a key of two, and times whose        *)
(* microseconds have one, two and six digits.                                *)
(***************************************************************************)
EXTENDS RowText

CONSTANTS p1, p2, k1, k2

Keys == {<<k1>>, <<k2>>, <<k1, k2>>}

TheInstants == {1000007, 2000070, 5999999}

Handlers == Permutations({p1, p2})
=============================================================================
