------------------------------ MODULE RowClock ------------------------------
(***************************************************************************)
(* Times of rows, in microseconds, and what one trip to the program and     *)
(* back does to them.                                                       *)
(***************************************************************************)
EXTENDS Integers, Sequences

CONSTANTS
  Process,   \* handlers, each with the rows it has read
  Key,       \* primary keys: sequences, one column long or more
  Instants,  \* readings of a clock that is always right
  Back,      \* how far the system clock is set back, at most once
  Life       \* how long a code or a token lives

ASSUME ClockAssumption ==
  /\ Back \in Nat /\ Life \in Nat
  /\ \A t \in Instants : t \in Nat /\ t >= Back

Second == 1000000

\* The first decimals of a number of microseconds are the tenths of a second
\* if it is printed without leading zeros.
Scale(micro) ==
  IF micro < 10 THEN 100000
  ELSE IF micro < 100 THEN 10000
  ELSE IF micro < 1000 THEN 1000
  ELSE IF micro < 10000 THEN 100
  ELSE IF micro < 100000 THEN 10
  ELSE 1

\* What a stored time is taken for once the decoder has printed it.
Moved(t) == (t \div Second) * Second + (t % Second) * Scale(t % Second)
=============================================================================
