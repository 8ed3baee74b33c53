---------------------------- MODULE VerifyCodes ----------------------------
(***************************************************************************)
(* What /request_verify_code promises when one process serves at a time: a *)
(* number has one current code; a code is replaced only if it had outlived *)
(* its validity when the replacement was made; no number loses its code.   *)
(***************************************************************************)
EXTENDS Integers

CONSTANTS Number, Code, NoCode, NoTime, VcLife, None

VARIABLES current,   \* current[n]: [code, at], or None for an unknown number
          time

vars == <<current, time>>

Expired(entry, t) == entry.at = NoTime \/ t - entry.at > VcLife

\* A code takes effect at the earliest when it was made, and maybe later.
Made(t) == [code : Code, at : {t}]

Init ==
  /\ current \in [Number -> [code : Code \cup {NoCode}, at : Nat \cup {NoTime}] \cup {None}]
  /\ time = 0

Enrol(n) ==
  /\ current[n] = None
  /\ \E t \in 0..time : \E entry \in Made(t) : current' = [current EXCEPT ![n] = entry]
  /\ UNCHANGED time

Renew(n) ==
  /\ current[n] # None
  /\ \E t \in 0..time :
       /\ Expired(current[n], t)
       /\ \E entry \in Made(t) : current' = [current EXCEPT ![n] = entry]
  /\ UNCHANGED time

Advance == time' = time + 1 /\ UNCHANGED current

Next == Advance \/ \E n \in Number : Enrol(n) \/ Renew(n)

Spec == Init /\ [][Next]_vars
=============================================================================
