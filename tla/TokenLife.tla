----------------------------- MODULE TokenLife -----------------------------
(***************************************************************************)
(* What the login handler and the token gate promise about a token.  It is *)
(* drawn for one user, works from the moment a login has stored it until a *)
(* login of the same user stores its successor, and never works again: a   *)
(* token that was replaced, or whose login failed, stays dead, and no      *)
(* session is ever left without a live token.                              *)
(***************************************************************************)
CONSTANTS Token, User, None

VARIABLES
  phase,   \* phase[t]: how far token t has come
  holder   \* holder[t]: the user t was drawn for, or None

vars == <<phase, holder>>

Init ==
  /\ phase \in [Token -> {"undrawn", "live", "dead"}]
  /\ holder \in [Token -> User \cup {None}]
  /\ \A t \in Token : phase[t] # "undrawn" <=> holder[t] # None

Draw(t, u) ==
  /\ phase[t] = "undrawn"
  /\ phase' = [phase EXCEPT ![t] = "pending"]
  /\ holder' = [holder EXCEPT ![t] = u]

Replace(old, new) ==
  /\ phase[old] = "live" /\ phase[new] = "pending"
  /\ holder[old] = holder[new]
  /\ phase' = [phase EXCEPT ![old] = "dead", ![new] = "live"]
  /\ UNCHANGED holder

Abandon(t) ==
  /\ phase[t] = "pending"
  /\ phase' = [phase EXCEPT ![t] = "dead"]
  /\ UNCHANGED holder

Next ==
  \/ \E t \in Token, u \in User : Draw(t, u)
  \/ \E old, new \in Token : Replace(old, new)
  \/ \E t \in Token : Abandon(t)

Spec == Init /\ [][Next]_vars

\* A token that stopped working, or never worked, never works again.
StayDead == \A t \in Token : phase[t] = "dead" => phase'[t] = "dead"
DeadStaysDead == [][StayDead]_vars
=============================================================================
