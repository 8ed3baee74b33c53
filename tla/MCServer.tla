------------------------------ MODULE MCServer ------------------------------
(***************************************************************************)
(* Runs for model checking Server: one request of every kind the gate and   *)
(* the dispatcher tell apart.                                                *)
(***************************************************************************)
EXTENDS Server

CONSTANTS i1, i2

Right == [json |-> TRUE, zone |-> TRUE, token |-> "legal", for |-> "postXxFindCar"]

Kinds ==
  {[Right EXCEPT !.for = h] : h \in Handler \cup {"other"}}
    \cup {[Right EXCEPT !.token = t, !.for = h] :
            t \in {"none", "illegal"}, h \in {"login", "postXxFindCar"}}
    \cup {[Right EXCEPT !.json = FALSE], [Right EXCEPT !.zone = FALSE]}

=============================================================================
