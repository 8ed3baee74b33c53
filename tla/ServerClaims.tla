---------------------------- MODULE ServerClaims ----------------------------
(***************************************************************************)
(* What the names and comments of the routes say, and the dispatcher does  *)
(* not do.  TLC finds the property violated.                               *)
(***************************************************************************)
EXTENDS MCServer

Searches == {"postSearchXxFindCar", "postSearchCarFindXx"}

\* "search: someone looks for a car" (src/net/api/authenticate.h:23 and :85,
\* src/net/api/authenticate.cpp:152) and its counterpart for customers: a
\* search that the gate lets in is served by the handler of that search.
SearchesAreServed == \A i \in Id :
  served[i] # None /\ content[i].for \in Searches => served[i] = content[i].for
=============================================================================
