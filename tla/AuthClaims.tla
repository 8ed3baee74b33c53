----------------------------- MODULE AuthClaims -----------------------------
(***************************************************************************)
(* What comments, log messages and documents say of the login and verify   *)
(* code handlers, and the handlers do not do.  Each property has a run in  *)
(* which TLC finds it violated.                                            *)
(***************************************************************************)
EXTENDS MCAuth

\* "without a login, login information has to be created and the token
\* returned" (src/net/api/authenticate.cpp:97-99, of login): the token in a
\* successful answer is the token of a session.
LoginTokenIsStored ==
  [][\A w \in Workers, t \in Token :
       resp'.to = w /\ resp'.token = t => SessionsWith(t)' # {}]_vars

\* "abnormal number of tel, one row expected" (src/control/db_proxy.cpp:47):
\* a number has at most one row.
OneRowPerNumber == \A n \in Number : Cardinality(TelsWith(n)) <= 1
=============================================================================
