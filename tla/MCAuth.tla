------------------------------ MODULE MCAuth -------------------------------
(***************************************************************************)
(* Databases and bounds for model checking Auth.  One number, n1, with an  *)
(* account in some databases and without a row in others; sessions that     *)
(* expire after one tick; a code that lives for no tick or for one.         *)
(***************************************************************************)
EXTENDS AuthInvariant, TLC

CONSTANTS i1, i2, i3, n1, c1, web, s1, s2, t1, t2, t3, t4, u1, u2, u3, u4, w1, w2

NoTels     == [i \in TelId |-> None]
NoSessions == [s \in SessionId |-> None]
NoIssued   == [t \in Token |-> None]

Tel(n, c, at)     == [number |-> n, code |-> c, at |-> at]
Ses(client, t)    == [client |-> client, token |-> t, maxAge |-> 1, at |-> 0]

EmptyDb ==
  [telephone |-> NoTels, user |-> {}, userTel |-> {}, session |-> NoSessions,
   userSession |-> {}, issued |-> NoIssued]

\* n1 is the login number of u1 and a contact number of u2; both have
\* a web session.
TwoUsers ==
  [telephone |-> [NoTels EXCEPT ![i1] = Tel(n1, c1, 0)],
   user |-> {u1, u2},
   userTel |-> {<<u1, i1, "login">>, <<u2, i1, "connect">>},
   session |-> [NoSessions EXCEPT ![s1] = Ses(web, t1), ![s2] = Ses(web, t2)],
   userSession |-> {<<u1, s1>>, <<u2, s2>>},
   issued |-> [NoIssued EXCEPT ![t1] = u1, ![t2] = u2]]

\* u1 is not logged in any more; u2 is.
LoggedOut == [TwoUsers EXCEPT !.session[s1] = None, !.userSession = {<<u2, s2>>}]

\* Nobody has sent n1 yet.
NewNumber == [TwoUsers EXCEPT !.telephone = NoTels, !.userTel = {}]

\* n1 never had a code, and its account is soft-deleted but still has a session.
DeletedUser ==
  [TwoUsers EXCEPT !.user = {u2}, !.telephone = [NoTels EXCEPT ![i1] = Tel(n1, NoCode, NoTime)]]

\* n1 is the login number of both users.
SharedPhone ==
  [TwoUsers EXCEPT !.userTel = {<<u1, i1, "login">>, <<u2, i1, "login">>}]

\* u1 has two web sessions.
TwoSessions ==
  [TwoUsers EXCEPT !.userSession = {<<u1, s1>>, <<u1, s2>>},
                   !.issued = [NoIssued EXCEPT ![t1] = u1, ![t2] = u1]]

PairSeeds == {NewNumber, TwoUsers, LoggedOut, DeletedUser}
AllSeeds  == {EmptyDb, TwoUsers, DeletedUser, SharedPhone, TwoSessions}

\* Ids and tokens that no seed mentions are interchangeable.
Symmetry == Permutations({w1, w2}) \cup Permutations({t3, t4}) \cup Permutations({u3, u4})
              \cup Permutations({i2, i3})
===========================================================================
