--------------------------- MODULE RowTextClaims ---------------------------
(***************************************************************************)
(* What a comment in DbManager says its DELETE does, and the server does   *)
(* not read in it.  TLC finds the property violated.                       *)
(***************************************************************************)
EXTENDS MCRowText

\* "DELETE FROM user_tel WHERE (user_id, telephone_id) IN ( ('1', '1') );"
\* (src/db/sql/db_manager.h:654-655, of delSqlByPkDoubleVector), "delete
\* the expired sessions" (src/control/db_proxy.cpp:238, of the login that
\* executes such a text): the text for models that were read deletes their rows.
DeletesMeanTheirCalls == \A p \in Process : \A T \in Tables(models[p]) :
  LET s == SetToSeq(T)
  IN  Read(DelSqlByPkDoubleVector([i \in DOMAIN s |-> s[i].key]), Width(T)) =
        [op |-> "delete", rows |-> {[key |-> m.key] : m \in T}]
=============================================================================
