---------------------------- MODULE ServerProofs ----------------------------
(***************************************************************************)
(* Server: what is stored, lost and called, for any set of requests.        *)
(***************************************************************************)
EXTENDS Server, TLAPS

\* Every state of the server satisfies the inductive invariant: types, one
\* request in the loop, and how far each request has come.
LEMMA InitInv == Init => ServerIInv
  <1>1. SUFFICES ASSUME Init PROVE ServerIInv
    OBVIOUS
  <1>2. TypeOK
    BY <1>1 DEF Init, TypeOK, Unset, Response, Steps, Status
  <1>3. InLoop = {}
    BY <1>1 DEF Init, InLoop, Busy
  <1>4. ASSUME NEW i \in Id PROVE Progress(i)
    BY <1>1 DEF Init, Progress
  <1> QED
    BY <1>2, <1>3, <1>4 DEF ServerIInv

\* A step of a request i that goes on inside the loop, or leaves it, leaves
\* what is known of the others alone.
LEMMA Moves ==
  ASSUME ServerIInv, NEW i \in Id, NEW s \in Steps, alive' = alive, TypeOK',
         step' = [step EXCEPT ![i] = s],
         s \in Busy => alive /\ InLoop \subseteq {i},
         \A j \in Id : j # i => /\ content'[j] = content[j]
                                /\ served'[j] = served[j]
                                /\ (j \in stored') = (j \in stored),
         Progress(i)'
  PROVE  ServerIInv'
  <1>1. \A j \in Id : j # i => step'[j] = step[j]
    BY DEF ServerIInv, TypeOK
  <1>2. step'[i] = s
    BY DEF ServerIInv, TypeOK
  <1>3. ASSUME NEW j \in Id PROVE Progress(j)'
    <2>1. CASE j = i
      BY <2>1
    <2>2. CASE j # i
      BY <1>1, <2>2 DEF ServerIInv, Progress
    <2> QED
      BY <2>1, <2>2
  <1>4. \A j, k \in InLoop' : j = k
    BY <1>1, <1>2 DEF ServerIInv, InLoop
  <1>5. (alive \/ InLoop = {})'
    BY <1>1, <1>2 DEF ServerIInv, InLoop
  <1> QED
    BY <1>3, <1>4, <1>5 DEF ServerIInv

\* A response is drafted with a status, and labelled or not.
LEMMA DraftTyped ==
  ASSUME TypeOK, NEW i \in Id, NEW status \in Status, NEW b \in BOOLEAN,
         draft' = [draft EXCEPT ![i] = [status |-> status, headers |-> b]]
  PROVE  draft' \in [Id -> Response]
  BY DEF TypeOK, Response

LEMMA DraftedTyped ==
  ASSUME TypeOK, NEW i \in Id, NEW status \in Status, Drafted(i, status)
  PROVE  draft' \in [Id -> Response]
  <1> DEFINE no == FALSE
  <1>1. no \in BOOLEAN /\ draft' = [draft EXCEPT ![i] = [status |-> status, headers |-> no]]
    BY DEF Drafted
  <1> HIDE DEF no
  <1> QED
    BY <1>1, DraftTyped

LEMMA EndedTyped ==
  ASSUME TypeOK, NEW i \in Id, NEW status \in Status,
         Ended(i, status, TRUE) \/ Ended(i, status, FALSE)
  PROVE  draft' \in [Id -> Response]
  <1> DEFINE no == FALSE  yes == TRUE
  <1>1. /\ no \in BOOLEAN /\ yes \in BOOLEAN
        /\ \/ draft' = [draft EXCEPT ![i] = [status |-> status, headers |-> no]]
           \/ draft' = [draft EXCEPT ![i] = [status |-> status, headers |-> yes]]
    BY DEF Ended
  <1> HIDE DEF no, yes
  <1> QED
    BY <1>1, DraftTyped

\* The first handler of a path is a handler.
LEMMA CalledHandler ==
  ASSUME NEW c \in Content, NEW h, Called(c, h)
  PROVE  h \in Handler
  BY ContentAssumption DEF Called, Order, Handler

LEMMA NextInv == ServerIInv /\ [Next]_vars => ServerIInv'
  <1> SUFFICES ASSUME ServerIInv, [Next]_vars PROVE ServerIInv'
    OBVIOUS
  <1>1. CASE UNCHANGED vars
    BY <1>1 DEF ServerIInv, TypeOK, InLoop, Progress, vars
  <1>2. CASE Restart
    BY <1>2 DEF Restart, ServerIInv, TypeOK, InLoop, Progress
  <1>3. ASSUME NEW i \in Id, Arrive(i) PROVE ServerIInv'
    <2>1. PICK c \in Content : content' = [content EXCEPT ![i] = c]
      BY <1>3 DEF Arrive
    <2>2. TypeOK'
      BY <1>3, <2>1 DEF Arrive, Goto, ServerIInv, TypeOK, Steps
    <2>3. Progress(i)'
      BY <1>3, <2>1 DEF Arrive, Goto, ServerIInv, TypeOK, Progress
    <2> QED
      BY <1>3, <2>1, <2>2, <2>3, Moves DEF Arrive, Goto, Steps, Busy, ServerIInv, TypeOK
  <1>4. ASSUME NEW i \in Id, Take(i) PROVE ServerIInv'
    <2>1. PICK s \in {"gate", "reply"} :
            /\ step' = [step EXCEPT ![i] = s]
            /\ s = "gate" => content[i].json
      BY <1>4 DEF Take, Converted, Drafted, Goto
    <2>2. TypeOK'
      <3>1. draft' \in [Id -> Response]
        BY <1>4, DraftedTyped DEF Take, Converted, ServerIInv, TypeOK, Status
      <3> QED
        BY <1>4, <2>1, <3>1 DEF Take, Converted, ServerIInv, TypeOK, Steps, Busy
    <2>3. Progress(i)'
      BY <1>4, <2>1 DEF Take, Converted, ServerIInv, TypeOK, Progress
    <2> QED
      BY <1>4, <2>1, <2>2, <2>3, Moves DEF Take, Converted, Steps, Busy
  <1>5. ASSUME NEW i \in Id, Gate(i) PROVE ServerIInv'
    <2>1. PICK s \in {"dispatch", "reply"} :
            /\ step' = [step EXCEPT ![i] = s]
            /\ s = "dispatch" => Admitted(content[i])
      BY <1>5 DEF Gate, Drafted, Goto
    <2>2. TypeOK'
      <3>1. Refusal(content[i]) \in Status /\ "unset" \in Status
        BY DEF Refusal, Status
      <3>2. draft' \in [Id -> Response]
        BY <1>5, <3>1, DraftedTyped DEF Gate, ServerIInv, TypeOK
      <3> QED
        BY <1>5, <2>1, <3>2 DEF Gate, ServerIInv, TypeOK, Steps, Busy
    <2>3. Progress(i)'
      BY <1>5, <2>1 DEF Gate, ServerIInv, TypeOK, Progress, Admitted
    <2>4. InLoop \subseteq {i}
      BY <1>5 DEF Gate, ServerIInv, InLoop, Busy
    <2> QED
      BY <1>5, <2>1, <2>2, <2>3, <2>4, Moves DEF Gate, Steps, Busy
  <1>6. ASSUME NEW i \in Id, Serve(i) PROVE ServerIInv'
    <2>1. PICK h \in Handler :
            /\ Called(content[i], h)
            /\ served' = [served EXCEPT ![i] = h]
            /\ IF h = "inputPositionTip" THEN AskMap(i) ELSE Work(i, h)
      BY <1>6 DEF Serve
    <2>2. PICK s \in {"map", "reply"} :
            /\ step' = [step EXCEPT ![i] = s]
            /\ s = "map" => UNCHANGED stored
            /\ stored' = stored \/ (h \in Stores /\ stored' = stored \cup {i} /\ s = "reply")
      BY <2>1 DEF AskMap, Work, Ended, Goto
    <2>3. TypeOK'
      <3>1. /\ "badRequest" \in Status /\ "unset" \in Status
            /\ \A status \in Status, b \in BOOLEAN : Ended(i, status, b) =>
                 Ended(i, status, TRUE) \/ Ended(i, status, FALSE)
        BY DEF Status
      <3>2. draft' \in [Id -> Response]
        <4>1. \/ UNCHANGED draft
              \/ \E status \in Status :
                   Ended(i, status, TRUE) \/ Ended(i, status, FALSE)
          BY <2>1, <3>1 DEF AskMap, Work
        <4> QED
          BY <4>1, EndedTyped DEF ServerIInv, TypeOK
      <3> QED
        BY <1>6, <2>1, <2>2, <3>2 DEF Serve, ServerIInv, TypeOK, Steps, Busy
    <2>4. content[i].json /\ Admitted(content[i]) /\ content[i] \in Content
      BY <1>6 DEF Serve, ServerIInv, Progress
    <2>5. i \notin stored
      BY <1>6 DEF Serve, ServerIInv, Progress
    <2>6. Progress(i)'
      <3>1. step'[i] = s /\ served'[i] = h /\ content' = content
        BY <1>6, <2>1, <2>2 DEF Serve, ServerIInv, TypeOK
      <3> QED
        BY <2>1, <2>2, <2>4, <2>5, <3>1 DEF Progress, Admitted
    <2>7. InLoop \subseteq {i}
      BY <1>6 DEF Serve, ServerIInv, InLoop, Busy
    <2>8. \A j \in Id : j # i => /\ content'[j] = content[j]
                                 /\ served'[j] = served[j]
                                 /\ (j \in stored') = (j \in stored)
      BY <1>6, <2>1, <2>2 DEF Serve, ServerIInv, TypeOK
    <2> QED
      BY <1>6, <2>2, <2>3, <2>6, <2>7, <2>8, Moves DEF Serve, Steps, Busy
  <1>7. ASSUME NEW i \in Id, UnknownRequest(i) \/ MapAnswers(i) PROVE ServerIInv'
    <2>1. /\ alive /\ step[i] \in {"dispatch", "map"}
          /\ step' = [step EXCEPT ![i] = "reply"]
          /\ UNCHANGED <<alive, content, served, stored>>
      BY <1>7 DEF UnknownRequest, MapAnswers, Ended, Goto
    <2>2. TypeOK'
      <3>1. draft' \in [Id -> Response]
        BY <1>7, EndedTyped DEF UnknownRequest, MapAnswers, ServerIInv, Status
      <3> QED
        BY <2>1, <3>1 DEF ServerIInv, TypeOK, Steps, Busy
    <2>3. Progress(i)'
      BY <2>1 DEF ServerIInv, TypeOK, Progress
    <2>4. InLoop \subseteq {i}
      BY <2>1 DEF ServerIInv, InLoop, Busy
    <2> QED
      BY <2>1, <2>2, <2>3, <2>4, Moves DEF Steps, Busy
  <1>8. ASSUME NEW i \in Id, Reply(i) PROVE ServerIInv'
    <2>1. TypeOK'
      BY <1>8 DEF Reply, Goto, ServerIInv, TypeOK, Steps
    <2>2. Progress(i)'
      BY <1>8 DEF Reply, Goto, ServerIInv, TypeOK, Progress
    <2> QED
      BY <1>8, <2>1, <2>2, Moves DEF Reply, Goto, Steps, Busy
  <1>9. ASSUME NEW i \in Id, MapFails(i) \/ MapTimesOut(i) PROVE ServerIInv'
    <2>1. step[i] = "map" /\ Die
      BY <1>9 DEF MapFails, MapTimesOut
    <2>2. \A j \in Id : step[j] \in Busy => j = i
      BY <2>1 DEF ServerIInv, InLoop, Busy
    <2>3. TypeOK'
      BY <2>1 DEF Die, ServerIInv, TypeOK, Steps
    <2>4. InLoop' = {}
      BY <2>1 DEF Die, ServerIInv, TypeOK, InLoop, Busy
    <2>5. ASSUME NEW j \in Id PROVE Progress(j)'
      <3>1. step'[j] = IF step[j] \in Busy \cup {"queued"} THEN "lost" ELSE step[j]
        BY <2>1 DEF Die
      <3>2. j \in stored => step[j] = "answered"
        BY <2>1, <2>2 DEF ServerIInv, Progress, Busy
      <3> QED
        BY <2>1, <3>1, <3>2 DEF Die, ServerIInv, TypeOK, Progress, Busy
    <2> QED
      BY <2>3, <2>4, <2>5 DEF ServerIInv
  <1> QED
    BY <1>1, <1>2, <1>3, <1>4, <1>5, <1>6, <1>7, <1>8, <1>9 DEF Next, Loop, Map

\* One request is in the loop at a time, and what it has stored it is about to
\* be answered for.
THEOREM ServerInvariant == Spec => []ServerIInv
  BY InitInv, NextInv, PTL DEF Spec

\* However many requests wait when the map service fails: none loses the
\* answer to something it has stored.
THEOREM NoStoredWorkIsLost == Spec => []DeathsLoseNoStoredWork
  <1>1. ServerIInv => DeathsLoseNoStoredWork
    BY DEF ServerIInv, TypeOK, Progress, DeathsLoseNoStoredWork
  <1> QED
    BY <1>1, ServerInvariant, PTL

\* The path of a login or a request for a verify code is served by the
\* handlers of these, and by no other.
LEMMA OpenPaths ==
  ASSUME NEW c \in Content, NEW h, Called(c, h), Opens(c)
  PROVE  h \in {"login", "requestVC"}
  BY CalledHandler DEF Called, Opens, Path, Handler

\* Nothing is stored for a request the gate does not let in.
THEOREM OnlyAdmitted == Spec => []OnlyAdmittedRequestsStore
  <1>1. ServerIInv => OnlyAdmittedRequestsStore
    <2> SUFFICES ASSUME ServerIInv, NEW i \in stored
                 PROVE  /\ content[i].json /\ content[i].zone
                        /\ \/ content[i].token = "legal"
                           \/ content[i].token = "none" /\ served[i] \in {"login", "requestVC"}
      BY DEF OnlyAdmittedRequestsStore
    <2>1. i \in Id
      BY DEF ServerIInv, TypeOK
    <2>2. /\ content[i] \in Content /\ content[i].json /\ Admitted(content[i])
          /\ served[i] \in Stores
      BY <2>1 DEF ServerIInv, Progress
    <2>3. Called(content[i], served[i])
      BY <2>1, <2>2, ContentAssumption DEF ServerIInv, Progress, Stores, Handler
    <2> QED
      BY <2>2, <2>3, OpenPaths DEF Admitted
  <1> QED
    BY <1>1, ServerInvariant, PTL
=============================================================================
