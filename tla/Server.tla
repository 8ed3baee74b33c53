------------------------------- MODULE Server -------------------------------
(***************************************************************************)
(* The web server (WebServer::withHandler, Api::optRequest, AuthApi,        *)
(* AMap).  Requests wait for the one event loop that serves them; a request *)
(* is converted, passes the gate, is dispatched to the first handler of its *)
(* path and answered before the next is taken.  The handler of position     *)
(* tips waits for the map service meanwhile, and dies with the process if   *)
(* the service does not answer.  What the other handlers do is in Auth and  *)
(* Travel: here each may store something or not, answer or throw.           *)
(***************************************************************************)
EXTENDS Naturals, FiniteSets

CONSTANTS
  Id,       \* requests
  Content,  \* what a request may be
  None      \* no content, no handler

Handler ==
  {"login", "requestVC", "inputPositionTip", "postXxFindCar", "postCarFindXx",
   "postSearchXxFindCar", "postSearchCarFindXx"}

Status == {"unset", "success", "badRequest", "forbidden", "undefined"}

\* json: the request can be converted and printed.  for: the handler the
\* client means; "other" is a path no handler has.
ASSUME ContentAssumption ==
  /\ Content \subseteq
       [json: BOOLEAN, zone: BOOLEAN, token: {"none", "legal", "illegal"},
        for: Handler \cup {"other"}]
  /\ None \notin Content /\ None \notin Handler

\* UriPath: searching and offering share a path.
Path(h) ==
  IF h = "postSearchXxFindCar" THEN "postXxFindCar"
  ELSE IF h = "postSearchCarFindXx" THEN "postCarFindXx"
  ELSE h

VARIABLES
  alive,    \* the process runs
  content,  \* per request: what it is, None before it comes
  step,     \* per request: where it is
  draft,    \* per request: status and headers of its response
  served,   \* per request: the handler that was called, or None
  stored    \* requests whose handler has stored something

vars == <<alive, content, step, draft, served, stored>>

Busy     == {"gate", "dispatch", "map", "reply"}
Steps    == {"away", "queued", "answered", "lost"} \cup Busy
Response == [status: Status, headers: BOOLEAN]

TypeOK ==
  /\ alive \in BOOLEAN
  /\ content \in [Id -> Content \cup {None}]
  /\ step \in [Id -> Steps]
  /\ draft \in [Id -> Response]
  /\ served \in [Id -> Handler \cup {None}]
  /\ stored \subseteq Id

Unset == [status |-> "unset", headers |-> FALSE]

Init ==
  /\ alive = TRUE
  /\ content = [i \in Id |-> None]
  /\ step = [i \in Id |-> "away"]
  /\ draft = [i \in Id |-> Unset]
  /\ served = [i \in Id |-> None]
  /\ stored = {}

Goto(i, s) == step' = [step EXCEPT ![i] = s]

Drafted(i, status) ==
  /\ draft' = [draft EXCEPT ![i] = [status |-> status, headers |-> FALSE]]
  /\ Goto(i, "reply")

InLoop == {i \in Id : step[i] \in Busy}

Arrive(i) ==
  /\ alive /\ step[i] = "away"
  /\ \E c \in Content : content' = [content EXCEPT ![i] = c]
  /\ Goto(i, "queued")
  /\ UNCHANGED <<alive, draft, served, stored>>

\* withHandler: the request is converted and printed, or refused.
Converted(i) ==
  /\ alive /\ step[i] = "queued"
  /\ \/ content[i].json /\ Goto(i, "gate") /\ UNCHANGED draft
     \/ ~content[i].json /\ Drafted(i, "badRequest")
  /\ UNCHANGED <<alive, content, served, stored>>

\* Variant for the mutants: setThreadNum(2).
TakeOnTwoLoops(i) == Cardinality(InLoop) < 2 /\ Converted(i)

\* One event loop: the next request is taken when the last is answered.
Take(i) == InLoop = {} /\ Converted(i)

Opens(c) == Path(c.for) \in {"login", "requestVC"}

\* Variant for the mutants: any path may come without a token.
AdmittedAnywhere(c) == c.zone /\ c.token # "illegal"

\* optRequest: the early returns.
Admitted(c) == c.zone /\ (IF c.token = "none" THEN Opens(c) ELSE c.token = "legal")

Refusal(c) ==
  IF ~c.zone THEN "badRequest" ELSE IF c.token = "none" THEN "undefined" ELSE "forbidden"

\* Looking the token up may throw, which optRequestTry catches.
Gate(i) ==
  /\ alive /\ step[i] = "gate"
  /\ LET c == content[i] IN
     \/ Admitted(c) /\ Goto(i, "dispatch") /\ UNCHANGED draft
     \/ ~Admitted(c) /\ Drafted(i, Refusal(c))
     \/ c.zone /\ c.token # "none" /\ Drafted(i, "unset")
  /\ UNCHANGED <<alive, content, served, stored>>

\* The comparisons of optRequest, in their order: the first handler of a path.
Order ==
  <<"login", "requestVC", "inputPositionTip", "postXxFindCar", "postCarFindXx",
    "postSearchXxFindCar", "postSearchCarFindXx">>

Called(c, h) == \E n \in DOMAIN Order :
  /\ h = Order[n] /\ Path(h) = Path(c.for)
  /\ \A m \in 1..(n - 1) : Path(Order[m]) # Path(c.for)

\* A handler that returns gets its response labelled; one that throws leaves
\* what it has drafted.
Ended(i, status, returned) ==
  /\ draft' = [draft EXCEPT ![i] = [status |-> status, headers |-> returned]]
  /\ Goto(i, "reply")

Stores == {"login", "requestVC", "postXxFindCar", "postCarFindXx"}

Work(i, h) == \E status \in Status, returned \in BOOLEAN :
  /\ Ended(i, status, returned)
  /\ stored' \in {stored} \cup (IF h \in Stores THEN {stored \cup {i}} ELSE {})

\* inputPositionTip: an illegal body is refused, or fails to convert; else
\* sendSyncRequest.
AskMap(i) ==
  /\ \/ Goto(i, "map") /\ UNCHANGED draft
     \/ Ended(i, "badRequest", TRUE)
     \/ Ended(i, "unset", FALSE)
  /\ UNCHANGED stored

Serve(i) ==
  /\ alive /\ step[i] = "dispatch"
  /\ \E h \in Handler :
       /\ Called(content[i], h)
       /\ served' = [served EXCEPT ![i] = h]
       /\ IF h = "inputPositionTip" THEN AskMap(i) ELSE Work(i, h)
  /\ UNCHANGED <<alive, content>>

UnknownRequest(i) ==
  /\ alive /\ step[i] = "dispatch"
  /\ \A h \in Handler : ~Called(content[i], h)
  /\ Ended(i, "undefined", TRUE)
  /\ UNCHANGED <<alive, content, served, stored>>

\* Whatever the map service answers, the response says success.
MapAnswers(i) ==
  /\ alive /\ step[i] = "map"
  /\ Ended(i, "success", TRUE)
  /\ UNCHANGED <<alive, content, served, stored>>

\* strHttpResponse is called with the null response of a request that failed
\* or timed out, before doPositionInputTip looks at the result.
Die ==
  /\ alive' = FALSE
  /\ step' = [i \in Id |-> IF step[i] \in Busy \cup {"queued"} THEN "lost" ELSE step[i]]
  /\ UNCHANGED <<content, draft, served, stored>>

MapFails(i)    == alive /\ step[i] = "map" /\ Die
\* Variant for the mutants: the default timeout, 0, never ends the wait.
NeverTimesOut(i) == FALSE /\ Die
MapTimesOut(i) == alive /\ step[i] = "map" /\ Die

\* callback(resp)
Reply(i) ==
  /\ alive /\ step[i] = "reply"
  /\ Goto(i, "answered")
  /\ UNCHANGED <<alive, content, draft, served, stored>>

\* Somebody starts the program again.
Restart ==
  /\ ~alive /\ alive' = TRUE
  /\ UNCHANGED <<content, step, draft, served, stored>>

Loop(i) == Take(i) \/ Gate(i) \/ Serve(i) \/ UnknownRequest(i) \/ Reply(i)
Map(i)  == MapAnswers(i) \/ MapFails(i)

Next == Restart \/ \E i \in Id : Arrive(i) \/ Loop(i) \/ Map(i) \/ MapTimesOut(i)

Spec == Init /\ [][Next]_vars

\* The loop goes on as long as there is something to do, and a timer ends the
\* wait for the map service; nothing makes the service answer, or the network
\* report that it cannot.
FairSpec == Spec /\ \A i \in Id : WF_vars(Loop(i)) /\ WF_vars(MapTimesOut(i))

-----------------------------------------------------------------------------
(* Properties *)

\* Every request that has come is answered, or lost with the process: the loop
\* is not held up for ever by a map service that is silent (the two seconds of
\* doPositionInputTip), and no request stays in the queue.
EveryRequestConcluded == \A i \in Id : step[i] = "queued" ~> step[i] \in {"answered", "lost"}

\* When the wait for the map service ends the process (a_map.cpp:30), no other
\* request loses the answer to something it has stored: one loop serves one
\* request at a time.
DeathsLoseNoStoredWork == \A i \in stored : step[i] # "lost"

\* A request that is in the database came with a time zone and a token that
\* was legal, or to the two handlers that need none.
OnlyAdmittedRequestsStore == \A i \in stored :
  /\ content[i].json /\ content[i].zone
  /\ \/ content[i].token = "legal"
     \/ content[i].token = "none" /\ served[i] \in {"login", "requestVC"}

-----------------------------------------------------------------------------
(* The inductive invariant *)

\* What a request has stored it is about to be answered for.
Progress(i) ==
  /\ step[i] # "away" => content[i] \in Content
  /\ step[i] \in {"gate", "dispatch", "map"} => content[i].json
  /\ step[i] \in {"dispatch", "map"} => Admitted(content[i])
  /\ step[i] \in {"away", "queued", "gate", "dispatch"} => served[i] = None
  /\ served[i] # None => Called(content[i], served[i])
  /\ i \in stored => /\ step[i] \in {"reply", "answered"}
                     /\ served[i] \in Stores
                     /\ content[i].json /\ Admitted(content[i])

ServerIInv ==
  /\ TypeOK
  /\ \A i, j \in InLoop : i = j
  /\ alive \/ InLoop = {}
  /\ \A i \in Id : Progress(i)
=============================================================================
