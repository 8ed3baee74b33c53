# nameless_carpool, verified

TLA+ specifications, model-checking runs and machine-checked proofs for the C++
car-pooling backend in this repository. Paths below are relative to the
repository root; the program is under `src/`.

## 1. The system

One binary, two ways to run it (`src/main.cpp`). Without arguments it is an HTTP
server on drogon with one event loop (`src/net/drogon_proxy/web_server.cpp`);
with debug arguments it serves one request from a file and exits
(`doc/nameless_carpool.software.usage.txt`). Both call `Api::optRequestTry`, and
both work on the same MySQL database. The program starts no threads: all
concurrency is between processes, and the unit that interleaves is the SQL
statement.

| component | state it keeps | operations | talks to | what makes it correct |
|---|---|---|---|---|
| Account handlers (`src/control/db_proxy.cpp:31-260`, `src/net/api/authenticate.cpp:20-101`) | rows of `telephone`, `user`, `user_tel`, `session`, `user_session` | `requestVerifyCode`, `login` | the transaction runner, the SQL generators, the clock | a code is replaced only when it has expired; an account is entered only through its login number; a success answer can be used |
| Token gate (`src/net/api.cpp:18-45`, `db_proxy.cpp:285-331`) | none; reads `session`, `user_session`, `user` | `tokenIsLegal` before every handler | every handler gets the session and user it found | a request runs as the user its token was made for; a replaced token is dead |
| Request pipeline and routing (`src/net/drogon_proxy/web_server.cpp`, `src/net/api.cpp`, `src/net/api/authenticate.h`) | the request in the event loop and its response | conversion, header checks, dispatch, exception to answer | gate, handlers, the map service | every request is answered or lost with the process; only admitted requests store anything |
| Transactions (`src/db/sql/db_manager.cpp:98-150`) | a database session with or without an open transaction | `executeSql`, `executeTransactionSql` (function, statement list) | MySQL | all statements or none, once; no transaction and no lock is left behind |
| Travel offers (`db_proxy.cpp:334-746`, `src/net/model/find_xxx.h`) | rows of `car`, `goods_info`, `find_car`, `find_customers` and the tables that link them to users | `postFindCar`, `postFindCustomers`, `optGoodsInfo`, `optCar`, two searches | transactions | a user changes only rows of their own; no half-written offer; success means stored |
| Row and SQL text (`src/db/sql/db_manager.h`, `src/db/sql_util.*`, `src/db/model/*`) | none | INSERT, UPDATE, upsert, DELETE, WHERE texts; decoding of result rows | every handler | the text means what the call means; what is read and written back stays what it was |
| Schema (`mysql_script/init_database.mysql.sql`) | keys, foreign keys, NOT NULLs | | | the constraints the handlers rely on |
| Dates (`src/utils/common.*`) | none | age of a stored local time | expiry checks | expiry agrees wherever it is tested |
| Position tips (`src/net/client/a_map.cpp`) | none | one outgoing HTTP call with a timeout, inside the event loop | the map service | a silent service holds nobody up for ever; its failure costs no stored work |
| Command line, settings, logging, FastCGI loop, macros, scratch tests | | | | not modelled, see section 7 |

What is hard here: a number, a session or a user is looked up in one statement
and changed in a later one, by processes that share no lock; whole rows are
written back from stale copies; the two transaction functions swallow their
exceptions, so an answer of success says nothing about what was stored; a
process can die between any two statements; expiry is tested at several moments
of one request; a connection can be lost before or after the server has acted; the
time of a row goes through a text on the way out and a decoder on the way back;
one event loop serves everybody and waits for a service on the network.
`PROJECT.json` lists each of these hazards at its line.

## 2. Plan

The parts, in the order in which they were built, the most important behaviour first.

| part | specification | abstract specification | model checking | proofs |
|---|---|---|---|---|
| accounts and tokens | **Auth** | **TokenLife**, **VerifyCodes** | **MCAuth**, **AuthClaims** | **AuthInvariant**, **AuthProofs**, **AuthRefinementProofs** |
| travel offers | **Travel** | **OwnedRows** | **MCTravel**, **TravelClaims** | **TravelInvariant**, **TravelProofs** |
| running SQL | **TransactionRunner** | **AtomicRuns** | **MCTransactionRunner** | **RunnerProofs** |
| SQL texts and times | **SqlText**, **RowText** | **RowTimes** over **RowClock** | **MCRowText**, **RowTextClaims** | **TextProofs**, **RowTextProofs** |
| the web server | **Server** | | **MCServer**, **ServerClaims** | **ServerProofs** |

How they fit together. Server serves one request of one process and leaves open what
its handler does; Auth and Travel are what the handlers do, statement by statement,
with several processes on the database, and leave open how a statement is written.
TransactionRunner is what lies between a handler and MySQL: that a run stores
all of its statements or none is why a transaction is one step in Auth and ends
in a commit or a rollback in Travel. RowText is how a statement is written and a row
read: that the texts of the UPDATEs and INSERTs in use mean their calls is why Auth and
Travel write rows directly, and that a DELETE by key is refused is `DeleteByPk` of Auth.

What could be added: the queries' WHERE and join texts with a condition language at the
server's end.

## 3. Modules

### Auth

A *worker* is one process serving one request at a time. `pc[w]` is the next
statement of the handler it runs, `req[w]` the request, `loc[w]` the handler's
local variables (the rows it has read), `resp` the answer the last step sent.

| variable | code |
|---|---|
| `telephone`, `user`, `userTel`, `session`, `userSession` | the tables of the schema, rows with a NULL `del_time` only (every query adds `andDelFilter(false)`) |
| `now` | `system_clock`, in ticks |
| `loc[w].tel`, `.user`, `.ses` | ids of `telPtr`, `userPtr`, the session found |
| `loc[w].telRow`, `.sesRow` | `telObj`/`curTel` and `*sessionPtr` before they are written |
| `loc[w].expired` | `expiredSession` |
| `issued` | history: for whom a token was generated |

Each action is one statement (or one transaction) with the computation the
handler does on its result and every early return of that stretch:

| action | code |
|---|---|
| `RejectHeaders`, `Accept` | `Api::optRequest`, api.cpp:22-45 |
| `GateSession`, `GateUser` | the two queries of `tokenIsLegal`, db_proxy.cpp:286-328 |
| `Serve` | any other route |
| `VcQuery`, `VcInsert`, `VcUpdate` | `requestVerifyCode`, db_proxy.cpp:31-85 |
| `LgTel`, `LgUserTel`, `LgUser`, `LgNewUser`, `LgSessions`, `LgRefresh`, `LgNewSession`, `LgPurge` | `login`, db_proxy.cpp:87-260 |
| `Throws` | any exception: `optRequestTry` logs it, the status stays `unsetErr` |
| `Crash` | the process dies between two statements; its successor starts idle |
| `Tick` | time passes between any two statements |

Statements outside a transaction commit by themselves, also when their reply is
lost (`Written`). `VectorTransaction(before, after) == before` is what
`executeTransactionSql(vector)` does: it throws after its loop in every case
(db_manager.cpp:147) and rolls back. `DeleteByPk` leaves the table alone:
the DELETE text is malformed (db_manager.h:669) and MySQL refuses it. Tokens are random
UUIDs: two draws never give the same one. A session whose client type is compared
in login is compared with the type *as sent*, and stored under the type
`getClientType` makes of it, as in the code.

Before the actions stand variants, each a definition with a plausible bug in it;
no specification uses them. `PROJECT.json` pairs each with the property that
fails when it takes the definition's place.

### TokenLife, VerifyCodes

The abstract specifications. TokenLife: a token is drawn for a user, is pending
until a login stores it, becomes live exactly when it replaces a live token of
the same user, and once dead stays dead. VerifyCodes: a number has one current
code, replaced only if it had expired at some moment of the request that
replaced it. Auth maps onto them with `TokenPhase` and `CurrentCode`.

### AuthInvariant

None of the safety properties is inductive: each speaks of the tables, or of
one label, and depends on what a handler remembers between statements. `AuthIInv`
says, per label, what the locals hold (`LocalsOK`), that a row read by number
still has that number when it is written back (`PhoneInv`), that rows plus
processes about to insert never exceed the processes (`RowsInv`), that a session
has one owner and its token was drawn for that owner (`OwnerInv`), that tokens
about to be stored are in no session and differ from each other (`PendingInv`),
and that what the gate found belongs to the token's user (`GateInv`). `OneInv`
adds what holds while one process has the database to itself (`CodeInv`, `TakenInv`).

### Travel

A worker is again one process with one request. `pc[w]` is the next statement,
an operation (`check`, `update`, `insert`, `link`) and the table it is about:
every part of a request (car, goods, offer) goes through the same four, and
`First`, `Checked` and `Stored` say which part comes next.

| variable | code |
|---|---|
| `row[t][i]` | committed rows of `goods_info`, `car`, `find_car`, `find_customers`: who wrote the row last, and the goods and car it points to |
| `link` | committed rows of `user_goods_info`, `user_car`, `user_find_car`, `user_find_customers` |
| `body[w]` | the request's body with the ids that the handler fills in |
| `tx[w].row`, `.link`, `.seen` | uncommitted rows and links of the open transaction; the snapshot its SELECTs read |
| `outcome[w]` | whether `outResponse` already holds a refusal |

| action | code |
|---|---|
| `RejectBody`, `Accept` | `postXxFindCar`, `postCarFindXx` and `isLegal` |
| `Check` | the SELECTs on the link tables, db_proxy.cpp:338-357, 414-430, 506-524, 563-579 |
| `Update` | the UPDATEs, db_proxy.cpp:359-365, 525-537, 589-599 |
| `Insert`, `Link` | the INSERT of a row and of its link, db_proxy.cpp:367-383, 467-484, 538-557, 612-630 |
| `RefuseIncomplete` | the NOT NULL checks (`DB_INSERT_UN_NULL_COLUMN_CHECK`) |
| `Commit`, `Rejected`, `Fails` | the end of `executeTransactionSql(func)`, db_manager.cpp:119-135 |
| `Crash` | the process dies, MySQL rolls back |

Three things are MySQL's and modelled from how the handlers use it: a row that
a transaction has written is locked until it ends, and so are, shared, the rows
its offer points to; the SELECTs of a transaction read one snapshot; a new id is
in no row and no open transaction. An early `return` in the handler's function is *not* a rollback: it commits what
was written before it. An exception is, and the handler then answers success.
`postFindCar` stores an edited offer with an INSERT, which always ends in
`Rejected`. A body without `goodsInfo` that names goods by `goods_info_id` passes `isLegal`, and the
handler reads an empty optional: `Request` gives it any goods id.

### OwnedRows

What the handlers promise: one step per request, in which a user's new rows become
that user's, only own rows are rewritten, and offers point to own goods and cars or to
preset goods. Travel refines it with the identity on `row` and `link`.

### TravelInvariant

`TravelIInv` adds what a transaction has collected before it commits: every row it has
written is its user's, or is the one about to be linked (`PendingOK`); it links
only rows it created (`LinksOK`); what has been checked is still owned, since
ownership is never given up (`KnowsOK`); the parts that come before a label are
stored (`PartsOK`); offers are written last and by no refused request
(`OffersLastOK`); no row is in two open transactions (`ApartOK`).

### TransactionRunner, AtomicRuns

A process runs one thing at a time: a single statement (`executeSql`), a function
or a list of statements inside a transaction. A run's `sql` is the sequence of rows
its statements write, with `Stop` where the function throws or the list has an empty text.
Each action is one call to the server.

| variable | code |
|---|---|
| `pc[p]`, `next[p]` | the call the runner is about to make; the statement of the function or the loop |
| `link[p]` | the connection of `session` |
| `open[p]`, `held[p]` | the server's transaction for that session, and the rows it has written and locked |
| `orphans` | locks of transactions whose connection is gone and has not been missed yet |
| `outcome[p]` | whether the runner returned, an exception left it, or the process died |

| action | code |
|---|---|
| `GetSession` | db_manager.cpp:115, 121: outside the try block |
| `StartTransaction`, `Commit` | :124, :126: inside it |
| `Statement` | :98-110 |
| `StatementsEnd` | :125, and :140-147: the function over the list throws however its loop ended |
| `Rollback` | :128-134: inside the catch blocks, where nothing catches its own exception |
| `Close` | :135 |
| `NoEffect`, `StatementUnanswered`, `DeadlockVictim`, `DropOrphans`, `Die` | what MySQL, the network and the operating system do: a refusal or a connection lost before the call; a reply lost after it; a lock cycle broken; a dead connection noticed; a death |

`session.close()` returns a session to the pool as it is; the pool resets it when it
is used again (`ServerRollsBack` in `GetSession`). AtomicRuns has one action: a run
is stored whole. TransactionRunner maps onto it by the identity on `stored` and `committed`.

### SqlText, RowText, RowClock, RowTimes

SqlText holds the functions: the generators (`InsertModelSql`, `UpdateModelSql`,
`UpdateSingleModelSql`, `InsertOrUpdateModelSql`, `DelSqlByPkDoubleVector`), loop by loop,
over sequences of words; the decoder of DATETIME (`TakeByte`, `Field`, `ReadTime`), byte by byte;
and, external, the server that reads a text by its shape and the X protocol that sends times. RowText is
the handlers around them: `Query` fills models from rows, `Update`, `UpdateSingle`,
`InsertOrUpdate`, `Delete` renew them and execute a text about them, `Insert` one about new
models. `real` is the time and `late` how far the system clock is behind it since it was set back. A model has a key
of one column or more (the program has tables with one and with two) and, of the columns beside it, the creation time and the time
that was renewed; the columns left out go through the same loops. Times differ
by seconds and microseconds within one fixed minute: the fields before them are decoded by the same loop. `Insert` takes the clock at the moment
of the statement: the time between filling a model and storing it is a difference of two instants, which
the runs have anyway. `insertOrUpdate` has no callers yet.

RowTimes is the same without texts: a copy of a row has each time moved once by the decoder
(`Moved`, `Scale`: microseconds are printed without leading zeros, so .000007 comes back as .7), a row is renewed with the clock
and its creation time written back from the copy, or kept. `born` and `since` are history: when the row was really
inserted and renewed.

### Server

One process with one event loop (`setThreadNum` is not called). A request is a kind (what the gate and the
dispatcher can tell), not a text.

| variable | code |
|---|---|
| `step[i]` | `away`, `queued` in drogon, in the loop at the gate, the dispatcher, the map call or the reply, `answered`, or `lost` |
| `draft[i]` | status and headers of `httpResponse` |
| `served[i]`, `stored` | which handler was called, and whether it has stored something |

| action | code |
|---|---|
| `Take` | `withHandler`, web_server.cpp:34-48 |
| `Gate` | api.cpp:22-46, with the answer of `tokenIsLegal`, or its exception |
| `Serve`, `UnknownRequest` | api.cpp:52-75, the comparisons in their order |
| `MapAnswers`, `MapFails`, `MapTimesOut` | a_map.cpp:41-81 |
| `Reply` | web_server.cpp:50-57 |
| `Restart` | the program is started again |

`sendSyncRequest` prints the response before anybody looks at the result
(a_map.cpp:47, :30), and on a failure or a timeout drogon's response is null: the
process dies there, and the branch that answers 请求失败 (request failed, :64-69) is never reached. Drogon's client has an event
loop of its own for the call (external).

## 4. Runs

| run | instance | what it shows |
|---|---|---|
| `two_processes` | 2 workers, 1 number, 3 telephone rows, 3 sessions, 4 users, 4 tokens, web clients and clients that send no type, clock 0..2, code life 1 | `RowsPerNumberBounded`, `TokenNamesOneSession`, `TokenAuthenticatesItsUser`, `LoginNeedsLoginPhone`, `AuthIInv`, and `TokensFollowTheirLife`: refinement of TokenLife |
| `one_process` | 1 worker, 2 codes, clock 0..2, five databases | `TypeOK`, `OneInv`, `CodesAreRenewedWhenExpired` (refinement of VerifyCodes), `VcSuccessMeansUsableCode`, `RefreshedTokenOpensTheSession`; fair, `EveryRequestAnswered` |
| `travel` | 2 workers, 2 users, find_car and find_customers, preset goods and others, 1 car, 1 offer of each kind, an id sent without goods, from the empty database | `TravelIInv`, `RowsAreOwned` (refinement of OwnedRows), `RefusedRequestsKeepOffers` |
| `travel_answered` | 2 workers, 1 user with goods, a car and both kinds of offer, fair | `EveryRequestAnswered` |
| `runner` | 2 processes, 2 rows, 2 runs each: a single statement, two functions (one throws half-way), a list in the opposite order; fair | `SessionsReturnClean`, `OutcomesTell`, `RunnerIInv`, `RunsAreAtomic` (refinement of AtomicRuns), `EveryRunEnds`, `RowsAreReleased` |
| `row_text` | 2 handlers, keys of one and two columns, 2 rows, three instants, the clock set back by a second, life one second | `TextsMeanTheirCalls`, `StoredTimesAreRead`, `TypeOK`, `RowsFollow` (refinement of RowTimes) and with it `TimesMoveAtMostOnce`, `ExpiryIsBarelyLate` |
| `server` | 2 requests, each of 14 kinds, fair | `DeathsLoseNoStoredWork`, `OnlyAdmittedRequestsStore`, `ServerIInv`, `EveryRequestConcluded` |
| `claim_*` | small; the instances of the passing runs for texts and searches | five statements of comments that the code does not meet, section 6 |

Bounds. Two workers show every race of the code: each one is between a read and
a write of one process and one write of another. Three telephone rows are one
more than the bound `RowsPerNumberBounded` states. One number is enough because
no statement relates two numbers; the refused number is there too. Four users are
two accounts and two ids that new accounts draw; three sessions are two rows and a
free one; `TokensLeft` stops logins when no token is left to draw. The clock has
room for a code and a session to be valid, on the boundary, and expired. The
databases the program starts on (`MCAuth`): an empty one, a new number, two users
that share a phone (login number of one, contact of the other), the same two with
one logged out, a soft-deleted account, a phone with two accounts and a user with two sessions of one client type.
The last two are only started by one process, where the error branches they
reach end the request. Symmetry is over workers and over ids that no
database of the run mentions; the refinement of VerifyCodes, which uses CHOOSE, runs without it.

In Travel two workers give every race on a row and two users every
ownership conflict. The empty database reaches every other database: rows appear only
through the handlers, and preset goods are there from the start. Both kinds of offer are there, because
they point to the same goods; so two transactions at a time insert or edit different rows, or meet in one. `IdsLeft` stops requests for which no new id would be left. Symmetry is
over workers, users, cars, offers and goods outside the preset range, none
of which the empty database mentions; the liveness run has none.

In `runner` two rows written in opposite orders are the smallest deadlock, and the second run of a
process meets what its first left at the server. In `row_text` the instants have
microseconds of one, two and six digits, which the decoder moves by most of a second, by little, and not at all,
and lie more and less than the life apart; a
loop over models or columns has a first, a last and an only element with two of each. In `server` two requests
are one in the loop and one waiting; the kinds are a legal request to each handler and
to none, requests without a token, with an illegal one, without a time zone, and one that cannot be converted.

Deadlock is checked in the runs of Auth and Travel, where an idle worker can always get a request. In
the three others everything may be done: the runs are used up (`MaxRuns`), the clock has reached its last
instant and the table is full, or every request (each comes once) has its answer. There the liveness properties say
what must not get stuck.

Fairness. In Auth, `FairSpec` is weak fairness of each worker's next statement: a handler
is straight-line code, and a call into the database returns or throws; no transaction of
Auth outlives a statement, so one worker's progress never depends on another's and
one worker is enough for the run. In Travel it is strong fairness of a worker's next statement,
because a statement can be held up by a lock that others take in turns, and
InnoDB grants a lock to its waiters in turn. In TransactionRunner a process's next call comes back (`WF` of
`RunStep`: a reply, a refusal, which includes the lock wait timeout, or a lost connection), and MySQL
notices dead connections. In Server the loop goes on while there is something to do, and
the two seconds that `doPositionInputTip` gives the map service run out; nothing makes the
service answer or fail by itself. RowText has no liveness property. Nothing is assumed of the clock,
of arrivals, of exceptions or of crashes.

## 5. Proofs

Checked by TLAPS for every value of the constants that meets the named
assumptions of Auth: finitely many workers, natural times, distinct nulls, and
start databases with `SeedOK` (foreign keys hold, a session has one owner, a
token is in one session and was issued to that owner, a number has one row).
Nothing bounds users, numbers, rows, tokens, or the clock.

| theorem | says |
|---|---|
| `TypeCorrect` | `Spec => []TypeOK` |
| `AuthInvariantHolds` | `Spec => []AuthIInv` |
| `RowsAreBounded` | `Spec => []RowsPerNumberBounded` |
| `TokensAreUnique` | `Spec => []TokenNamesOneSession` |
| `GateIsSound` | `Spec => []TokenAuthenticatesItsUser` |
| `LoginIsByLoginPhone` | `Spec => []LoginNeedsLoginPhone` |
| `ImplementsTokenLife` | `Spec => TokensFollowTheirLife` |
| `ReplacedTokensStayDead` | a dead token stays dead, from the theorem before |

The argument. `AuthProofs` proves `TypeInv` inductive, action by action, and adds `PhoneInv`, `RowsInv` and `TokenInv` in that order, each
inductive relative to the ones before it;
`RowsInv` counts with the cardinality facts of FiniteSetTheorems, the others
follow the locals of one worker against the statements of the others.
`AuthRefinementProofs` uses `AuthIInv` on both sides of a step to show that every step
of Auth is a step or a stutter of TokenLife under the mapping.

Under the further assumption `OneProcess`, that `Workers` has one member, it also proves what a
single process promises and two do not:

| theorem | says |
|---|---|
| `OneInvariantHolds` | `Spec => []OneInv` |
| `ImplementsVerifyCodes` | `Spec => CodesAreRenewedWhenExpired` |
| `SuccessMeansUsable` | `Spec => VcSuccessMeansUsableCode` |
| `RefreshedTokenWorks` | `Spec => RefreshedTokenOpensTheSession` |

The argument. `RowsInv` with one worker means that a number has one row, and none while it is being inserted (`OneRow`).
`OneInv` adds to `AuthIInv` that the code about to be written was made for a row that had expired when it was made
(`CodeInv`), and that the session a login took over is the one its token opens until it answers (`TakenInv`); both are
lost as soon as another process may write between two statements. An insert is then an `Enrol` of VerifyCodes and an
update a `Renew` at the time the code was made, which is earlier than the step if the clock has moved.
`Answers` lists the statements that can say "success" or hand out a token.

For Travel, from its assumptions (`SeedOK`: foreign keys hold and a row is linked
to the user who wrote it and nobody else, which makes preset goods nobody's), for any number of
workers, users and rows:

| theorem | says |
|---|---|
| `TravelInvariantHolds` | `Spec => []TravelIInv` |
| `TravelTypeCorrect` | `Spec => []TypeOK` |
| `TravelImplementsOwnedRows` | `Spec => RowsAreOwned` |
| `RefusalsKeepOffers` | `Spec => RefusedRequestsKeepOffers` |

The argument. A step is the step of one worker. If it does not commit, the other
workers' parts of `TravelIInv` stay as they are (`OthersKeep`); if it commits, links
only grow and the rows that change are in no other transaction
(`OthersKeepSaved`). For the worker itself there is one lemma per action, which
rests on three facts about transactions (`WriteEffect`, `LinkEffect`,
`SnapshotEffect`) and one per stage about what is known when it is reached
(`OfferStageReady`, `GoodsStageReady`, `CarStageReady`, `CommitReady`). At the
commit `PendingOK` and `LinksOK` together say that the links the transaction adds are
exactly its new rows, which is the step of OwnedRows; `OffersLastOK` says that a refused
transaction holds no offer.

For TransactionRunner, from `ConstantsAssumption` (a single statement is one row; `Stop` is no row; runs are
numbered), for any number of processes, rows and runs:

| theorem | says |
|---|---|
| `RunnerInvariant` | `Spec => []RunnerIInv` |
| `CleanSessions` | `Spec => []SessionsReturnClean` |
| `TellingOutcomes` | `Spec => []OutcomesTell` |
| `AtomicRunner` | `Spec => RunsAreAtomic` |

The argument. While a run is at its statements or its commit, its transaction holds exactly the
statements before `next` (`TransactionHoldsItsStatements`), so that a commit stores the whole run; a run is
committed at most under its own number, and from a step at which it was not
(`RunsAreNumbered`, `CommitComesLast`). Nothing but `ServerStores` changes the rows, and it is called with one row by a single
statement and with `held` by a commit.

For RowText, from three assumptions: `ClockAssumption` (instants are natural numbers, late enough to be set back),
`KeyAssumption` (a table has finitely many keys, each a sequence of one column or more) and `MinuteAssumption` (the clock
stays within the minute whose seconds and microseconds the model keeps). For any handlers, instants, life and setting of the
clock, for keys of any width and for any number of models in a call:

| theorem | says |
|---|---|
| `InvHolds` | `Spec => []Inv` |
| `TypeCorrect` | `Spec => []TypeOK` |
| `TimesAreRead` | `Spec => []StoredTimesAreRead` |
| `TextsMean` | `Spec => []TextsMeanTheirCalls` |
| `OthersRefused` | `Spec => []OtherTextsAreRefused`: what `claim_delete_text` finds goes for every table |
| `TextsFollow` | `Spec => RowsFollow` |
| `RowInvariant`, `MovesOnce`, `BarelyLate` | RowTimes' `IInv` and its two invariants, as RowText instantiates it |
| `StoredTimesMoveOnce` | `Spec => []TimesMoveAtMostOnce` |
| `StoredExpiryIsBarelyLate` | `Spec => []ExpiryIsBarelyLate` |

The argument. What a loop puts together has as many pieces as there are models, so most of this is induction over a number. The
library's induction theorems take an operator, which the provers cannot instantiate; induction over a *set* they can use: `NatSet`
(TextProofs) says that a set with 0 that is closed under adding one holds every natural number, from the well-foundedness of `<`,
and each induction is about the set of numbers for which something holds. A recursive function appears in an obligation as the
function CHOOSE picks, so it comes with a lemma that one exists (`FlatExists`, `TakesExists`).

*Texts* (TextProofs). `Reads(text, shape, values)` says what words and values the server sees, and is put together as the text is
(`ReadsCat`, `ReadsSeparated`, `ReadsListed`), once for each generator; the shapes of the server are built by the same lemmas. What
cannot be taken for another statement is settled by one word (`Kinds`): an INSERT and an upsert by the word before the last,
a single UPDATE and one by CASE by the third, a DELETE by the one after the names of the key. `UpdateRefused` and `DeleteRefused` find
the word that no shape has there: the column named again for the second model, the list of key columns, the comma at the end of the names.
`InsertRowsAre` gives the server's cutting of the values back to the models they came from.

*Times* (RowTextProofs). `TakeNumbers` is the loop over bytes by induction over the numbers that were sent, `TakeVarint` the
one to three bytes of a number; the numbers left out are zeros (`WireFields`), and the digits printed are the
ones `Scale` undoes (`DigitsScale`). So every time of the minute is read, and moved (`TimeIsRead`).

*Rows*. `Inv` says that what is stored are times of the minute in both columns of keys of the table, and that a
handler has read rows that are still there, each once and all of one key width, with times of the minute. (They are still there because no DELETE by key is ever executed, `KeysRefused`: this part of `Inv` is about the code as it is, and is no property of the runs.) It is needed because a model's text
is stored again only if it is a time (`WrittenKeeps`), and because two models of one row, or of two tables, would give a text
that means something else. From it follow that the models of a call are what the generators expect (`BatchListed`), what the
server reads (`CallsAreRead`, `SingleIsRead`, `KeysRefused`), what is stored (`ExecuteWrites`, or nothing, `ExecuteRefused`), and so which step
of RowTimes it is (`InsertStep`, `UpdateStep`, `UpsertStep`, `QueryStep`, `GiveUpStep`).

*The clock*. `Moved` stays within the second, never goes down, and moves a time that it has moved no further, since what it prints has
six digits or is zero; so a creation time is the one of birth or that one moved, in every row, and moved, in every copy, whatever the order in
which copies are written back. A renewal time is what the clock showed, at most `Back` behind, moved in a copy at most by a second.
The prover does not carry a theorem of RowTimes over to RowText's instance of it, so the proofs about RowTimes are done there, about the
instance; they use of `Rows` and `Copies` only what RowTimes says of them, and hold for any rows and copies.

For Server, from `ContentAssumption`, for any number of requests:

| theorem | says |
|---|---|
| `ServerInvariant` | `Spec => []ServerIInv` |
| `NoStoredWorkIsLost` | `Spec => []DeathsLoseNoStoredWork` |
| `OnlyAdmitted` | `Spec => []OnlyAdmittedRequestsStore` |

The argument. At most one request is in the loop; one that has stored something is at its reply or answered; so
a process that dies at the map call has nothing stored in its loop. The others follow from
what a request at the dispatcher is known to be (`Progress`).

Only model-checked: `EveryRequestAnswered` (Auth and Travel), `EveryRunEnds`, `RowsAreReleased` and `EveryRequestConcluded`, since liveness under
fairness is outside what the prover does. Every invariant, action property and refinement of the passing runs is also a theorem.

## 6. Where code and comments disagree

| run | statement | what the code does |
|---|---|---|
| `claim_token_stored` | authenticate.cpp:99, login creates login information and returns the token | a first login answers a token that no row has: the transaction always rolls back |
| `claim_one_row` | db_proxy.cpp:47, one row expected per number | two processes insert the number twice; it is refused from then on |
| `claim_preset_items` | travel_info.h:501, ids 1..9 are preset items | the script inserts 8; id 9 is the first user's goods, and anybody's offer may point to it |
| `claim_delete_text` | db_manager.h:654-655, a DELETE by keys; db_proxy.cpp:238, a login deletes the expired sessions | the names of the key are followed by a comma and never closed (:669): no statement to the server |
| `claim_search_served` | authenticate.h:23-24 and :85-93, authenticate.cpp:152 and :159, api.cpp:57-58: searches have handlers of their own | their paths are those of the offers, which are compared first: a search is served as an offer, and may store one |

More, without a run of their own:

- The DELETE of the expired sessions (`claim_delete_text`) would be rolled back even if its text were a statement. If both were
  repaired, `RefreshedTokenOpensTheSession` would fail: the session that was just refreshed is in the list (the variant `LgPurgeDeletes`).
  db_proxy.cpp:204 says that the session to refresh is within its validity; an expired one of the client type is refreshed too.
- db_manager.h:400-403 gives an UPDATE of several models as one CASE per column with a WHEN per model. `tellg` of a stream that is
  only written to is always 0 (:461), and each model starts the column anew: no statement (`OthersRefused`). The program updates one model at a time.
- db_proxy.cpp:405 says that an own find_car is updated. It is inserted under the id it has, rolled back, and answered success
  (`OfferStage` of Travel): what it says is not stored.
- Two processes that both read a verify code as expired (db_proxy.cpp:73) both renew it, and the later overwrites the code the
  earlier has just stored. No comment promises more; `CodesAreRenewedWhenExpired`, that a code is replaced only after
  it has expired, is therefore stated for one process.
- find_xxx.h:37 says that goods_info_id or goodsInfo is enough. With goods_info_id alone the handler reads an empty
  optional (undefined behaviour) and overwrites the reference: `Request` of Travel.
- a_map.cpp:65 has an answer for a map request that failed. It is not reached: the process has died at a_map.cpp:30.
- db_proxy.h:24 says that a request may extend the old code; a code that is still valid is left as it is.

## 7. Not modelled, and why

- The WHERE and join texts of queries, and `insertModelSqlByVector`, which repeats `insertModelSql`: a query's meaning is
  in `TelsWith`, `SessionsOf` and the like. Values of a text are not escaped by the code; they are values here.
- The search handlers: they read and answer, and are never called (`claim_search_served`). `wc_user` and `car_bind_customers`: used
  by no code.
- The columns of the travel rows beyond who wrote them and what they point to.
- Argument parsing, settings, logging, string helpers: they build a request or
  print; nothing depends on their interleaving.
- The FastCGI loop (`optNetData`), `WebClient::test`, the two-argument `tokenIsLegal`, `toTimespec`: never called.
- `src/utils/macro/*`: generated preprocessor tables. `libs/` is third-party code, and `src_test/` and
  `src/test_code/` are experiments that are not part of the program. Together they are more than nine
  tenths of the repository's lines; the program itself is some eight thousand, tables and comments included.
- The calendar behind `zoned_time`; its exceptions are modelled (`Throws`), not that one stored time raises
  them again and again.
