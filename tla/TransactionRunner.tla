-------------------------- MODULE TransactionRunner --------------------------
(***************************************************************************)
(* DbManager::executeSql(text) and DbManager::executeTransactionSql, over a *)
(* function and over a vector of texts (db_manager.cpp:98-150), run by      *)
(* several processes on one database.  Each step is one call to the server, *)
(* which it can refuse, and around which the connection can be lost: before *)
(* the server sees the call, or before its reply comes back.  The database  *)
(* (row locks, autocommit, what becomes of the transaction of a lost        *)
(* connection) and the session pool are external.                           *)
(***************************************************************************)
EXTENDS Integers, Sequences, FiniteSets

CONSTANTS
  Process,  \* the processes on the database; each runs one thing at a time
  Row,      \* rows of the database
  Call,     \* what a run may be asked for: its kind, and the rows it writes
  Stop,     \* an item that ends a run: a function throws, a text is empty
  MaxRuns,  \* runs per process
  None

Kind == {"single", "function", "vector"}

ASSUME ConstantsAssumption ==
  /\ Stop \notin Row
  /\ MaxRuns \in Nat
  /\ \A c \in Call : c \in [kind : Kind, sql : Seq(Row \cup {Stop})]
  /\ \A c \in Call : c.kind = "single" => Len(c.sql) = 1 /\ c.sql[1] \in Row

VARIABLES
  pc,         \* where each process is in its run
  run,        \* the run it is in, or was in last
  next,       \* the statement it comes to next
  link,       \* its connection to the server
  open,       \* the server has a transaction open for its session
  held,       \* the rows written by that transaction, and so locked
  orphans,    \* rows locked by transactions whose connection is gone
  stored,     \* the run that wrote each row's committed value
  committed,  \* the runs whose statements are committed
  outcome,    \* how the process's last run ended
  count       \* runs begun by each process

client == <<pc, run, next, link, outcome, count>>
server == <<open, held, orphans, stored, committed>>
vars   == <<pc, run, next, link, open, held, orphans, stored, committed, outcome, count>>

Run  == [process : Process, no : 1..MaxRuns, call : Call]
Step == {"idle", "getSession", "start", "statement", "commit", "rollback", "close"}

TypeOK ==
  /\ pc \in [Process -> Step]
  /\ run \in [Process -> Run \cup {None}]
  /\ \A p \in Process : pc[p] # "idle" => run[p] \in Run
  /\ next \in [Process -> Nat]
  /\ link \in [Process -> {"none", "up", "down"}]
  /\ open \in [Process -> BOOLEAN]
  /\ held \in [Process -> SUBSET Row]
  /\ orphans \subseteq Row
  /\ stored \in [Row -> Run \cup {None}]
  /\ committed \subseteq Run
  /\ outcome \in [Process -> {"none", "returned", "threw", "died"}]
  /\ count \in [Process -> 0..MaxRuns]

Init ==
  /\ pc = [p \in Process |-> "idle"]
  /\ run = [p \in Process |-> None]
  /\ next = [p \in Process |-> 1]
  /\ link = [p \in Process |-> "none"]
  /\ open = [p \in Process |-> FALSE]
  /\ held = [p \in Process |-> {}]
  /\ orphans = {}
  /\ stored = [r \in Row |-> None]
  /\ committed = {}
  /\ outcome = [p \in Process |-> "none"]
  /\ count = [p \in Process |-> 0]

-----------------------------------------------------------------------------
(* The server *)

Locked(p, r) == r \in orphans \/ \E q \in Process \ {p} : r \in held[q]

\* The transaction of p ends without a trace; with none open, nothing happens.
ServerRollsBack(p) ==
  /\ open' = [open EXCEPT ![p] = FALSE]
  /\ held' = [held EXCEPT ![p] = {}]
  /\ UNCHANGED <<orphans, stored, committed>>

\* The connection goes: the transaction keeps its locks until the server notices.
ServerLosesClient(p) ==
  /\ orphans' = orphans \cup held[p]
  /\ open' = [open EXCEPT ![p] = FALSE]
  /\ held' = [held EXCEPT ![p] = {}]
  /\ UNCHANGED <<stored, committed>>

ServerStores(p, rows) ==
  /\ stored' = [r \in Row |-> IF r \in rows THEN run[p] ELSE stored[r]]
  /\ committed' = committed \cup {run[p]}

\* A statement: part of the open transaction, or committed by itself.
ServerExecutes(p, r) ==
  \/ /\ open[p]
     /\ held' = [held EXCEPT ![p] = @ \cup {r}]
     /\ UNCHANGED <<open, orphans, stored, committed>>
  \/ /\ ~open[p]
     /\ ServerStores(p, {r})
     /\ UNCHANGED <<open, held, orphans>>

ServerCommits(p) ==
  /\ ServerStores(p, held[p])
  /\ open' = [open EXCEPT ![p] = FALSE]
  /\ held' = [held EXCEPT ![p] = {}]
  /\ UNCHANGED orphans

-----------------------------------------------------------------------------
(* The runner *)

Goto(p, step) == pc' = [pc EXCEPT ![p] = step] /\ UNCHANGED <<run, outcome, count>>

\* The run is over: it returned, an exception left it, or the process died.
End(p, how) ==
  /\ pc' = [pc EXCEPT ![p] = "idle"]
  /\ outcome' = [outcome EXCEPT ![p] = how]
  /\ UNCHANGED <<run, next, count>>

\* Variant: executeSql catches an exception, and returns.
RaiseCaught(p) ==
  IF run[p].call.kind = "single" THEN End(p, "returned")
  ELSE Goto(p, "rollback") /\ UNCHANGED next

\* An exception: the runners of transactions catch it, executeSql does not.
Raise(p) ==
  IF run[p].call.kind = "single" THEN End(p, "threw")
  ELSE Goto(p, "rollback") /\ UNCHANGED next

Begin(p) == \E c \in Call :
  /\ pc[p] = "idle"
  /\ count[p] < MaxRuns
  /\ count' = [count EXCEPT ![p] = @ + 1]
  /\ run' = [run EXCEPT ![p] = [process |-> p, no |-> count[p] + 1, call |-> c]]
  /\ pc' = [pc EXCEPT ![p] = "getSession"]
  /\ next' = [next EXCEPT ![p] = 1]
  /\ link' = [link EXCEPT ![p] = "none"]
  /\ outcome' = [outcome EXCEPT ![p] = "none"]
  /\ UNCHANGED server

\* getSession is outside the try block.  The pool resets a session it reuses.
GetSession(p) ==
  /\ pc[p] = "getSession"
  /\ \/ /\ Goto(p, IF run[p].call.kind = "single" THEN "statement" ELSE "start")
        /\ link' = [link EXCEPT ![p] = "up"]
        /\ ServerRollsBack(p)
        /\ UNCHANGED next
     \/ /\ End(p, "threw")
        /\ UNCHANGED link
        /\ UNCHANGED server

\* A call that has no effect: the server refuses it, or never sees it.
NoEffect(p) ==
  /\ Raise(p)
  /\ \/ UNCHANGED link /\ UNCHANGED server
     \/ link' = [link EXCEPT ![p] = "down"] /\ ServerLosesClient(p)

\* Variant: startTransaction is forgotten, every statement commits itself.
StartForgotten(p) ==
  /\ pc[p] = "start"
  /\ Goto(p, "statement")
  /\ UNCHANGED <<next, link>>
  /\ UNCHANGED server

StartTransaction(p) ==
  /\ pc[p] = "start"
  /\ \/ /\ Goto(p, "statement")
        /\ open' = [open EXCEPT ![p] = TRUE]
        /\ UNCHANGED <<next, link, held, orphans, stored, committed>>
     \/ NoEffect(p)

\* The next statement of the function or of the loop over the vector.
Statement(p) ==
  LET sql == run[p].call.sql
      r   == sql[next[p]]
  IN
  /\ pc[p] = "statement"
  /\ next[p] <= Len(sql)
  /\ r # Stop
  /\ \/ /\ ~Locked(p, r)
        /\ ServerExecutes(p, r)
        /\ IF run[p].call.kind = "single" THEN Goto(p, "close") ELSE Goto(p, "statement")
        /\ next' = [next EXCEPT ![p] = @ + 1]
        /\ UNCHANGED link
     \/ NoEffect(p)

\* Two transactions wait for each other: the server rolls one of them back.
DeadlockVictim(p) ==
  /\ pc[p] = "statement"
  /\ next[p] <= Len(run[p].call.sql)
  /\ run[p].call.sql[next[p]] # Stop
  /\ Locked(p, run[p].call.sql[next[p]])
  /\ Raise(p)
  /\ ServerRollsBack(p)
  /\ UNCHANGED link

\* The connection goes after the server ran the statement.  In a transaction
\* nothing is left of it, like in NoEffect, but the lock.
StatementUnanswered(p) ==
  LET sql == run[p].call.sql
      r   == sql[next[p]]
  IN
  /\ pc[p] = "statement"
  /\ next[p] <= Len(sql)
  /\ r # Stop
  /\ ~Locked(p, r)
  /\ IF open[p] THEN /\ orphans' = orphans \cup held[p] \cup {r}
                     /\ UNCHANGED <<stored, committed>>
     ELSE ServerStores(p, {r}) /\ UNCHANGED orphans
  /\ open' = [open EXCEPT ![p] = FALSE]
  /\ held' = [held EXCEPT ![p] = {}]
  /\ link' = [link EXCEPT ![p] = "down"]
  /\ Raise(p)

\* Variant: the vector's loop does not throw after it.
LoopCommits(p) ==
  LET sql == run[p].call.sql
  IN
  /\ pc[p] = "statement"
  /\ next[p] > Len(sql) \/ sql[next[p]] = Stop
  /\ Goto(p, IF next[p] > Len(sql) \/ run[p].call.kind = "vector" THEN "commit" ELSE "rollback")
  /\ UNCHANGED <<next, link>>
  /\ UNCHANGED server

\* Variant: only mysqlx::Error is caught, the function's own exceptions are not.
ExceptionsEscape(p) ==
  LET sql == run[p].call.sql
  IN
  /\ pc[p] = "statement"
  /\ \/ next[p] > Len(sql) /\ Goto(p, IF run[p].call.kind = "vector" THEN "rollback" ELSE "commit")
        /\ UNCHANGED next
     \/ next[p] <= Len(sql) /\ sql[next[p]] = Stop /\ End(p, "threw")
  /\ UNCHANGED link
  /\ UNCHANGED server

\* The function throws; the loop over the vector breaks at an empty text, and
\* after it, however it ended, the runner itself throws (db_manager.cpp:147).
StatementsEnd(p) ==
  LET sql == run[p].call.sql
  IN
  /\ pc[p] = "statement"
  /\ \/ next[p] > Len(sql) /\ Goto(p, IF run[p].call.kind = "vector" THEN "rollback" ELSE "commit")
     \/ next[p] <= Len(sql) /\ sql[next[p]] = Stop /\ Goto(p, "rollback")
  /\ UNCHANGED <<next, link>>
  /\ UNCHANGED server

\* commit is inside the try block: when its reply is lost the runner goes on
\* to roll back what is already stored.
Commit(p) ==
  /\ pc[p] = "commit"
  /\ \/ Goto(p, "close") /\ ServerCommits(p) /\ UNCHANGED <<next, link>>
     \/ NoEffect(p)
     \/ /\ ServerCommits(p)
        /\ link' = [link EXCEPT ![p] = "down"]
        /\ Raise(p)

\* Variant: the catch blocks only log.
RollbackSkipped(p) ==
  /\ pc[p] = "rollback"
  /\ Goto(p, "close")
  /\ UNCHANGED <<next, link>>
  /\ UNCHANGED server

\* Variant: a rollback that fails is tried again.
RollbackRetried(p) ==
  /\ pc[p] = "rollback"
  /\ \/ /\ link[p] = "up"
        /\ ServerRollsBack(p)
        /\ Goto(p, "close")
        /\ UNCHANGED <<next, link>>
     \/ /\ link' = [link EXCEPT ![p] = "down"]
        /\ ServerLosesClient(p)
        /\ Goto(p, "rollback")
        /\ UNCHANGED next

\* rollback is in the catch block, which nothing catches: on a lost connection
\* it throws again, and session.close() is skipped.
Rollback(p) ==
  /\ pc[p] = "rollback"
  /\ \/ /\ link[p] = "up"
        /\ ServerRollsBack(p)
        /\ Goto(p, "close")
        /\ UNCHANGED <<next, link>>
     \/ /\ link' = [link EXCEPT ![p] = "down"]
        /\ ServerLosesClient(p)
        /\ End(p, "threw")

\* The session goes back to the pool as it is.
Close(p) ==
  /\ pc[p] = "close"
  /\ End(p, "returned")
  /\ UNCHANGED link
  /\ UNCHANGED server

\* The process ends at any point, and a new one takes its place.
Die(p) ==
  /\ pc[p] # "idle"
  /\ End(p, "died")
  /\ link' = [link EXCEPT ![p] = "down"]
  /\ ServerLosesClient(p)

\* The server notices that connections are gone.
DropOrphans ==
  /\ orphans # {}
  /\ orphans' = {}
  /\ UNCHANGED <<open, held, stored, committed>>
  /\ UNCHANGED client

RunStep(p) ==
  \/ GetSession(p) \/ StartTransaction(p) \/ Statement(p) \/ DeadlockVictim(p)
  \/ StatementUnanswered(p) \/ StatementsEnd(p) \/ Commit(p) \/ Rollback(p) \/ Close(p)

Next == (\E p \in Process : Begin(p) \/ RunStep(p) \/ Die(p)) \/ DropOrphans

Spec == Init /\ [][Next]_vars

\* Every call to the server comes back: with a reply, a refusal (a lock that is
\* not granted in time included) or a lost connection.  And the server notices
\* lost connections.
FairSpec ==
  /\ Spec
  /\ \A p \in Process : WF_vars(RunStep(p))
  /\ WF_vars(DropOrphans)

-----------------------------------------------------------------------------
(* Properties *)

Atomic == INSTANCE AtomicRuns

\* Whatever fails, a run stores all of its statements in one step or none, at
\* most once; executeTransactionSql(vector) never stores anything.
RunsAreAtomic == Atomic!Spec

\* No session goes back to the pool with a transaction open, whichever way its
\* run ended: a transaction left open would keep its locks until the session is
\* used again.
SessionsReturnClean == \A p \in Process : pc[p] = "idle" => ~open[p] /\ held[p] = {}

\* What a caller may conclude.  executeSql that returns has stored its row; an
\* exception, or a death, means that nothing is stored unless the connection
\* was lost (then a stored run can be reported as a failure).
OutcomeTells(p) ==
  /\ outcome[p] = "returned" /\ run[p].call.kind = "single" => run[p] \in committed
  /\ outcome[p] = "threw" /\ run[p] \in committed => link[p] = "down"

OutcomesTell == \A p \in Process : OutcomeTells(p)

\* Every run ends: locks are not waited for forever, a rollback that fails is
\* not tried again.
EveryRunEnds == \A p \in Process : pc[p] # "idle" ~> pc[p] = "idle"

\* No row stays locked: what a run locked is released when it ends, or, when
\* its connection is gone, when the server notices.
RowsAreReleased == \A r \in Row :
  (r \in orphans \/ \E p \in Process : r \in held[p])
    ~> ~(r \in orphans \/ \E p \in Process : r \in held[p])
-----------------------------------------------------------------------------
(* The inductive invariant *)

\* A run is numbered when it begins, and committed at most under its number.
RunsAreNumbered ==
  /\ \A p \in Process : pc[p] # "idle" \/ outcome[p] # "none" => count[p] # 0
  /\ \A p \in Process : count[p] # 0 => run[p] \in Run /\ run[p].process = p /\ run[p].no = count[p]
  /\ \A n \in committed : n.no <= count[n.process] /\ Atomic!Storable(n)

\* Only executeTransactionSql has a transaction, between its start and its end.
TransactionIsTheRunners(p) ==
  /\ ~open[p] => held[p] = {}
  /\ open[p] => pc[p] \in {"statement", "commit", "rollback"}
  /\ pc[p] \in {"start", "commit", "rollback"} => run[p].call.kind # "single"
  /\ pc[p] \in {"statement", "commit"} => open[p] = (run[p].call.kind # "single")
  /\ pc[p] \in {"getSession", "start"} => next[p] = 1
  /\ pc[p] = "statement" /\ run[p].call.kind = "single" => next[p] = 1

\* The transaction holds the statements executed so far, and nothing else.
TransactionHoldsItsStatements(p) ==
  pc[p] \in {"statement", "commit"} /\ run[p].call.kind # "single" =>
    /\ next[p] \in 1..(Len(run[p].call.sql) + 1)
    /\ held[p] = {run[p].call.sql[i] : i \in 1..(next[p] - 1)}
    /\ pc[p] = "commit" => next[p] = Len(run[p].call.sql) + 1 /\ run[p].call.kind = "function"

\* Where a run can be committed: from the reply to its commit on, or before
\* that when the connection is lost.
CommitComesLast(p) ==
  /\ pc[p] \in {"getSession", "start", "statement", "commit"} => run[p] \notin committed
  /\ pc[p] = "rollback" /\ run[p] \in committed => link[p] = "down"
  /\ pc[p] = "close" /\ run[p].call.kind = "single" => run[p] \in committed
  /\ pc[p] # "idle" => outcome[p] = "none"

RunInv(p) ==
  /\ TransactionIsTheRunners(p)
  /\ TransactionHoldsItsStatements(p)
  /\ CommitComesLast(p)
  /\ OutcomeTells(p)

RunnerIInv == TypeOK /\ RunsAreNumbered /\ \A p \in Process : RunInv(p)
=============================================================================
