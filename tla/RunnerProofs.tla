---------------------------- MODULE RunnerProofs ----------------------------
(***************************************************************************)
(* Proofs about TransactionRunner: RunnerIInv is inductive, and with it every run *)
(* is atomic, whatever calls, rows and processes there are.                 *)
(***************************************************************************)
EXTENDS TransactionRunner, TLAPS

Outcome == {"none", "returned", "threw", "died"}
Link    == {"none", "up", "down"}

\* Process p, in a run, gets these values; the others keep theirs.
Effect(p, step, i, l, o, h, how) ==
  /\ pc' = [pc EXCEPT ![p] = step]
  /\ next' = [next EXCEPT ![p] = i]
  /\ link' = [link EXCEPT ![p] = l]
  /\ open' = [open EXCEPT ![p] = o]
  /\ held' = [held EXCEPT ![p] = h]
  /\ outcome' = [outcome EXCEPT ![p] = how]
  /\ UNCHANGED <<run, count>>

\* The run of p is committed in this step, or nothing is.
CommitsAtMost(p) ==
  \/ UNCHANGED <<stored, committed>>
  \/ /\ Atomic!Storable(run[p])
     /\ \E rows \in SUBSET Row : ServerStores(p, rows)

\* What holds of a process in a run.
InRun(p) ==
  /\ pc[p] \in Step /\ next[p] \in Nat /\ link[p] \in Link /\ open[p] \in BOOLEAN
  /\ held[p] \in SUBSET Row /\ outcome[p] = "none"
  /\ pc = [pc EXCEPT ![p] = pc[p]] /\ next = [next EXCEPT ![p] = next[p]]
  /\ link = [link EXCEPT ![p] = link[p]] /\ open = [open EXCEPT ![p] = open[p]]
  /\ held = [held EXCEPT ![p] = held[p]] /\ outcome = [outcome EXCEPT ![p] = outcome[p]]
  /\ run[p] \in Run
  /\ run[p].call.kind \in Kind
  /\ run[p].call.sql \in Seq(Row \cup {Stop})
  /\ Len(run[p].call.sql) \in Nat
  /\ DOMAIN run[p].call.sql = 1..Len(run[p].call.sql)
  /\ \A i \in 1..Len(run[p].call.sql) : run[p].call.sql[i] \in Row \cup {Stop}
  /\ run[p].call.kind = "single" => Len(run[p].call.sql) = 1 /\ run[p].call.sql[1] \in Row
  /\ orphans \in SUBSET Row
  /\ RunInv(p)

\* What a run is made of.
LEMMA RunTyped ==
  ASSUME NEW n \in Run
  PROVE  /\ n.process \in Process
         /\ n.no \in 1..MaxRuns
         /\ n.call \in Call
         /\ n.call.kind \in Kind
         /\ n.call.sql \in Seq(Row \cup {Stop})
         /\ Len(n.call.sql) \in Nat
         /\ DOMAIN n.call.sql = 1..Len(n.call.sql)
         /\ \A i \in 1..Len(n.call.sql) : n.call.sql[i] \in Row \cup {Stop}
         /\ n.call.kind = "single" => Len(n.call.sql) = 1 /\ n.call.sql[1] \in Row
  BY ConstantsAssumption DEF Run

\* A step of one process within its run keeps RunnerIInv if it keeps the invariant of
\* that process.
LEMMA EffectKeeps ==
  ASSUME NEW p \in Process, RunnerIInv, pc[p] # "idle",
         NEW step \in Step, NEW i \in Nat, NEW l \in Link,
         NEW o \in BOOLEAN, NEW h \in SUBSET Row, NEW how \in Outcome,
         Effect(p, step, i, l, o, h, how), orphans' \subseteq Row, CommitsAtMost(p),
         /\ pc'[p] = step /\ next'[p] = i /\ link'[p] = l /\ open'[p] = o
         /\ held'[p] = h /\ outcome'[p] = how /\ run'[p] = run[p]
         => RunInv(p)'
  PROVE  RunnerIInv'
<1>1. /\ run[p] \in Run /\ count[p] # 0 /\ run[p].process = p /\ run[p].no = count[p]
      /\ run' = run /\ count' = count
  BY DEF RunnerIInv, TypeOK, RunsAreNumbered, Effect
<1>2. /\ pc' \in [Process -> Step] /\ next' \in [Process -> Nat] /\ link' \in [Process -> Link]
      /\ open' \in [Process -> BOOLEAN] /\ held' \in [Process -> SUBSET Row]
      /\ outcome' \in [Process -> Outcome]
  BY DEF RunnerIInv, TypeOK, Effect, Link, Outcome
<1>3. /\ pc'[p] = step /\ next'[p] = i /\ link'[p] = l /\ open'[p] = o
      /\ held'[p] = h /\ outcome'[p] = how /\ run'[p] = run[p]
  BY <1>1 DEF RunnerIInv, TypeOK, Effect
<1>4. ASSUME NEW q \in Process, q # p
      PROVE  /\ pc'[q] = pc[q] /\ next'[q] = next[q] /\ link'[q] = link[q] /\ open'[q] = open[q]
             /\ held'[q] = held[q] /\ outcome'[q] = outcome[q] /\ run'[q] = run[q]
  BY <1>1, <1>4 DEF RunnerIInv, TypeOK, Effect
<1>5. \/ committed' = committed
      \/ committed' = committed \cup {run[p]} /\ Atomic!Storable(run[p])
  <2>1. CASE UNCHANGED <<stored, committed>>
    BY <2>1
  <2>2. CASE Atomic!Storable(run[p]) /\ \E rows \in SUBSET Row : ServerStores(p, rows)
    BY <2>2 DEF ServerStores
  <2> QED
    BY <2>1, <2>2 DEF CommitsAtMost
<1>6. TypeOK'
  <2>1. stored' \in [Row -> Run \cup {None}] /\ committed' \subseteq Run
    BY <1>1 DEF RunnerIInv, TypeOK, CommitsAtMost, ServerStores
  <2>2. \A q \in Process : pc'[q] # "idle" => run[q] \in Run
    BY <1>1, <1>4 DEF RunnerIInv, TypeOK
  <2> QED
    BY <1>1, <1>2, <2>1, <2>2 DEF RunnerIInv, TypeOK, Link, Outcome
<1>7. RunsAreNumbered'
  <2>1. \A q \in Process : pc'[q] # "idle" \/ outcome'[q] # "none" => count'[q] # 0
    BY <1>1, <1>4 DEF RunnerIInv, RunsAreNumbered
  <2>2. \A n \in committed' : n.no <= count'[n.process] /\ Atomic!Storable(n)'
    <3>1. \A n \in committed : n.no <= count[n.process] /\ Atomic!Storable(n)
      BY DEF RunnerIInv, RunsAreNumbered
    <3>2. run[p].no <= count[p]
      BY <1>1 DEF RunnerIInv, TypeOK
    <3> QED
      BY <1>1, <1>5, <3>1, <3>2 DEF Atomic!Storable, Atomic!Written
  <2> QED
    BY <1>1, <2>1, <2>2 DEF RunnerIInv, RunsAreNumbered
<1>8. ASSUME NEW q \in Process
      PROVE  RunInv(q)'
  <2>1. CASE q = p
    BY <1>3, <2>1
  <2>2. CASE q # p
    <3>0. /\ pc'[q] = pc[q] /\ next'[q] = next[q] /\ link'[q] = link[q] /\ open'[q] = open[q]
          /\ held'[q] = held[q] /\ outcome'[q] = outcome[q] /\ run'[q] = run[q]
      BY <1>4, <2>2
    <3>1. /\ run[q] \in committed => run[q] \in committed'
          /\ run[q] \in committed' /\ run[q] # run[p] => run[q] \in committed
      BY <1>5
    <3>2. pc[q] # "idle" \/ outcome[q] # "none" => run[q] # run[p]
      <4>1. pc[q] # "idle" \/ outcome[q] # "none" => run[q].process = q
        BY DEF RunnerIInv, RunsAreNumbered
      <4> QED
        BY <1>1, <2>2, <4>1
    <3>3. RunInv(q)
      BY DEF RunnerIInv
    <3>4. TransactionIsTheRunners(q)'
      BY <3>0, <3>3 DEF RunInv, TransactionIsTheRunners
    <3>5. TransactionHoldsItsStatements(q)'
      BY <3>0, <3>3 DEF RunInv, TransactionHoldsItsStatements
    <3>6. CommitComesLast(q)'
      BY <3>0, <3>1, <3>2, <3>3 DEF RunInv, CommitComesLast
    <3>7. OutcomeTells(q)'
      BY <3>0, <3>1, <3>2, <3>3 DEF RunInv, OutcomeTells
    <3> QED
      BY <3>4, <3>5, <3>6, <3>7 DEF RunInv
  <2> QED
    BY <2>1, <2>2
<1> QED
  BY <1>6, <1>7, <1>8 DEF RunnerIInv

LEMMA InRunHolds ==
  ASSUME NEW p \in Process, RunnerIInv, pc[p] # "idle"
  PROVE  InRun(p)
<1>1. run[p] \in Run
  BY DEF RunnerIInv, TypeOK
<1>2. outcome[p] = "none" /\ RunInv(p)
  BY DEF RunnerIInv, RunInv, CommitComesLast
<1>3. /\ pc[p] \in Step /\ next[p] \in Nat /\ link[p] \in Link /\ open[p] \in BOOLEAN
      /\ held[p] \in SUBSET Row /\ orphans \in SUBSET Row
  BY DEF RunnerIInv, TypeOK, Link
<1>4. /\ pc = [pc EXCEPT ![p] = pc[p]] /\ next = [next EXCEPT ![p] = next[p]]
      /\ link = [link EXCEPT ![p] = link[p]] /\ open = [open EXCEPT ![p] = open[p]]
      /\ held = [held EXCEPT ![p] = held[p]] /\ outcome = [outcome EXCEPT ![p] = outcome[p]]
  BY DEF RunnerIInv, TypeOK
<1> QED
  BY <1>1, <1>2, <1>3, <1>4, RunTyped DEF InRun

\* An exception in a run, whatever became of its transaction.
LEMMA RaiseKeeps ==
  ASSUME NEW p \in Process, RunnerIInv, pc[p] \in {"start", "statement", "commit"}, Raise(p),
         NEW l \in Link, NEW o \in BOOLEAN, NEW h \in SUBSET Row,
         link' = [link EXCEPT ![p] = l], open' = [open EXCEPT ![p] = o],
         held' = [held EXCEPT ![p] = h],
         o => open[p], o \/ h = {}, orphans' \subseteq Row, CommitsAtMost(p),
         committed' # committed => l = "down"
  PROVE  RunnerIInv'
<1>0. InRun(p)
  BY InRunHolds
<1>1. CASE run[p].call.kind = "single"
  <2>1. Effect(p, "idle", next[p], l, o, h, "threw")
    BY <1>0, <1>1 DEF InRun, Effect, Raise, End
  <2>2. ~o
    BY <1>1 DEF RunnerIInv, RunInv, TransactionIsTheRunners
  <2>3. run[p] \notin committed
    BY DEF RunnerIInv, RunInv, CommitComesLast
  <2>4. ASSUME /\ pc'[p] = "idle" /\ next'[p] = next[p] /\ link'[p] = l /\ open'[p] = o
               /\ held'[p] = h /\ outcome'[p] = "threw" /\ run'[p] = run[p]
        PROVE  RunInv(p)'
    BY <2>2, <2>3, <2>4 DEF RunInv, TransactionIsTheRunners, TransactionHoldsItsStatements,
      CommitComesLast, OutcomeTells
  <2> QED
    BY <2>1, <2>4, EffectKeeps, <1>0 DEF InRun, Step, Outcome
<1>2. CASE run[p].call.kind # "single"
  <2>1. Effect(p, "rollback", next[p], l, o, h, "none")
    BY <1>0, <1>2 DEF InRun, Effect, Raise, Goto
  <2>2. run[p] \notin committed
    BY DEF RunnerIInv, RunInv, CommitComesLast
  <2>3. ASSUME /\ pc'[p] = "rollback" /\ next'[p] = next[p] /\ link'[p] = l /\ open'[p] = o
               /\ held'[p] = h /\ outcome'[p] = "none" /\ run'[p] = run[p]
        PROVE  RunInv(p)'
    BY <1>2, <2>2, <2>3 DEF RunInv, TransactionIsTheRunners, TransactionHoldsItsStatements,
      CommitComesLast, OutcomeTells
  <2> QED
    BY <2>1, <2>3, EffectKeeps, <1>0 DEF InRun, Step, Outcome
<1> QED
  BY <1>1, <1>2

\* A call without effect, refused or never seen by the server.
LEMMA NoEffectKeeps ==
  ASSUME NEW p \in Process, RunnerIInv, pc[p] \in {"start", "statement", "commit"}, NoEffect(p)
  PROVE  RunnerIInv'
<1>0. InRun(p)
  BY InRunHolds
<1>1. CASE UNCHANGED link /\ UNCHANGED server
  <2>1. Raise(p) /\ CommitsAtMost(p)
    BY <1>1 DEF NoEffect, server, CommitsAtMost
  <2>2. open[p] \/ held[p] = {}
    BY <1>0 DEF InRun, RunInv, TransactionIsTheRunners
  <2> QED
    BY <1>1, <2>1, <2>2, RaiseKeeps, <1>0, ZenonT(30) DEF InRun, server
<1>2. CASE link' = [link EXCEPT ![p] = "down"] /\ ServerLosesClient(p)
  <2>1. Raise(p) /\ CommitsAtMost(p) /\ orphans' \subseteq Row
    BY <1>0, <1>2 DEF InRun, NoEffect, ServerLosesClient, CommitsAtMost
  <2>2. /\ link' = [link EXCEPT ![p] = "down"]
        /\ open' = [open EXCEPT ![p] = FALSE]
        /\ held' = [held EXCEPT ![p] = {}]
    BY <1>2 DEF ServerLosesClient
  <2>3. "down" \in Link /\ FALSE \in BOOLEAN /\ {} \in SUBSET Row
    BY DEF Link
  <2> QED
    BY <2>1, <2>2, <2>3, RaiseKeeps
<1> QED
  BY <1>1, <1>2 DEF NoEffect

LEMMA GetSessionKeeps ==
  ASSUME NEW p \in Process, RunnerIInv, GetSession(p)
  PROVE  RunnerIInv'
<1>0. InRun(p) /\ pc[p] = "getSession"
  BY InRunHolds DEF GetSession
<1>1. CASE /\ Goto(p, IF run[p].call.kind = "single" THEN "statement" ELSE "start")
           /\ link' = [link EXCEPT ![p] = "up"]
           /\ ServerRollsBack(p)
           /\ UNCHANGED next
  <2> DEFINE step == IF run[p].call.kind = "single" THEN "statement" ELSE "start"
             closed == FALSE
  <2>1. Effect(p, step, next[p], "up", closed, {}, outcome[p])
    BY <1>0, <1>1 DEF InRun, Effect, Goto, ServerRollsBack
  <2>2. CommitsAtMost(p) /\ orphans' \subseteq Row
    BY <1>0, <1>1 DEF InRun, CommitsAtMost, ServerRollsBack
  <2>3. ASSUME /\ pc'[p] = step /\ next'[p] = next[p] /\ link'[p] = "up" /\ open'[p] = closed
               /\ held'[p] = {} /\ outcome'[p] = outcome[p] /\ run'[p] = run[p]
        PROVE  RunInv(p)'
    <3>1. committed' = committed
      BY <1>1 DEF ServerRollsBack
    <3>2. TransactionIsTheRunners(p)'
      BY <1>0, <2>3 DEF InRun, RunInv, TransactionIsTheRunners
    <3>3. TransactionHoldsItsStatements(p)'
      BY <1>0, <2>3 DEF InRun, TransactionHoldsItsStatements
    <3>4. CommitComesLast(p)' /\ OutcomeTells(p)'
      BY <1>0, <2>3, <3>1 DEF InRun, RunInv, CommitComesLast, OutcomeTells
    <3> QED
      BY <3>2, <3>3, <3>4 DEF RunInv
  <2>4. step \in Step /\ closed \in BOOLEAN /\ "up" \in Link /\ {} \in SUBSET Row
    BY DEF Step, Link
  <2> HIDE DEF step, closed
  <2> QED
    BY <2>1, <2>2, <2>3, <2>4, EffectKeeps, <1>0 DEF InRun, Outcome
<1>2. CASE End(p, "threw") /\ UNCHANGED link /\ UNCHANGED server
  <2>1. Effect(p, "idle", next[p], link[p], open[p], held[p], "threw")
    BY <1>0, <1>2 DEF InRun, Effect, End, server
  <2>2. CommitsAtMost(p) /\ orphans' \subseteq Row /\ committed' = committed
    BY <1>0, <1>2 DEF InRun, CommitsAtMost, server
  <2>3. ASSUME /\ pc'[p] = "idle" /\ next'[p] = next[p] /\ link'[p] = link[p] /\ open'[p] = open[p]
               /\ held'[p] = held[p] /\ outcome'[p] = "threw" /\ run'[p] = run[p]
        PROVE  RunInv(p)'
    BY <1>0, <2>2, <2>3 DEF InRun, RunInv, TransactionIsTheRunners,
      TransactionHoldsItsStatements, CommitComesLast, OutcomeTells
  <2> QED
    BY <2>1, <2>2, <2>3, EffectKeeps, <1>0 DEF InRun, Step, Outcome
<1> QED
  BY <1>1, <1>2 DEF GetSession

LEMMA StartTransactionKeeps ==
  ASSUME NEW p \in Process, RunnerIInv, StartTransaction(p)
  PROVE  RunnerIInv'
<1>0. InRun(p) /\ pc[p] = "start"
  BY InRunHolds DEF StartTransaction
<1>1. CASE /\ Goto(p, "statement")
           /\ open' = [open EXCEPT ![p] = TRUE]
           /\ UNCHANGED <<next, link, held, orphans, stored, committed>>
  <2> DEFINE opened == TRUE
  <2>1. Effect(p, "statement", next[p], link[p], opened, held[p], outcome[p])
    BY <1>0, <1>1 DEF InRun, Effect, Goto
  <2>2. CommitsAtMost(p) /\ orphans' \subseteq Row /\ committed' = committed
    BY <1>0, <1>1 DEF InRun, CommitsAtMost
  <2>3. ASSUME /\ pc'[p] = "statement" /\ next'[p] = next[p] /\ link'[p] = link[p] /\ open'[p] = opened
               /\ held'[p] = held[p] /\ outcome'[p] = outcome[p] /\ run'[p] = run[p]
        PROVE  RunInv(p)'
    <3>1. run[p].call.kind # "single" /\ next[p] = 1 /\ held[p] = {}
      BY <1>0 DEF InRun, RunInv, TransactionIsTheRunners
    <3>2. TransactionIsTheRunners(p)'
      BY <2>3, <3>1 DEF TransactionIsTheRunners
    <3>3. TransactionHoldsItsStatements(p)'
      BY <1>0, <2>3, <3>1 DEF InRun, TransactionHoldsItsStatements
    <3>4. CommitComesLast(p)' /\ OutcomeTells(p)'
      BY <1>0, <2>2, <2>3 DEF InRun, RunInv, CommitComesLast, OutcomeTells
    <3> QED
      BY <3>2, <3>3, <3>4 DEF RunInv
  <2>4. opened \in BOOLEAN
    OBVIOUS
  <2> HIDE DEF opened
  <2> QED
    BY <2>1, <2>2, <2>3, <2>4, EffectKeeps, <1>0 DEF InRun, Step, Outcome
<1>2. CASE NoEffect(p)
  BY <1>0, <1>2, NoEffectKeeps
<1> QED
  BY <1>1, <1>2 DEF StartTransaction

LEMMA StatementKeeps ==
  ASSUME NEW p \in Process, RunnerIInv, Statement(p)
  PROVE  RunnerIInv'
<1> DEFINE sql == run[p].call.sql
           r   == sql[next[p]]
<1>0. InRun(p) /\ pc[p] = "statement" /\ next[p] <= Len(sql) /\ r # Stop
  BY InRunHolds DEF Statement
<1>1. next[p] \in 1..Len(sql)
  BY <1>0 DEF InRun, RunInv, TransactionIsTheRunners, TransactionHoldsItsStatements, Kind
<1>2. r \in Row
  BY <1>0, <1>1 DEF InRun
<1>3. ASSUME ServerExecutes(p, r), UNCHANGED link, next' = [next EXCEPT ![p] = @ + 1],
             run[p].call.kind # "single", Goto(p, "statement")
      PROVE  RunnerIInv'
  <2>0. open[p] /\ held' = [held EXCEPT ![p] = @ \cup {r}] /\ UNCHANGED <<open, orphans, stored, committed>>
    BY <1>0, <1>3 DEF InRun, RunInv, TransactionIsTheRunners, ServerExecutes
  <2>1. Effect(p, "statement", next[p] + 1, link[p], open[p], held[p] \cup {r}, outcome[p])
    BY <1>0, <1>3, <2>0 DEF InRun, Effect, Goto
  <2>2. CommitsAtMost(p) /\ orphans' \subseteq Row /\ committed' = committed
    BY <1>0, <2>0 DEF InRun, CommitsAtMost
  <2>3. ASSUME /\ pc'[p] = "statement" /\ next'[p] = next[p] + 1 /\ link'[p] = link[p] /\ open'[p] = open[p]
               /\ held'[p] = held[p] \cup {r} /\ outcome'[p] = outcome[p] /\ run'[p] = run[p]
        PROVE  RunInv(p)'
    <3>1. TransactionIsTheRunners(p)'
      BY <1>0, <1>3, <2>0, <2>3 DEF TransactionIsTheRunners
    <3>2. held[p] = {sql[i] : i \in 1..(next[p] - 1)}
      BY <1>0, <1>3 DEF InRun, RunInv, TransactionHoldsItsStatements
    <3>3. held[p] \cup {r} = {sql[i] : i \in 1..next[p]}
      BY <1>1, <3>2
    <3>4. TransactionHoldsItsStatements(p)'
      BY <1>0, <1>1, <2>3, <3>3 DEF InRun, TransactionHoldsItsStatements
    <3>5. CommitComesLast(p)' /\ OutcomeTells(p)'
      BY <1>0, <2>2, <2>3 DEF InRun, RunInv, CommitComesLast, OutcomeTells
    <3> QED
      BY <3>1, <3>4, <3>5 DEF RunInv
  <2>4. next[p] + 1 \in Nat /\ held[p] \cup {r} \in SUBSET Row
    BY <1>0, <1>2 DEF InRun
  <2> QED
    BY <2>1, <2>2, <2>3, <2>4, EffectKeeps, <1>0 DEF InRun, Step, Outcome
<1>4. ASSUME ServerExecutes(p, r), UNCHANGED link, next' = [next EXCEPT ![p] = @ + 1],
             run[p].call.kind = "single", Goto(p, "close")
      PROVE  RunnerIInv'
  <2>0. ~open[p] /\ ServerStores(p, {r}) /\ UNCHANGED <<open, held, orphans>>
    BY <1>0, <1>4 DEF InRun, RunInv, TransactionIsTheRunners, ServerExecutes
  <2>1. Effect(p, "close", next[p] + 1, link[p], open[p], held[p], outcome[p])
    BY <1>0, <1>4, <2>0 DEF InRun, Effect, Goto
  <2>2. Atomic!Storable(run[p])
    BY <1>0, <1>4, ConstantsAssumption DEF InRun, Atomic!Storable, Atomic!Written
  <2>3. CommitsAtMost(p) /\ orphans' \subseteq Row
    BY <1>0, <1>2, <2>0, <2>2 DEF InRun, CommitsAtMost
  <2>4. run[p] \in committed' /\ next[p] + 1 \in Nat
    BY <1>0, <2>0 DEF InRun, ServerStores
  <2>5. ASSUME /\ pc'[p] = "close" /\ next'[p] = next[p] + 1 /\ link'[p] = link[p] /\ open'[p] = open[p]
               /\ held'[p] = held[p] /\ outcome'[p] = outcome[p] /\ run'[p] = run[p]
        PROVE  RunInv(p)'
    BY <1>0, <2>0, <2>4, <2>5 DEF InRun, RunInv, TransactionIsTheRunners,
      TransactionHoldsItsStatements, CommitComesLast, OutcomeTells
  <2> QED
    BY <2>1, <2>3, <2>4, <2>5, EffectKeeps, <1>0 DEF InRun, Step, Outcome
<1>5. CASE NoEffect(p)
  BY <1>0, <1>5, NoEffectKeeps
<1> QED
  BY <1>3, <1>4, <1>5 DEF Statement

LEMMA DeadlockVictimKeeps ==
  ASSUME NEW p \in Process, RunnerIInv, DeadlockVictim(p)
  PROVE  RunnerIInv'
<1>0. InRun(p) /\ pc[p] = "statement"
  BY InRunHolds DEF DeadlockVictim
<1>1. /\ Raise(p) /\ link' = [link EXCEPT ![p] = link[p]]
      /\ open' = [open EXCEPT ![p] = FALSE] /\ held' = [held EXCEPT ![p] = {}]
      /\ CommitsAtMost(p) /\ committed' = committed /\ orphans' \subseteq Row
  BY <1>0 DEF InRun, DeadlockVictim, ServerRollsBack, CommitsAtMost
<1>2. link[p] \in Link /\ FALSE \in BOOLEAN /\ {} \in SUBSET Row
  BY <1>0 DEF InRun
<1> QED
  BY <1>0, <1>1, <1>2, RaiseKeeps

LEMMA StatementUnansweredKeeps ==
  ASSUME NEW p \in Process, RunnerIInv, StatementUnanswered(p)
  PROVE  RunnerIInv'
<1> DEFINE sql == run[p].call.sql
           r   == sql[next[p]]
<1>0. InRun(p) /\ pc[p] = "statement" /\ next[p] <= Len(sql) /\ r # Stop
  BY InRunHolds DEF StatementUnanswered
<1>1. next[p] \in 1..Len(sql)
  BY <1>0 DEF InRun, RunInv, TransactionIsTheRunners, TransactionHoldsItsStatements, Kind
<1>2. r \in Row
  BY <1>0, <1>1 DEF InRun
<1>3. /\ Raise(p) /\ link' = [link EXCEPT ![p] = "down"]
      /\ open' = [open EXCEPT ![p] = FALSE] /\ held' = [held EXCEPT ![p] = {}]
  BY DEF StatementUnanswered
<1>4. orphans' \subseteq Row /\ CommitsAtMost(p)
  <2>1. CASE open[p]
    BY <1>0, <1>2, <2>1 DEF InRun, StatementUnanswered, CommitsAtMost
  <2>2. CASE ~open[p]
    <3>1. run[p].call.kind = "single"
      BY <1>0, <2>2 DEF InRun, RunInv, TransactionIsTheRunners
    <3>2. Atomic!Storable(run[p])
      BY <1>0, <3>1, ConstantsAssumption DEF InRun, Atomic!Storable, Atomic!Written
    <3>3. ServerStores(p, {r}) /\ orphans' = orphans
      BY <2>2 DEF StatementUnanswered
    <3> QED
      BY <1>0, <1>2, <3>2, <3>3 DEF InRun, CommitsAtMost
  <2> QED
    BY <2>1, <2>2
<1>5. "down" \in Link /\ FALSE \in BOOLEAN /\ {} \in SUBSET Row
  BY DEF Link
<1> QED
  BY <1>0, <1>3, <1>4, <1>5, RaiseKeeps

LEMMA StatementsEndKeeps ==
  ASSUME NEW p \in Process, RunnerIInv, StatementsEnd(p)
  PROVE  RunnerIInv'
<1> DEFINE sql == run[p].call.sql
<1>0. /\ InRun(p) /\ pc[p] = "statement" /\ UNCHANGED <<next, link>>
      /\ UNCHANGED <<open, held, orphans, stored, committed>>
  BY InRunHolds DEF StatementsEnd, server
<1>1. run[p].call.kind # "single"
  BY <1>0, ConstantsAssumption DEF InRun, RunInv, TransactionIsTheRunners, StatementsEnd
<1>2. CommitsAtMost(p) /\ orphans' \subseteq Row
  BY <1>0 DEF InRun, CommitsAtMost
<1>3. CASE Goto(p, "rollback")
  <2>1. Effect(p, "rollback", next[p], link[p], open[p], held[p], outcome[p])
    BY <1>0, <1>3 DEF InRun, Effect, Goto
  <2>2. ASSUME /\ pc'[p] = "rollback" /\ next'[p] = next[p] /\ link'[p] = link[p] /\ open'[p] = open[p]
               /\ held'[p] = held[p] /\ outcome'[p] = outcome[p] /\ run'[p] = run[p]
        PROVE  RunInv(p)'
    BY <1>0, <1>1, <2>2 DEF InRun, RunInv, TransactionIsTheRunners,
      TransactionHoldsItsStatements, CommitComesLast, OutcomeTells
  <2> QED
    BY <1>2, <2>1, <2>2, EffectKeeps, <1>0 DEF InRun, Step, Outcome
<1>4. CASE next[p] > Len(sql) /\ run[p].call.kind # "vector" /\ Goto(p, "commit")
  <2>1. Effect(p, "commit", next[p], link[p], open[p], held[p], outcome[p])
    BY <1>0, <1>4 DEF InRun, Effect, Goto
  <2>2. ASSUME /\ pc'[p] = "commit" /\ next'[p] = next[p] /\ link'[p] = link[p] /\ open'[p] = open[p]
               /\ held'[p] = held[p] /\ outcome'[p] = outcome[p] /\ run'[p] = run[p]
        PROVE  RunInv(p)'
    <3>1. /\ run[p].call.kind = "function"
          /\ next[p] \in 1..(Len(sql) + 1)
          /\ held[p] = {sql[i] : i \in 1..(next[p] - 1)}
      BY <1>0, <1>1, <1>4 DEF InRun, RunInv, TransactionHoldsItsStatements, Kind
    <3>2. next[p] = Len(sql) + 1
      BY <1>0, <1>4, <3>1 DEF InRun
    <3>3. TransactionIsTheRunners(p)'
      BY <1>0, <1>1, <2>2 DEF InRun, RunInv, TransactionIsTheRunners
    <3>4. TransactionHoldsItsStatements(p)'
      BY <2>2, <3>1, <3>2 DEF TransactionHoldsItsStatements
    <3>5. CommitComesLast(p)' /\ OutcomeTells(p)'
      BY <1>0, <2>2 DEF InRun, RunInv, CommitComesLast, OutcomeTells
    <3> QED
      BY <3>3, <3>4, <3>5 DEF RunInv
  <2> QED
    BY <1>2, <2>1, <2>2, EffectKeeps, <1>0 DEF InRun, Step, Outcome
<1> QED
  BY <1>3, <1>4 DEF StatementsEnd

\* At a commit the transaction is the whole run, which can be stored.
LEMMA CommitsTheRun ==
  ASSUME NEW p \in Process, RunnerIInv, pc[p] = "commit"
  PROVE  /\ open[p]
         /\ run[p] \notin committed
         /\ held[p] = Atomic!Written(run[p])
         /\ Atomic!Storable(run[p])
<1>0. InRun(p)
  BY InRunHolds
<1>1. open[p] /\ run[p] \notin committed /\ run[p].call.kind # "single"
  BY <1>0 DEF InRun, RunInv, TransactionIsTheRunners, CommitComesLast
<1>2. /\ run[p].call.kind = "function"
      /\ held[p] = {run[p].call.sql[i] : i \in 1..(next[p] - 1)}
      /\ next[p] - 1 = Len(run[p].call.sql)
  BY <1>0, <1>1, SMTT(30) DEF InRun, RunInv, TransactionHoldsItsStatements
<1>3. held[p] = Atomic!Written(run[p])
  BY <1>0, <1>2 DEF InRun, Atomic!Written
<1>4. Stop \notin held[p]
  BY <1>0, ConstantsAssumption DEF InRun
<1> QED
  BY <1>1, <1>2, <1>3, <1>4 DEF Atomic!Storable

LEMMA CommitKeeps ==
  ASSUME NEW p \in Process, RunnerIInv, Commit(p)
  PROVE  RunnerIInv'
<1>0. InRun(p) /\ pc[p] = "commit"
  BY InRunHolds DEF Commit
<1>1. run[p].call.kind # "single"
  BY <1>0 DEF InRun, RunInv, TransactionIsTheRunners
<1> DEFINE closed == FALSE
<1>2. ASSUME ServerCommits(p)
      PROVE  /\ CommitsAtMost(p) /\ orphans' \subseteq Row
             /\ open' = [open EXCEPT ![p] = closed] /\ held' = [held EXCEPT ![p] = {}]
  BY <1>0, <1>2, CommitsTheRun DEF InRun, CommitsAtMost, ServerCommits
<1>3. CASE Goto(p, "close") /\ ServerCommits(p) /\ UNCHANGED <<next, link>>
  <2>1. Effect(p, "close", next[p], link[p], closed, {}, outcome[p])
    BY <1>0, <1>2, <1>3 DEF InRun, Effect, Goto
  <2>2. ASSUME /\ pc'[p] = "close" /\ next'[p] = next[p] /\ link'[p] = link[p] /\ open'[p] = closed
               /\ held'[p] = {} /\ outcome'[p] = outcome[p] /\ run'[p] = run[p]
        PROVE  RunInv(p)'
    BY <1>0, <1>1, <2>2 DEF InRun, RunInv, TransactionIsTheRunners,
      TransactionHoldsItsStatements, CommitComesLast, OutcomeTells
  <2>3. closed \in BOOLEAN /\ {} \in SUBSET Row
    OBVIOUS
  <2> HIDE DEF closed
  <2> QED
    BY <1>2, <1>3, <2>1, <2>2, <2>3, EffectKeeps, <1>0 DEF InRun, Step, Outcome
<1>4. CASE NoEffect(p)
  BY <1>0, <1>4, NoEffectKeeps
<1>5. CASE ServerCommits(p) /\ link' = [link EXCEPT ![p] = "down"] /\ Raise(p)
  <2>1. closed \in BOOLEAN /\ {} \in SUBSET Row /\ "down" \in Link /\ (closed => open[p])
    BY DEF Link
  <2> HIDE DEF closed
  <2> QED
    BY <1>0, <1>2, <1>5, <2>1, RaiseKeeps
<1> QED
  BY <1>3, <1>4, <1>5 DEF Commit

LEMMA RollbackKeeps ==
  ASSUME NEW p \in Process, RunnerIInv, Rollback(p)
  PROVE  RunnerIInv'
<1>0. InRun(p) /\ pc[p] = "rollback" /\ run[p].call.kind # "single"
  BY InRunHolds DEF Rollback, InRun, RunInv, TransactionIsTheRunners
<1> DEFINE closed == FALSE
<1>1. CASE link[p] = "up" /\ ServerRollsBack(p) /\ Goto(p, "close") /\ UNCHANGED <<next, link>>
  <2>1. Effect(p, "close", next[p], link[p], closed, {}, outcome[p])
    BY <1>0, <1>1 DEF InRun, Effect, Goto, ServerRollsBack
  <2>2. CommitsAtMost(p) /\ orphans' \subseteq Row
    BY <1>0, <1>1 DEF InRun, CommitsAtMost, ServerRollsBack
  <2>3. ASSUME /\ pc'[p] = "close" /\ next'[p] = next[p] /\ link'[p] = link[p] /\ open'[p] = closed
               /\ held'[p] = {} /\ outcome'[p] = outcome[p] /\ run'[p] = run[p]
        PROVE  RunInv(p)'
    BY <1>0, <2>3 DEF InRun, RunInv, TransactionIsTheRunners,
      TransactionHoldsItsStatements, CommitComesLast, OutcomeTells
  <2>4. closed \in BOOLEAN /\ {} \in SUBSET Row
    OBVIOUS
  <2> HIDE DEF closed
  <2> QED
    BY <2>1, <2>2, <2>3, <2>4, EffectKeeps, <1>0 DEF InRun, Step, Outcome
<1>2. CASE link' = [link EXCEPT ![p] = "down"] /\ ServerLosesClient(p) /\ End(p, "threw")
  <2>1. Effect(p, "idle", next[p], "down", closed, {}, "threw")
    BY <1>0, <1>2 DEF InRun, Effect, End, ServerLosesClient
  <2>2. CommitsAtMost(p) /\ orphans' \subseteq Row
    BY <1>0, <1>2 DEF InRun, CommitsAtMost, ServerLosesClient
  <2>3. ASSUME /\ pc'[p] = "idle" /\ next'[p] = next[p] /\ link'[p] = "down" /\ open'[p] = closed
               /\ held'[p] = {} /\ outcome'[p] = "threw" /\ run'[p] = run[p]
        PROVE  RunInv(p)'
    BY <2>3 DEF RunInv, TransactionIsTheRunners,
      TransactionHoldsItsStatements, CommitComesLast, OutcomeTells
  <2>4. closed \in BOOLEAN /\ {} \in SUBSET Row /\ "down" \in Link
    BY DEF Link
  <2> HIDE DEF closed
  <2> QED
    BY <2>1, <2>2, <2>3, <2>4, EffectKeeps, <1>0 DEF InRun, Step, Outcome
<1> QED
  BY <1>1, <1>2 DEF Rollback

LEMMA CloseKeeps ==
  ASSUME NEW p \in Process, RunnerIInv, Close(p)
  PROVE  RunnerIInv'
<1>0. InRun(p) /\ pc[p] = "close" /\ End(p, "returned")
      /\ UNCHANGED <<link, open, held, orphans, stored, committed>>
  BY InRunHolds DEF Close, server
<1>1. Effect(p, "idle", next[p], link[p], open[p], held[p], "returned")
  BY <1>0 DEF InRun, Effect, End
<1>2. CommitsAtMost(p) /\ orphans' \subseteq Row
  BY <1>0 DEF InRun, CommitsAtMost
<1>3. ASSUME /\ pc'[p] = "idle" /\ next'[p] = next[p] /\ link'[p] = link[p] /\ open'[p] = open[p]
             /\ held'[p] = held[p] /\ outcome'[p] = "returned" /\ run'[p] = run[p]
      PROVE  RunInv(p)'
  BY <1>0, <1>3 DEF InRun, RunInv, TransactionIsTheRunners,
    TransactionHoldsItsStatements, CommitComesLast, OutcomeTells
<1> QED
  BY <1>1, <1>2, <1>3, EffectKeeps, <1>0 DEF InRun, Step, Outcome

LEMMA DieKeeps ==
  ASSUME NEW p \in Process, RunnerIInv, Die(p)
  PROVE  RunnerIInv'
<1> DEFINE closed == FALSE
<1>0. InRun(p) /\ pc[p] # "idle"
  BY InRunHolds DEF Die
<1>1. Effect(p, "idle", next[p], "down", closed, {}, "died")
  BY <1>0 DEF InRun, Effect, Die, End, ServerLosesClient
<1>2. CommitsAtMost(p) /\ orphans' \subseteq Row
  BY <1>0 DEF InRun, CommitsAtMost, Die, ServerLosesClient
<1>3. ASSUME /\ pc'[p] = "idle" /\ next'[p] = next[p] /\ link'[p] = "down" /\ open'[p] = closed
             /\ held'[p] = {} /\ outcome'[p] = "died" /\ run'[p] = run[p]
      PROVE  RunInv(p)'
  BY <1>3 DEF RunInv, TransactionIsTheRunners,
    TransactionHoldsItsStatements, CommitComesLast, OutcomeTells
<1>4. closed \in BOOLEAN /\ {} \in SUBSET Row /\ "down" \in Link
  BY DEF Link
<1> HIDE DEF closed
<1> QED
  BY <1>0, <1>1, <1>2, <1>3, <1>4, EffectKeeps DEF InRun, Step, Outcome

\* A new run of p: its number is not used yet.
LEMMA BeginKeeps ==
  ASSUME NEW p \in Process, RunnerIInv, Begin(p)
  PROVE  RunnerIInv'
<1>0. pc[p] = "idle" /\ count[p] < MaxRuns /\ count[p] \in Nat /\ MaxRuns \in Nat
  BY ConstantsAssumption DEF Begin, RunnerIInv, TypeOK
<1>1. PICK c \in Call : run' = [run EXCEPT ![p] = [process |-> p, no |-> count[p] + 1, call |-> c]]
  BY DEF Begin
<1> DEFINE n == [process |-> p, no |-> count[p] + 1, call |-> c]
<1>2. n \in Run
  BY <1>0 DEF Run
<1>3. /\ count' = [count EXCEPT ![p] = @ + 1] /\ pc' = [pc EXCEPT ![p] = "getSession"]
      /\ next' = [next EXCEPT ![p] = 1] /\ link' = [link EXCEPT ![p] = "none"]
      /\ outcome' = [outcome EXCEPT ![p] = "none"]
      /\ UNCHANGED <<open, held, orphans, stored, committed>>
  BY DEF Begin, server
<1>4. n \notin committed
  <2>1. \A k \in committed : k.no <= count[k.process]
    BY DEF RunnerIInv, RunsAreNumbered
  <2> QED
    BY <1>0, <2>1
<1>5. /\ run'[p] = n /\ count'[p] = count[p] + 1 /\ pc'[p] = "getSession"
      /\ next'[p] = 1 /\ outcome'[p] = "none"
  BY <1>1, <1>3 DEF RunnerIInv, TypeOK
<1>6. ASSUME NEW q \in Process, q # p
      PROVE  /\ pc'[q] = pc[q] /\ next'[q] = next[q] /\ link'[q] = link[q]
             /\ outcome'[q] = outcome[q] /\ run'[q] = run[q] /\ count'[q] = count[q]
  BY <1>1, <1>3, <1>6 DEF RunnerIInv, TypeOK
<1>7. TypeOK'
  <2>1. /\ pc' \in [Process -> Step] /\ next' \in [Process -> Nat]
        /\ link' \in [Process -> {"none", "up", "down"}]
        /\ outcome' \in [Process -> {"none", "returned", "threw", "died"}]
        /\ count' \in [Process -> 0..MaxRuns]
    BY <1>0, <1>3 DEF RunnerIInv, TypeOK, Step
  <2>2. run' \in [Process -> Run \cup {None}]
    BY <1>1, <1>2 DEF RunnerIInv, TypeOK
  <2>3. \A q \in Process : pc'[q] # "idle" => run'[q] \in Run
    BY <1>2, <1>5, <1>6 DEF RunnerIInv, TypeOK
  <2> QED
    BY <1>3, <2>1, <2>2, <2>3 DEF RunnerIInv, TypeOK
<1>8. RunsAreNumbered'
  <2>1. \A q \in Process : pc'[q] # "idle" \/ outcome'[q] # "none" => count'[q] # 0
    BY <1>0, <1>5, <1>6 DEF RunnerIInv, RunsAreNumbered
  <2>2. \A q \in Process : count'[q] # 0 =>
          run'[q] \in Run /\ run'[q].process = q /\ run'[q].no = count'[q]
    BY <1>2, <1>5, <1>6 DEF RunnerIInv, RunsAreNumbered
  <2>3. ASSUME NEW k \in committed'
        PROVE  k.no <= count'[k.process] /\ Atomic!Storable(k)'
    <3>1. k \in Run /\ k.no <= count[k.process] /\ Atomic!Storable(k)
      BY <1>3, <2>3 DEF RunnerIInv, TypeOK, RunsAreNumbered
    <3>2. k.process \in Process /\ k.no \in 1..MaxRuns
      BY <3>1, RunTyped
    <3>3. k.no <= count'[k.process]
      BY <1>0, <1>5, <1>6, <3>1, <3>2
    <3> QED
      BY <3>1, <3>3 DEF Atomic!Storable, Atomic!Written
  <2> QED
    BY <2>1, <2>2, <2>3 DEF RunsAreNumbered
<1>9. ASSUME NEW q \in Process
      PROVE  RunInv(q)'
  <2>0. RunInv(q) /\ open'[q] = open[q] /\ held'[q] = held[q] /\ committed' = committed
    BY <1>3 DEF RunnerIInv
  <2>1. CASE q = p
    BY <1>0, <1>4, <1>5, <2>0, <2>1 DEF RunInv, TransactionIsTheRunners,
      TransactionHoldsItsStatements, CommitComesLast, OutcomeTells
  <2>2. CASE q # p
    BY <1>6, <2>0, <2>2 DEF RunInv, TransactionIsTheRunners,
      TransactionHoldsItsStatements, CommitComesLast, OutcomeTells
  <2> QED
    BY <2>1, <2>2
<1> QED
  BY <1>7, <1>8, <1>9 DEF RunnerIInv

LEMMA StutterKeeps ==
  ASSUME RunnerIInv, UNCHANGED client, UNCHANGED <<open, held, stored, committed>>, orphans' \subseteq Row
  PROVE  RunnerIInv'
<1>1. UNCHANGED <<pc, run, next, link, open, held, stored, committed, outcome, count>>
  BY DEF client
<1>2. TypeOK' /\ RunsAreNumbered'
  BY <1>1 DEF RunnerIInv, TypeOK, RunsAreNumbered, Atomic!Storable, Atomic!Written
<1>3. \A p \in Process : RunInv(p)'
  BY <1>1 DEF RunnerIInv, RunInv, TransactionIsTheRunners,
    TransactionHoldsItsStatements, CommitComesLast, OutcomeTells
<1> QED
  BY <1>2, <1>3 DEF RunnerIInv

LEMMA InitHolds == Init => RunnerIInv
  BY ConstantsAssumption DEF Init, RunnerIInv, TypeOK, Step, RunsAreNumbered, RunInv,
    TransactionIsTheRunners, TransactionHoldsItsStatements, CommitComesLast, OutcomeTells

LEMMA NextKeeps == RunnerIInv /\ [Next]_vars => RunnerIInv'
<1> SUFFICES ASSUME RunnerIInv, [Next]_vars PROVE RunnerIInv'
  OBVIOUS
<1>1. ASSUME NEW p \in Process, RunStep(p) PROVE RunnerIInv'
  BY <1>1, GetSessionKeeps, StartTransactionKeeps, StatementKeeps, DeadlockVictimKeeps,
    StatementUnansweredKeeps, StatementsEndKeeps, CommitKeeps, RollbackKeeps, CloseKeeps DEF RunStep
<1>2. CASE DropOrphans
  BY <1>2, StutterKeeps DEF DropOrphans
<1>3. CASE UNCHANGED vars
  BY <1>3, StutterKeeps DEF vars, client, RunnerIInv, TypeOK
<1> QED
  BY <1>1, <1>2, <1>3, BeginKeeps, DieKeeps DEF Next

\* RunnerIInv holds in every reachable state.
THEOREM RunnerInvariant == Spec => []RunnerIInv
  BY InitHolds, NextKeeps, PTL DEF Spec

\* No session goes back to the pool with a transaction open.
THEOREM CleanSessions == Spec => []SessionsReturnClean
<1>1. RunnerIInv => SessionsReturnClean
  BY DEF RunnerIInv, TypeOK, RunInv, TransactionIsTheRunners, SessionsReturnClean
<1> QED
  BY <1>1, RunnerInvariant, PTL

\* A caller can tell from the outcome what is stored, lost connections apart.
THEOREM TellingOutcomes == Spec => []OutcomesTell
<1>1. RunnerIInv => OutcomesTell
  BY DEF RunnerIInv, RunInv, OutcomesTell
<1> QED
  BY <1>1, RunnerInvariant, PTL

-----------------------------------------------------------------------------
(* Atomicity *)

\* The commit of a transaction stores the run whole.
LEMMA CommitStores ==
  ASSUME NEW p \in Process, RunnerIInv, pc[p] = "commit", ServerCommits(p)
  PROVE  Atomic!Next
<1>1. /\ run[p] \notin committed /\ Atomic!Storable(run[p])
      /\ stored' = [r \in Row |-> IF r \in Atomic!Written(run[p]) THEN run[p] ELSE stored[r]]
      /\ committed' = committed \cup {run[p]}
  BY CommitsTheRun DEF ServerCommits, ServerStores
<1>2. run[p] \in committed'
  BY <1>1
<1> QED
  BY <1>1, <1>2 DEF Atomic!Next, Atomic!Store

\* So does a single statement.
LEMMA AutocommitStores ==
  ASSUME NEW p \in Process, RunnerIInv, pc[p] = "statement", ~open[p],
         ServerStores(p, {run[p].call.sql[next[p]]})
  PROVE  Atomic!Next
<1>0. InRun(p)
  BY InRunHolds
<1>1. run[p].call.kind = "single" /\ next[p] = 1 /\ run[p] \notin committed
  BY <1>0 DEF InRun, RunInv, TransactionIsTheRunners, CommitComesLast
<1>2. Atomic!Written(run[p]) = {run[p].call.sql[next[p]]}
  BY <1>0, <1>1 DEF InRun, Atomic!Written
<1>3. Atomic!Storable(run[p])
  BY <1>0, <1>1, <1>2, ConstantsAssumption DEF InRun, Atomic!Storable
<1>4. /\ stored' = [r \in Row |-> IF r \in Atomic!Written(run[p]) THEN run[p] ELSE stored[r]]
      /\ committed' = committed \cup {run[p]}
  BY <1>2 DEF ServerStores
<1>5. run[p] \in committed'
  BY <1>4
<1> QED
  BY <1>1, <1>3, <1>4, <1>5 DEF Atomic!Next, Atomic!Store

\* Every step stores a run whole, or stores nothing.
LEMMA NextStores == RunnerIInv /\ [Next]_vars => [Atomic!Next]_Atomic!vars
<1> SUFFICES ASSUME RunnerIInv, [Next]_vars
             PROVE  Atomic!Next \/ UNCHANGED <<stored, committed>>
  BY DEF Atomic!vars
<1>1. ASSUME NEW p \in Process, NoEffect(p)
      PROVE  UNCHANGED <<stored, committed>>
  BY <1>1 DEF NoEffect, server, ServerLosesClient
<1>2. ASSUME NEW p \in Process, RunStep(p)
      PROVE  Atomic!Next \/ UNCHANGED <<stored, committed>>
  <2>1. CASE GetSession(p) \/ DeadlockVictim(p) \/ StatementsEnd(p) \/ Rollback(p) \/ Close(p)
    BY <2>1 DEF GetSession, DeadlockVictim, StatementsEnd, Rollback, Close,
      ServerRollsBack, ServerLosesClient, server
  <2>2. CASE StartTransaction(p)
    BY <1>1, <2>2 DEF StartTransaction
  <2>3. CASE Statement(p)
    BY <1>1, <2>3, AutocommitStores DEF Statement, ServerExecutes
  <2>4. CASE StatementUnanswered(p)
    BY <2>4, AutocommitStores DEF StatementUnanswered
  <2>5. CASE Commit(p)
    BY <1>1, <2>5, CommitStores DEF Commit
  <2> QED
    BY <1>2, <2>1, <2>2, <2>3, <2>4, <2>5 DEF RunStep
<1>3. ASSUME NEW p \in Process, Begin(p) \/ Die(p)
      PROVE  UNCHANGED <<stored, committed>>
  BY <1>3 DEF Begin, Die, server, ServerLosesClient
<1>4. CASE DropOrphans \/ UNCHANGED vars
  BY <1>4 DEF DropOrphans, vars
<1> QED
  BY <1>2, <1>3, <1>4 DEF Next

\* A run stores all of its statements in one step or none, whatever calls,
\* rows and processes there are, and whichever call fails.
THEOREM AtomicRunner == Spec => RunsAreAtomic
<1>1. Init => Atomic!Init
  BY DEF Init, Atomic!Init
<1> QED
  BY <1>1, RunnerInvariant, NextStores, PTL DEF Spec, RunsAreAtomic, Atomic!Spec

=============================================================================
