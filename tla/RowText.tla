------------------------------ MODULE RowText ------------------------------
(***************************************************************************)
(* Handlers that read rows, judge their times and write them back through   *)
(* DbManager's texts, on a system clock that may be set back.  TLC checks   *)
(* that this implements RowTimes, where there are no texts.                 *)
(***************************************************************************)
EXTENDS SqlText, FiniteSets

CONSTANT MaxRows  \* bound on the rows stored

VARIABLES
  real,    \* the time
  late,    \* how far the system clock is behind it
  table,   \* the stored rows: key -> times
  models,  \* the models each handler has filled from rows it has read
  history  \* key -> when the row was inserted, by the clock, and when renewed

vars == <<real, late, table, models, history>>

Now == real - late

TypeOK ==
  /\ real \in Instants /\ late \in {0, Back}
  /\ DOMAIN table \subseteq Key /\ DOMAIN history = DOMAIN table
  /\ \A k \in DOMAIN table : DOMAIN table[k] = Range(Columns)

Init ==
  /\ real \in Instants /\ late = 0
  /\ table = [k \in {} |-> 0]
  /\ models = [p \in Process |-> {}]
  /\ history = [k \in {} |-> 0]

Advance ==
  /\ real' \in Instants /\ real' > real
  /\ UNCHANGED <<late, table, models, history>>

SetClockBack ==
  /\ late = 0 /\ late' = Back
  /\ UNCHANGED <<real, table, models, history>>

\* inflate: both times of the row go through the decoder.
Inflated(k) ==
  [key    |-> k,
   create |-> ReadTime(Wire(table[k]["create_time"])).text,
   renewed |-> ReadTime(Wire(table[k]["update_time"])).text,
   since  |-> history[k].since]

\* The decoder throws for some row: the handler fails, with no models.
Query(p) == \E K \in SUBSET DOMAIN table :
  /\ models[p] = {}
  /\ \A k, l \in K : Len(k) = Len(l)
  /\ models' = [models EXCEPT ![p] =
       IF \E k \in K : \E c \in Range(Columns) : ReadTime(Wire(table[k][c])).thrown THEN {}
       ELSE {Inflated(k) : k \in K}]
  /\ UNCHANGED <<real, late, table, history>>

\* initCreateAndUpdateTime and renewUpdateTime
NewModel(k) == [key |-> k, create |-> FormatStr(Now), renewed |-> FormatStr(Now)]

\* Variant for the mutants: the model keeps the time it was read with.
NotRenewed(model) == model

RenewUpdateTime(model) == [model EXCEPT !.renewed = FormatStr(Now)]

\* The server executes a text about rows with keys of w columns, or refuses
\* it; the handler is done with its models.  A time it stores is what it takes
\* the text for; the history changes with the rows a statement names.
Execute(p, text, w) ==
  LET call    == Read(text, w)
      named   == {row.key : row \in call.rows}
      New(k)  == (CHOOSE row \in call.rows : row.key = k).set
      kept    == IF call.op = "delete" THEN DOMAIN table \ named
                 ELSE IF call.op \in {"insert", "upsert"} THEN DOMAIN table \cup named
                 ELSE DOMAIN table
      accepted == call.op = "insert" => named \cap DOMAIN table = {}
  IN  /\ table' = IF ~accepted THEN table ELSE
           [k \in kept |-> [c \in Range(Columns) |->
              IF k \in named /\ c \in DOMAIN New(k) THEN Parse(New(k)[c])
              ELSE table[k][c]]]
      /\ history' = IF ~accepted THEN history ELSE
           [k \in kept |->
              IF k \notin DOMAIN table THEN [born |-> Now, since |-> real]
              ELSE IF k \in named THEN [history[k] EXCEPT !.since = real]
              ELSE history[k]]
      /\ models' = [models EXCEPT ![p] = {}]
      /\ UNCHANGED <<real, late>>

\* Sequences of several models of one table.
Tables(S) == {T \in SUBSET S : T # {} /\ \A m, n \in T : Len(m.key) = Len(n.key)}
Width(T) == Len((CHOOSE m \in T : TRUE).key)

Insert(p) ==
  /\ models[p] = {}
  /\ \E T \in Tables({NewModel(k) : k \in Key \ DOMAIN table}) :
       /\ Cardinality(T) + Cardinality(DOMAIN table) <= MaxRows
       /\ Execute(p, InsertModelSql(SetToSeq(T)), Width(T))

Update(p) == \E T \in Tables(models[p]) :
  Execute(p, UpdateModelSql(SetToSeq({RenewUpdateTime(m) : m \in T})), Width(T))

\* getIgnoreCDColumn, or nothing ignored.
UpdateSingle(p) == \E m \in models[p], ignoreColumn \in {{"create_time"}, {}} :
  Execute(p, UpdateSingleModelSql(RenewUpdateTime(m), ignoreColumn), Len(m.key))

InsertOrUpdate(p) ==
  /\ models[p] # {}
  /\ Execute(p, InsertOrUpdateModelSql(SetToSeq({RenewUpdateTime(m) : m \in models[p]})),
             Width(models[p]))

Delete(p) == \E T \in Tables(models[p]) :
  Execute(p, DelSqlByPkDoubleVector(SetToSeq({m.key : m \in T})), Width(T))

\* A handler that writes nothing.
GiveUp(p) ==
  /\ models[p] # {}
  /\ models' = [models EXCEPT ![p] = {}]
  /\ UNCHANGED <<real, late, table, history>>

Next ==
  \/ Advance \/ SetClockBack
  \/ \E p \in Process : Query(p) \/ Insert(p) \/ Update(p) \/ UpdateSingle(p)
                          \/ InsertOrUpdate(p) \/ Delete(p) \/ GiveUp(p)

Spec == Init /\ [][Next]_vars

-----------------------------------------------------------------------------
(* Properties *)

\* The rows and the models as RowTimes has them: times, and no texts.
Rows == [k \in DOMAIN table |->
  [create |-> table[k]["create_time"], renewed |-> table[k]["update_time"],
   born |-> history[k].born, since |-> history[k].since]]

Copies == [p \in Process |->
  {[key |-> m.key, create |-> Parse(m.create), renewed |-> Parse(m.renewed),
    since |-> m.since] : m \in models[p]}]

Times == INSTANCE RowTimes WITH rows <- Rows, copies <- Copies

\* DbManager's texts do to the rows what its callers mean, however the loops
\* put them together (db_manager.h, sql_util.cpp): every step is one of
\* RowTimes, which knows no texts, and changes the row it is about, or nothing.
RowsFollow == Times!Spec

\* The two invariants of RowTimes, of the rows and models here: a time written
\* back moves at most once, and nothing expires early or more than barely late.
TimesMoveAtMostOnce == Times!TimesMoveAtMostOnce
ExpiryIsBarelyLate  == Times!ExpiryIsBarelyLate

\* rawDateParse reads every time the server sends, whatever numbers it leaves
\* out and however many bytes each takes, and loses only the zeros in front of
\* the microseconds.
StoredTimesAreRead == \A k \in DOMAIN table : \A c \in Range(Columns) :
  LET read == ReadTime(Wire(table[k][c])) IN
  /\ ~read.thrown
  /\ read.text.minute = Minute
  /\ Parse(read.text) = Moved(table[k][c])

\* What a call asks for, columns the set of those it writes.
Asked(op, T, columns) ==
  [op |-> op, rows |->
    {[key |-> m.key,
      set |-> [c \in columns |-> IF c = "create_time" THEN m.create ELSE m.renewed]] : m \in T}]

\* The texts of the calls the program makes, for whatever models it has read,
\* are statements to the server and ask for what the call means: rows of the
\* models in an INSERT, one model in an UPDATE by its key of one column, or of
\* two if the columns are assigned one by one.
TextsMeanTheirCalls == \A p \in Process : \A T \in Tables(models[p]) :
  LET s == SetToSeq(T)
      w == Width(T)
      Means(text, call) == Read(text, w) = call
      all == Range(Columns)
  IN  /\ Means(InsertModelSql(s), Asked("insert", T, all))
      /\ Means(InsertOrUpdateModelSql(s), Asked("upsert", T, all))
      /\ Cardinality(T) = 1 =>
           /\ w = 1 => Means(UpdateModelSql(s), Asked("update", T, all))
           /\ Means(UpdateSingleModelSql(s[1], {}), Asked("update", T, all))
           /\ Means(UpdateSingleModelSql(s[1], {"create_time"}),
                    Asked("update", T, {"update_time"}))
=============================================================================
