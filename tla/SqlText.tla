------------------------------ MODULE SqlText ------------------------------
(***************************************************************************)
(* The texts DbManager writes, loop by loop, the times SqlUtil reads back,  *)
(* and the MySQL server at the other end.  A text is a sequence of words    *)
(* and values: fixed stretches of a statement are one word, what the loops  *)
(* put between them is a word each.  A model carries its key and two other  *)
(* columns, the time it was created and the time it was renewed.            *)
(***************************************************************************)
EXTENDS RowClock, SequencesExt

\* A key has one column or more, and a table finitely many keys.
ASSUME KeyAssumption ==
  /\ IsFiniteSet(Key)
  /\ \A k \in Key : k \in Seq(UNION {Range(l) : l \in Key}) /\ k # <<>>

Word(w)  == [word |-> w, value |-> 0]
Value(v) == [word |-> "value", value |-> v]

-----------------------------------------------------------------------------
(* Times as text: a second of one fixed minute, and the digits after the    *)
(* point                                                                     *)

Minute == <<2023, 1, 1, 0, 0>>

ASSUME MinuteAssumption == \A t \in Instants : t < 60 * Second

\* Common::Date::formatStr<microseconds>: always six digits.
FormatStr(t) ==
  [minute |-> Minute, second |-> t \div Second, fraction |-> t % Second, width |-> 6]

\* What the server, and date::parse in the program, take a text for: the
\* digits after the point are decimals.
Parse(text) == text.second * Second + text.fraction * 10^(6 - text.width)

\* The X protocol: seven numbers, low-order seven bits first, the high bit
\* saying that more follow; numbers of zero at the end are left out.
Varint(n) ==
  LET size == IF n < 128 THEN 1 ELSE IF n < 128^2 THEN 2 ELSE 3
  IN  [i \in 1..size |->
        ((n \div 128^(i - 1)) % 128) + (IF i < size THEN 128 ELSE 0)]

Wire(t) ==
  LET numbers == Minute \o <<t \div Second, t % Second>>
      sent    == IF t = 0 THEN 3 ELSE IF t % Second = 0 THEN 6 ELSE 7
  IN  FlattenSeq([i \in 1..sent |-> Varint(numbers[i])])

\* SqlUtil::rawDateParse.  One byte of the loop: a byte after one with the
\* high bit set extends the last number, any other starts a number; a shift of
\* more than 25 throws.
TakeByteAt(shift, acc, byte) ==
  LET number == (IF acc.more THEN Last(acc.numbers) ELSE 0) + (byte % 128) * 2^shift
      before == IF acc.more THEN Front(acc.numbers) ELSE acc.numbers
  IN  [numbers |-> Append(before, number), more |-> byte >= 128,
       shift |-> shift + 7, thrown |-> FALSE]

Thrown(acc) == [acc EXCEPT !.thrown = TRUE]

\* Variant for the mutants: the shift is not reset for the next number.
ByteWithOldShift(acc, byte) ==
  IF acc.thrown \/ acc.shift > 32 - 7 THEN Thrown(acc) ELSE TakeByteAt(acc.shift, acc, byte)

TakeByte(acc, byte) ==
  LET shift == IF acc.more THEN acc.shift ELSE 0
  IN  IF acc.thrown \/ shift > 32 - 7 THEN Thrown(acc) ELSE TakeByteAt(shift, acc, byte)

\* The loop over the bytes.
TakeBytes(bytes) ==
  LET taken[i \in 0..Len(bytes)] ==
        IF i = 0 THEN [numbers |-> <<>>, more |-> FALSE, shift |-> 0, thrown |-> FALSE]
        ELSE TakeByte(taken[i - 1], bytes[i])
  IN  taken[Len(bytes)]

Digits(n) == CHOOSE d \in 1..6 : n < 10^d /\ (d = 1 \/ n >= 10^(d - 1))

\* Variant for the mutants: the loop over the numbers stops one early.
FieldButTheLast(numbers, i) == IF i < Len(numbers) THEN numbers[i] ELSE 0

\* The number a field is set from, zero where the server sent none.
Field(numbers, i) == IF i <= Len(numbers) THEN numbers[i] ELSE 0

\* The year takes two bytes, month to second one; microseconds are printed
\* with the digits they have.
ReadTime(bytes) ==
  LET end     == TakeBytes(bytes)
      F(i)    == Field(end.numbers, i)
      refused == \/ end.thrown \/ Len(end.numbers) < 3
                 \/ F(1) >= 2^16 \/ \E i \in 2..6 : F(i) >= 2^8
  IN  [thrown |-> refused,
       text   |-> IF refused THEN FormatStr(0)
                  ELSE [minute |-> [i \in 1..5 |-> F(i)], second |-> F(6),
                        fraction |-> F(7), width |-> Digits(F(7))]]

-----------------------------------------------------------------------------
(* DbManager's texts.  models is a sequence of models of one table.          *)

Columns == <<"create_time", "update_time">>

\* Variant for the mutants: names and values in different orders.
SwappedValues(model) == <<model.renewed, model.create>>

\* getUnPrimaryKeyValVector, in the order of getUnPrimaryKeyNameVector.
ColumnValues(model) == <<model.create, model.renewed>>

Concat(n, Piece(_)) == FlattenSeq([i \in 1..n |-> Piece(i)])

\* BaseTime::insertAllFieldSql: a comma after every value, the last one erased.
InsertAllFieldSql(vector) ==
  Front(Concat(Len(vector), LAMBDA i : <<Value(vector[i]), Word(",")>>))

\* Variant for the mutants: the columns of the key from last to first.
KeyReversed(model) ==
  <<Word("(")>> \o InsertAllFieldSql(Reverse(model.key) \o ColumnValues(model)) \o <<Word(")")>>

Parenthesised(model) ==
  <<Word("(")>> \o InsertAllFieldSql(model.key \o ColumnValues(model)) \o <<Word(")")>>

InsertModelSql(models) ==
  <<Word("INSERT")>>
    \o Concat(Len(models), LAMBDA m :
         Parenthesised(models[m]) \o <<Word(IF m = Len(models) THEN ";" ELSE ",")>>)

\* "a, b, c": a comma after all but the last.
Listed(pieces) ==
  Concat(Len(pieces), LAMBDA i :
    pieces[i] \o (IF i = Len(pieces) THEN <<>> ELSE <<Word(",")>>))

InsertOrUpdateModelSql(models) ==
  <<Word("INSERT")>>
    \o Listed([m \in DOMAIN models |-> Parenthesised(models[m])])
    \o <<Word("ON DUPLICATE KEY UPDATE")>>
    \o Listed([c \in DOMAIN Columns |-> <<Word(Columns[c]), Word("VALUES")>>])
    \o <<Word(";")>>

\* One column of one model.  tellg() of a stream that is only written to is
\* always 0, so that every model starts with the name of the column again.
SetCase(model, c) ==
  <<Word(Columns[c]), Word("= CASE"), Word("WHEN (")>>
    \o Listed([k \in DOMAIN model.key |-> <<Word("key ="), Value(model.key[k])>>])
    \o <<Word(") THEN"), Value(ColumnValues(model)[c]), Word("END")>>
    \o (IF c = Len(Columns) THEN <<>> ELSE <<Word(",")>>)

UpdateModelSql(models) ==
  <<Word("UPDATE")>>
    \o Concat(Len(Columns), LAMBDA c :
         Concat(Len(models), LAMBDA m : SetCase(models[m], c)))
    \o <<Word("WHERE ("), Word("keys"), Word(") IN (")>>
    \o Concat(Len(models), LAMBDA m :
         <<Word("(")>> \o Listed([k \in DOMAIN models[m].key |-> <<Value(models[m].key[k])>>])
           \o <<Word(")")>>)
    \o <<Word(")")>>

\* Every column that is not ignored, a comma after each.
AssignmentsAndComma(model, ignoreColumn) ==
  Concat(Len(Columns), LAMBDA c :
    IF Columns[c] \in ignoreColumn THEN <<>>
    ELSE <<Word(Columns[c]), Word("="), Value(ColumnValues(model)[c]), Word(",")>>)

\* The last comma is overwritten by a space.
Assignments(model, ignoreColumn) ==
  LET written == AssignmentsAndComma(model, ignoreColumn)
  IN  IF written = <<>> THEN <<>> ELSE Front(written)

UpdateSingleModelSql(model, ignoreColumn) ==
  <<Word("UPDATE")>>
    \o Assignments(model, ignoreColumn)
    \o <<Word("WHERE")>>
    \o Concat(Len(model.key), LAMBDA k :
         <<Word("key ="), Value(model.key[k]),
           Word(IF k = Len(model.key) THEN ";" ELSE "AND")>>)

KeyTuples(keys) ==
  Concat(Len(keys), LAMBDA m :
    <<Word("(")>> \o Listed([k \in DOMAIN keys[m] |-> <<Value(keys[m][k])>>])
      \o <<Word(")"), Word(IF m = Len(keys) THEN ") ;" ELSE ",")>>)

\* delSqlByPkDoubleVector: the test for the last column of the key compares
\* the iterator itself with the end, so that ") IN (" is never written.
DelSqlByPkDoubleVector(keys) ==
  <<Word("DELETE WHERE (")>>
    \o Concat(Len(keys[1]), LAMBDA k : <<Word("key"), Word(",")>>)
    \o KeyTuples(keys)

-----------------------------------------------------------------------------
(* The server: the shapes it accepts, by the columns of the table's key and  *)
(* the number of rows                                                        *)

Shape(text) == [i \in DOMAIN text |-> text[i].word]

\* The values in a text, in order.
Values(text) == Concat(Len(text), LAMBDA i :
  IF text[i].word = "value" THEN <<text[i].value>> ELSE <<>>)

Widths == {Len(k) : k \in Key}
Counts == 1..Cardinality(Key)

\* n times item, with a separator between.
Separated(n, item, separator) ==
  Concat(n - 1, LAMBDA i : item \o <<separator>>) \o item

List(n, item) == Separated(n, item, ",")

Tuples(n, w) == List(n, <<"(">> \o List(w, <<"value">>) \o <<")">>)

InsertShape ==
  [w \in Widths |-> [n \in Counts |-> <<"INSERT">> \o Tuples(n, w + 2) \o <<";">>]]

UpsertShape ==
  [w \in Widths |-> [n \in Counts |-> <<"INSERT">> \o Tuples(n, w + 2)
    \o <<"ON DUPLICATE KEY UPDATE", "create_time", "VALUES", ",", "update_time", "VALUES", ";">>]]

Assignable == {<<"create_time">>, <<"update_time">>, Columns, Reverse(Columns)}

SingleShape ==
  [w \in Widths |-> [columns \in Assignable |->
    <<"UPDATE">>
      \o Front(Concat(Len(columns), LAMBDA c : <<columns[c], "=", "value", ",">>))
      \o <<"WHERE">> \o Separated(w, <<"key =", "value">>, "AND") \o <<";">>]]

\* CASE WHEN a THEN x WHEN b THEN y END, for a key of one column: a list of
\* comparisons is no condition.
CaseShape ==
  [n \in Counts |->
    LET when == Concat(n, LAMBDA i : <<"WHEN (", "key =", "value", ") THEN", "value">>)
        set(c) == <<c, "= CASE">> \o when \o <<"END">>
    IN  <<"UPDATE">> \o set("create_time") \o <<",">> \o set("update_time")
          \o <<"WHERE (", "keys", ") IN (">> \o Tuples(n, 1) \o <<")">>]

DeleteShape ==
  [w \in Widths |-> [n \in Counts |->
    <<"DELETE WHERE (">> \o List(w, <<"key">>) \o <<") IN (">> \o Tuples(n, w) \o <<") ;">>]]

\* What an accepted text asks for.  v are its values, in order.
InsertRows(v, w) ==
  {[key |-> SubSeq(v, b + 1, b + w),
    set |-> [create_time |-> v[b + w + 1], update_time |-> v[b + w + 2]]] :
     b \in {(w + 2) * i : i \in 0..(Len(v) \div (w + 2) - 1)}}

SingleRow(v, columns) ==
  {[key |-> SubSeq(v, Len(columns) + 1, Len(v)),
    set |-> [c \in Range(columns) |-> v[CHOOSE i \in DOMAIN columns : columns[i] = c]]]}

CaseRows(v, n) ==
  {[key |-> <<v[2 * i - 1]>>,
    set |-> [create_time |-> v[2 * i], update_time |-> v[2 * n + 2 * i]]] : i \in 1..n}

DeletedRows(v, w) ==
  {[key |-> SubSeq(v, w * i + 1, w * i + w)] : i \in 0..(Len(v) \div w - 1)}

Refused == [op |-> "refused", rows |-> {}]

\* What the server reads in a text about a table whose key has w columns.
Read(text, w) ==
  LET shape == Shape(text)
      v     == Values(text)
      Single(l) == shape = SingleShape[w][l]
      Case(n)   == w = 1 /\ shape = CaseShape[n]
  IN  CASE \E n \in Counts : shape = InsertShape[w][n] ->
             [op |-> "insert", rows |-> InsertRows(v, w)]
        [] \E n \in Counts : shape = UpsertShape[w][n] ->
             [op |-> "upsert", rows |-> InsertRows(v, w)]
        [] \E l \in Assignable : Single(l) ->
             [op |-> "update", rows |-> SingleRow(v, CHOOSE l \in Assignable : Single(l))]
        [] \E n \in Counts : Case(n) ->
             [op |-> "update", rows |-> CaseRows(v, CHOOSE n \in Counts : Case(n))]
        [] \E n \in Counts : shape = DeleteShape[w][n] ->
             [op |-> "delete", rows |-> DeletedRows(v, w)]
        [] OTHER -> Refused
=============================================================================
