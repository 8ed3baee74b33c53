----------------------------- MODULE TextProofs -----------------------------
(***************************************************************************)
(* Proofs about SqlText, for every set of keys: what FlattenSeq puts        *)
(* together, the words and values of DbManager's texts, and what the        *)
(* server reads in them.                                                    *)
(***************************************************************************)
EXTENDS SqlText, FiniteSets, FiniteSetTheorems, SequenceTheorems,
        WellFoundedInduction, TLAPS

-----------------------------------------------------------------------------
(* Induction over the natural numbers, and the local function of FlattenSeq *)

\* Induction on the naturals over a set, the form the provers can use.
LEMMA NatSet ==
  ASSUME NEW S, 0 \in S, \A n \in Nat : n \in S => n + 1 \in S
  PROVE  Nat \subseteq S
<1> DEFINE R == OpToRel(<, Nat)
           T == Nat \ S
<1> SUFFICES ASSUME T # {} PROVE FALSE
  OBVIOUS
<1>1. R = {ss \in Nat \X Nat : ss[1] < ss[2]}
  BY DEF OpToRel
<1>2. IsWellFoundedOn(R, Nat)
  BY NatLessThanWellFounded
<1> HIDE DEF R
<1>3. PICK x \in T : \A y \in T : ~(<<y, x>> \in R)
  <2>1. T \subseteq Nat
    OBVIOUS
  <2> HIDE DEF T
  <2> QED
    BY <1>2, <2>1, WFMin
<1>4. x \in Nat /\ x - 1 \in Nat /\ x - 1 < x
  OBVIOUS
<1>5. <<x - 1, x>> \in R
  BY <1>1, <1>4
<1>6. x - 1 \in S
  BY <1>3, <1>4, <1>5
<1> QED
  BY <1>4, <1>6


\* The recursive function FlattenSeq folds with exists.
LEMMA FlatExists ==
  ASSUME NEW ps, NEW n \in Nat
  PROVE  \E g : g = [i \in 1..n |-> IF i = 1 THEN ps[i] ELSE g[i-1] \o ps[i]]
<1> DEFINE P(m) == \E g : /\ DOMAIN g = 1..m
                          /\ g = [i \in 1..m |-> g[i]]
                          /\ \A i \in 1..m : g[i] = IF i = 1 THEN ps[i] ELSE g[i-1] \o ps[i]
           S == {m \in Nat : P(m)}
<1>1. 0 \in S
  <2> DEFINE g0 == [i \in 1..0 |-> ps[i]]
  <2>1. /\ DOMAIN g0 = 1..0 /\ g0 = [i \in 1..0 |-> g0[i]]
        /\ \A i \in 1..0 : g0[i] = IF i = 1 THEN ps[i] ELSE g0[i-1] \o ps[i]
    OBVIOUS
  <2>2. P(0)
    <3> HIDE DEF g0
    <3> QED BY <2>1
  <2> QED BY <2>2
<1>2. ASSUME NEW m \in Nat, m \in S PROVE m + 1 \in S
  <2>1. PICK g : /\ DOMAIN g = 1..m
                 /\ \A i \in 1..m : g[i] = IF i = 1 THEN ps[i] ELSE g[i-1] \o ps[i]
    BY <1>2
  <2> DEFINE x == IF m = 0 THEN ps[1] ELSE g[m] \o ps[m+1]
             h == [i \in 1..(m+1) |-> IF i = m + 1 THEN x ELSE g[i]]
  <2>2. DOMAIN h = 1..(m+1) /\ h = [i \in 1..(m+1) |-> h[i]]
    OBVIOUS
  <2>3. h[m+1] = x /\ \A i \in 1..m : h[i] = g[i]
    <3> HIDE DEF x
    <3> QED OBVIOUS
  <2>4. h[m+1] = IF m + 1 = 1 THEN ps[m+1] ELSE h[m+1-1] \o ps[m+1]
    <3> HIDE DEF h
    <3> QED BY <2>3
  <2>5. ASSUME NEW i \in 1..m
        PROVE  h[i] = IF i = 1 THEN ps[i] ELSE h[i-1] \o ps[i]
    <3>1. i = 1 \/ i - 1 \in 1..m
      OBVIOUS
    <3> HIDE DEF h
    <3> QED BY <2>1, <2>3, <3>1
  <2>6. \A i \in 1..(m+1) : i = m + 1 \/ i \in 1..m
    OBVIOUS
  <2>7. \A i \in 1..(m+1) : h[i] = IF i = 1 THEN ps[i] ELSE h[i-1] \o ps[i]
    <3> HIDE DEF h
    <3> QED BY <2>4, <2>5, <2>6
  <2>8. P(m+1)
    <3> HIDE DEF h
    <3> QED BY <2>2, <2>7
  <2> HIDE DEF P
  <2> QED BY <2>8
<1> HIDE DEF P
<1>3. Nat \subseteq S
  <2> HIDE DEF S
  <2> QED BY <1>1, <1>2, NatSet
<1>4. P(n)
  BY <1>3
<1>5. PICK g : /\ g = [i \in 1..n |-> g[i]]
               /\ \A i \in 1..n : g[i] = IF i = 1 THEN ps[i] ELSE g[i-1] \o ps[i]
  BY <1>4 DEF P
<1>6. g = [i \in 1..n |-> IF i = 1 THEN ps[i] ELSE g[i-1] \o ps[i]]
  <2>1. [i \in 1..n |-> g[i]] = [i \in 1..n |-> IF i = 1 THEN ps[i] ELSE g[i-1] \o ps[i]]
    BY <1>5
  <2> QED BY <1>5, <2>1
<1> QED BY <1>6

\* Nothing flattened is nothing.
LEMMA FlattenEmpty == FlattenSeq(<<>>) = <<>>
  BY DEF FlattenSeq


\* g is what FlattenSeq has put together after each of n pieces.
Flattens(ps, n, g) == \A i \in 1..n : g[i] = IF i = 1 THEN ps[i] ELSE g[i-1] \o ps[i]

\* FlattenSeq returns the last value of that function.
LEMMA FlatValues ==
  ASSUME NEW ps, NEW n \in Nat, Len(ps) = n, n # 0
  PROVE  \E g : Flattens(ps, n, g) /\ FlattenSeq(ps) = g[n]
<1> DEFINE G == CHOOSE g : g = [i \in 1..n |-> IF i = 1 THEN ps[i] ELSE g[i-1] \o ps[i]]
<1>1. G = [i \in 1..n |-> IF i = 1 THEN ps[i] ELSE G[i-1] \o ps[i]]
  BY FlatExists
<1>2. FlattenSeq(ps) = G[n]
  BY DEF FlattenSeq
<1> HIDE DEF G
<1>3. Flattens(ps, n, G)
  BY <1>1 DEF Flattens
<1> QED BY <1>2, <1>3

\* One unfolding of that function.
LEMMA FlattensStep ==
  ASSUME NEW ps, NEW n \in Nat, NEW g, Flattens(ps, n, g), NEW i \in Nat, i + 1 \in 1..n
  PROVE  g[i+1] = IF i = 0 THEN ps[1] ELSE g[i] \o ps[i+1]
<1>1. g[i+1] = IF i + 1 = 1 THEN ps[i+1] ELSE g[i+1-1] \o ps[i+1]
  BY DEF Flattens
<1>2. i + 1 - 1 = i
  OBVIOUS
<1>3. CASE i = 0
  BY <1>1, <1>3
<1>4. CASE i # 0
  <2>1. i + 1 # 1
    BY <1>4
  <2> QED BY <1>1, <1>2, <1>4, <2>1
<1> QED BY <1>3, <1>4

\* One piece flattened is the piece.
LEMMA FlattenOne ==
  ASSUME NEW ps, Len(ps) = 1
  PROVE  FlattenSeq(ps) = ps[1]
<1>0. 1 \in Nat /\ 1 # 0
  OBVIOUS
<1>1. PICK g : Flattens(ps, 1, g) /\ FlattenSeq(ps) = g[1]
  BY <1>0, FlatValues
<1>2. g[0+1] = ps[1]
  <2>1. 0 + 1 \in 1..1
    OBVIOUS
  <2> QED BY <1>1, <2>1, FlattensStep
<1> QED BY <1>1, <1>2

\* One more piece is concatenated at the end.
LEMMA FlattenStep ==
  ASSUME NEW ps, NEW n \in Nat, Len(ps) = n + 1, n # 0
  PROVE  FlattenSeq(ps) = FlattenSeq([i \in 1..n |-> ps[i]]) \o ps[n + 1]
<1> DEFINE qs == [i \in 1..n |-> ps[i]]
<1>0. n + 1 \in Nat /\ n + 1 # 0
  OBVIOUS
<1>1. PICK g : Flattens(ps, n + 1, g) /\ FlattenSeq(ps) = g[n+1]
  BY <1>0, FlatValues
<1>2. Len(qs) = n /\ \A i \in 1..n : qs[i] = ps[i]
  OBVIOUS
<1> HIDE DEF qs
<1>3. PICK f : Flattens(qs, n, f) /\ FlattenSeq(qs) = f[n]
  BY <1>2, FlatValues
<1> DEFINE S == {i \in Nat : i \in 1..n => f[i] = g[i]}
<1>4. ASSUME NEW i \in Nat, i \in S PROVE i + 1 \in S
  <2> SUFFICES ASSUME i + 1 \in 1..n PROVE f[i+1] = g[i+1]
    OBVIOUS
  <2>1. i + 1 \in 1..(n+1) /\ (i = 0 \/ i \in 1..n)
    OBVIOUS
  <2>2. f[i+1] = IF i = 0 THEN qs[1] ELSE f[i] \o qs[i+1]
    BY <1>3, FlattensStep
  <2>3. g[i+1] = IF i = 0 THEN ps[1] ELSE g[i] \o ps[i+1]
    BY <1>0, <1>1, <2>1, FlattensStep
  <2>4. qs[i+1] = ps[i+1] /\ qs[1] = ps[1]
    BY <1>2
  <2>5. i = 0 \/ f[i] = g[i]
    BY <1>4, <2>1
  <2> QED BY <2>2, <2>3, <2>4, <2>5
<1>5. n \in S
  <2>1. 0 \in S
    OBVIOUS
  <2> HIDE DEF S
  <2> QED BY <1>4, <2>1, NatSet
<1>6. g[n+1] = g[n] \o ps[n+1]
  <2>1. n + 1 \in 1..(n+1)
    OBVIOUS
  <2> QED BY <1>0, <1>1, <2>1, FlattensStep
<1>7. f[n] = g[n]
  BY <1>5
<1> QED BY <1>1, <1>3, <1>6, <1>7 DEF qs

-----------------------------------------------------------------------------
(* Sequences put together from pieces *)

\* A concatenation is a sequence, as long as its parts together.
LEMMA Cat ==
  ASSUME NEW T, NEW s \in Seq(T), NEW t \in Seq(T)
  PROVE  s \o t \in Seq(T) /\ Len(s \o t) = Len(s) + Len(t)
  OBVIOUS

\* The empty sequence is neutral.
LEMMA CatEmpty ==
  ASSUME NEW T, NEW s \in Seq(T)
  PROVE  s \o <<>> = s /\ <<>> \o s = s
  OBVIOUS

\* Concatenation is associative.
LEMMA CatCat ==
  ASSUME NEW T, NEW s \in Seq(T), NEW t \in Seq(T), NEW u \in Seq(T)
  PROVE  (s \o t) \o u = s \o (t \o u)
  OBVIOUS

\* A pair is two singletons.
LEMMA Pair ==
  ASSUME NEW T, NEW a \in T, NEW b \in T
  PROVE  <<a, b>> = <<a>> \o <<b>> /\ <<a, b>> \in Seq(T) /\ <<a>> \in Seq(T)
<1>1. <<a>> \in Seq(T) /\ <<b>> \in Seq(T) /\ Len(<<a>>) = 1 /\ Len(<<b>>) = 1
  OBVIOUS
<1>2. <<a, b>> \in Seq(T) /\ Len(<<a, b>>) = 2
  OBVIOUS
<1>3. \A i \in 1..2 : (<<a>> \o <<b>>)[i] = <<a, b>>[i]
  OBVIOUS
<1>4. <<a>> \o <<b>> \in Seq(T) /\ Len(<<a>> \o <<b>>) = 2
  BY <1>1, Cat
<1>5. <<a, b>> = <<a>> \o <<b>>
  BY <1>2, <1>3, <1>4, SeqEqual
<1> QED BY <1>1, <1>2, <1>5

\* f is written [i \in 1..n |-> ...].
IsListed(f, n) == f = [i \in 1..n |-> f[i]]

\* A function over 1..n has length n.
LEMMA LenListed ==
  ASSUME NEW n \in Nat, NEW f, IsListed(f, n)
  PROVE  Len(f) = n
<1>1. Len([i \in 1..n |-> f[i]]) = n
  OBVIOUS
<1> QED BY <1>1 DEF IsListed

\* A function over 1..n into T is a sequence over T.
LEMMA MakeSeq ==
  ASSUME NEW T, NEW n \in Nat, NEW f, IsListed(f, n), \A i \in 1..n : f[i] \in T
  PROVE  f \in Seq(T) /\ Len(f) = n
<1>1. [i \in 1..n |-> f[i]] \in Seq(T) /\ Len([i \in 1..n |-> f[i]]) = n
  OBVIOUS
<1> QED BY <1>1 DEF IsListed

\* The first n of the pieces.
First(n, ps) == [i \in 1..n |-> ps[i]]

\* All but the last piece of a sequence of pieces, typed.
LEMMA FlattenPieces ==
  ASSUME NEW T, NEW n \in Nat, NEW ps \in Seq(Seq(T)), Len(ps) = n + 1
  PROVE  /\ First(n, ps) \in Seq(Seq(T)) /\ Len(First(n, ps)) = n
         /\ \A i \in 1..n : First(n, ps)[i] = ps[i]
         /\ ps[n + 1] \in Seq(T)
         /\ FlattenSeq(ps) = FlattenSeq(First(n, ps)) \o ps[n + 1]
<1> DEFINE init == [i \in 1..n |-> ps[i]]
<1>0. init = First(n, ps) /\ \A i \in 1..n : init[i] = ps[i]
  BY DEF First
<1>1. ps[n + 1] \in Seq(T) /\ \A i \in 1..n : ps[i] \in Seq(T)
  OBVIOUS
<1>2. init \in Seq(Seq(T)) /\ Len(init) = n
  <2> HIDE <1>1
  <2> QED BY <1>1
<1>3. CASE n = 0
  <2>1. init = <<>> /\ FlattenSeq(ps) = ps[1]
    BY <1>3, FlattenOne
  <2> HIDE DEF init
  <2>2. ps[1] = <<>> \o ps[1]
    BY <1>1, <1>3
  <2> QED BY <1>0, <1>1, <1>2, <1>3, <2>1, <2>2, FlattenEmpty
<1>4. CASE n # 0
  BY <1>0, <1>1, <1>2, <1>4, FlattenStep
<1> QED BY <1>3, <1>4

\* What is flattened is a sequence over the same elements.
LEMMA FlattenType ==
  ASSUME NEW T, NEW ps \in Seq(Seq(T))
  PROVE  FlattenSeq(ps) \in Seq(T)
<1> DEFINE S == {n \in Nat : \A qs \in Seq(Seq(T)) : Len(qs) = n => FlattenSeq(qs) \in Seq(T)}
<1>1. 0 \in S
  <2>1. \A qs \in Seq(Seq(T)) : Len(qs) = 0 => qs = <<>>
    OBVIOUS
  <2> QED BY <2>1, FlattenEmpty
<1>2. ASSUME NEW n \in Nat, n \in S PROVE n + 1 \in S
  <2>1. ASSUME NEW qs \in Seq(Seq(T)), Len(qs) = n + 1 PROVE FlattenSeq(qs) \in Seq(T)
    <3> DEFINE init == First(n, qs)
    <3>1. /\ init \in Seq(Seq(T)) /\ Len(init) = n
          /\ qs[n + 1] \in Seq(T)
          /\ FlattenSeq(qs) = FlattenSeq(init) \o qs[n + 1]
      BY <2>1, FlattenPieces
    <3> HIDE DEF init
    <3>2. FlattenSeq(init) \in Seq(T)
      BY <1>2, <3>1
    <3> QED BY <3>1, <3>2
  <2> QED BY <2>1
<1> HIDE DEF S
<1>3. Len(ps) \in S
  <2>1. Len(ps) \in Nat
    OBVIOUS
  <2> QED BY <1>1, <1>2, <2>1, NatSet
<1> QED BY <1>3 DEF S

-----------------------------------------------------------------------------
(* Texts, by their words and their values *)

Words ==
  {"value", ",", ";", "(", ")", "=", "AND", "INSERT", "ON DUPLICATE KEY UPDATE", "VALUES",
   "create_time", "update_time", "UPDATE", "= CASE", "WHEN (", "key =", ") THEN", "END",
   "WHERE (", "keys", ") IN (", "WHERE", ") ;", "DELETE WHERE (", "key"}

KeyPart  == UNION {Range(k) : k \in Key}
TimeText == [minute : {Minute}, second : Nat, fraction : Nat, width : 1..6]
Content  == {0} \cup KeyPart \cup TimeText
Token    == [word : Words, value : Content]

\* Concatenation is associative for words and for tokens, in the form the longer proofs cite.
LEMMA WordsCat == \A s, t, u \in Seq(Words) : (s \o t) \o u = s \o (t \o u)
  BY CatCat

\* For tokens.
LEMMA TokensCat == \A s, t, u \in Seq(Token) : (s \o t) \o u = s \o (t \o u)
  BY CatCat

\* The server sees these words and these values in the text.
Reads(text, shape, values) ==
  /\ text \in Seq(Token) /\ shape \in Seq(Words) /\ values \in Seq(Content)
  /\ Shape(text) = shape
  /\ Values(text) = values

Part(token) == IF token.word = "value" THEN <<token.value>> ELSE <<>>

\* A token carries no value or one.
LEMMA PartType ==
  ASSUME NEW token \in Token
  PROVE  Part(token) \in Seq(Content)
  BY DEF Part, Token

\* The values of a text are its tokens' values, flattened.
LEMMA ValuesPieces ==
  ASSUME NEW text \in Seq(Token)
  PROVE  LET parts == [i \in 1..Len(text) |-> Part(text[i])] IN
         /\ parts \in Seq(Seq(Content)) /\ Len(parts) = Len(text)
         /\ Values(text) = FlattenSeq(parts)
<1> DEFINE parts == [i \in 1..Len(text) |-> Part(text[i])]
<1>1. \A i \in 1..Len(text) : Part(text[i]) \in Seq(Content)
  BY PartType
<1>2. Len(text) \in Nat
  OBVIOUS
<1>3. parts \in Seq(Seq(Content)) /\ Len(parts) = Len(text)
  BY <1>1, <1>2
<1>4. Values(text) = FlattenSeq(parts)
  BY DEF Values, Concat, Part
<1> QED BY <1>3, <1>4

\* The values of a text are contents.
LEMMA ValuesType ==
  ASSUME NEW text \in Seq(Token)
  PROVE  Values(text) \in Seq(Content)
  BY ValuesPieces, FlattenType

\* An empty text has no value.
LEMMA ValuesEmpty == Values(<<>>) = <<>>
<1>1. FlattenSeq([i \in 1..0 |-> Part(<<>>[i])]) = <<>>
  <2>1. [i \in 1..0 |-> Part(<<>>[i])] = <<>>
    OBVIOUS
  <2> QED BY <2>1, FlattenEmpty
<1>2. <<>> \in Seq(Token) /\ Len(<<>>) = 0
  OBVIOUS
<1> QED BY <1>1, <1>2, ValuesPieces

\* One more token adds the value it carries.
LEMMA ValuesAppend ==
  ASSUME NEW text \in Seq(Token), NEW token \in Token
  PROVE  Values(text \o <<token>>) = Values(text) \o Part(token)
<1> DEFINE t == text \o <<token>>
           n == Len(text)
           parts == [i \in 1..Len(t) |-> Part(t[i])]
           init  == First(n, parts)
<1>1. n \in Nat /\ t \in Seq(Token) /\ Len(t) = n + 1 /\ t[n + 1] = token /\ \A i \in 1..n : t[i] = text[i]
  OBVIOUS
<1> HIDE DEF t, n
<1>2. parts \in Seq(Seq(Content)) /\ Len(parts) = n + 1 /\ Values(t) = FlattenSeq(parts)
  BY <1>1, ValuesPieces
<1>3. FlattenSeq(parts) = FlattenSeq(init) \o parts[n + 1]
  <2> HIDE DEF parts
  <2> QED BY <1>1, <1>2, FlattenPieces
<1>4. parts[n + 1] = Part(token)
  BY <1>1
<1>5. init = [i \in 1..Len(text) |-> Part(text[i])]
  BY <1>1 DEF n, First
<1>6. FlattenSeq(init) = Values(text)
  BY <1>5, ValuesPieces
<1> QED BY <1>2, <1>3, <1>4, <1>6 DEF t

\* The shape of two texts is their shapes, one after the other.
LEMMA ShapeCat ==
  ASSUME NEW s \in Seq(Token), NEW t \in Seq(Token)
  PROVE  /\ Shape(s) \in Seq(Words)
         /\ Shape(s \o t) = Shape(s) \o Shape(t)
<1>1. \A u \in Seq(Token) : /\ Len(u) \in Nat /\ DOMAIN u = 1..Len(u)
                            /\ \A i \in 1..Len(u) : u[i].word \in Words
  <2>1. ASSUME NEW u \in Seq(Token)
        PROVE  Len(u) \in Nat /\ DOMAIN u = 1..Len(u) /\ \A i \in 1..Len(u) : u[i] \in Token
    OBVIOUS
  <2>2. \A token \in Token : token.word \in Words
    BY DEF Token
  <2> QED BY <2>1, <2>2
<1>2. \A u \in Seq(Token) : /\ Shape(u) = [i \in 1..Len(u) |-> u[i].word]
                            /\ Shape(u) \in Seq(Words) /\ Len(Shape(u)) = Len(u)
  BY <1>1 DEF Shape
<1>3. s \o t \in Seq(Token) /\ Len(s \o t) = Len(s) + Len(t)
  OBVIOUS
<1>4. Shape(s) \o Shape(t) \in Seq(Words) /\ Len(Shape(s) \o Shape(t)) = Len(s) + Len(t)
  <2>1. /\ Shape(s) \in Seq(Words) /\ Len(Shape(s)) = Len(s)
        /\ Shape(t) \in Seq(Words) /\ Len(Shape(t)) = Len(t)
    BY <1>2
  <2> QED BY <2>1, Cat
<1>5. ASSUME NEW i \in 1..(Len(s) + Len(t))
      PROVE  Shape(s \o t)[i] = (Shape(s) \o Shape(t))[i]
  <2>1. Shape(s \o t)[i] = (s \o t)[i].word
    BY <1>2, <1>3
  <2>2. (Shape(s) \o Shape(t))[i] = IF i <= Len(s) THEN Shape(s)[i] ELSE Shape(t)[i - Len(s)]
    BY <1>2, ConcatProperties
  <2>3. CASE i <= Len(s)
    <3>1. (s \o t)[i] = s[i] /\ i \in 1..Len(s)
      BY <1>1, <2>3
    <3> QED BY <1>2, <2>1, <2>2, <2>3, <3>1
  <2>4. CASE ~(i <= Len(s))
    <3>1. (s \o t)[i] = t[i - Len(s)] /\ i - Len(s) \in 1..Len(t)
      BY <1>1, <2>4
    <3> QED BY <1>2, <2>1, <2>2, <2>4, <3>1
  <2> QED BY <2>3, <2>4
<1> QED BY <1>2, <1>3, <1>4, <1>5, SeqEqual

\* So are their values.
LEMMA ValuesCat ==
  ASSUME NEW s \in Seq(Token), NEW t \in Seq(Token)
  PROVE  Values(s \o t) = Values(s) \o Values(t)
<1> DEFINE P(u) == Values(s \o u) = Values(s) \o Values(u)
           S == {n \in Nat : \A u \in Seq(Token) : Len(u) = n => P(u)}
<1>1. 0 \in S
  <2>1. ASSUME NEW u \in Seq(Token), Len(u) = 0 PROVE P(u)
    <3>1. u = <<>> /\ s \o u = s
      BY <2>1
    <3>2. Values(s) \o <<>> = Values(s)
      BY ValuesType
    <3> QED BY <3>1, <3>2, ValuesEmpty
  <2> QED BY <2>1
<1>2. ASSUME NEW n \in Nat, n \in S PROVE n + 1 \in S
  <2>1. ASSUME NEW u \in Seq(Token), Len(u) = n + 1 PROVE P(u)
    <3> DEFINE init == [i \in 1..n |-> u[i]]
               x    == u[n + 1]
    <3>1. init \in Seq(Token) /\ Len(init) = n /\ x \in Token
      BY <2>1
    <3>2. u = init \o <<x>>
      BY <2>1
    <3> HIDE DEF init, x
    <3>3. s \o u = (s \o init) \o <<x>> /\ s \o init \in Seq(Token)
      BY <3>1, <3>2
    <3>4. Values(s \o u) = Values(s \o init) \o Part(x)
      BY <3>1, <3>3, ValuesAppend
    <3>5. Values(u) = Values(init) \o Part(x)
      BY <3>1, <3>2, ValuesAppend
    <3>6. Values(s \o init) = Values(s) \o Values(init)
      BY <1>2, <3>1
    <3>7. Values(s) \in Seq(Content) /\ Values(init) \in Seq(Content) /\ Part(x) \in Seq(Content)
      BY <3>1, ValuesType, PartType
    <3>8. (Values(s) \o Values(init)) \o Part(x) = Values(s) \o (Values(init) \o Part(x))
      BY <3>7
    <3> QED BY <3>4, <3>5, <3>6, <3>8
  <2> QED BY <2>1
<1> HIDE DEF S
<1>3. Len(t) \in S
  <2>1. Len(t) \in Nat
    OBVIOUS
  <2> QED BY <1>1, <1>2, <2>1, NatSet
<1> QED BY <1>3 DEF S

\* The empty text reads as nothing.
LEMMA ReadsNothing == Reads(<<>>, <<>>, <<>>)
<1>1. Shape(<<>>) = <<>> /\ <<>> \in Seq(Token) /\ <<>> \in Seq(Words) /\ <<>> \in Seq(Content)
  BY DEF Shape
<1> QED BY <1>1, ValuesEmpty DEF Reads

\* One token reads as its word and its value.
LEMMA ReadsToken ==
  ASSUME NEW token \in Token
  PROVE  Reads(<<token>>, <<token.word>>, Part(token))
<1>1. <<token>> \in Seq(Token) /\ <<token.word>> \in Seq(Words)
  BY DEF Token
<1>2. Shape(<<token>>) = <<token.word>>
  BY DEF Shape
<1>3. Values(<<token>>) = Part(token)
  <2>1. <<>> \in Seq(Token) /\ <<>> \o <<token>> = <<token>>
    OBVIOUS
  <2>2. Values(<<token>>) = <<>> \o Part(token)
    BY <2>1, ValuesAppend, ValuesEmpty
  <2>3. \A v \in Seq(Content) : <<>> \o v = v
    OBVIOUS
  <2> QED BY <2>2, <2>3, PartType
<1> QED BY <1>1, <1>2, <1>3, PartType DEF Reads

\* A word that is no value reads as itself.
LEMMA ReadsWord ==
  ASSUME NEW w \in Words, w # "value"
  PROVE  Reads(<<Word(w)>>, <<w>>, <<>>)
<1>1. Word(w) \in Token /\ Word(w).word = w
  BY DEF Word, Token, Content
<1>2. Part(Word(w)) = <<>>
  BY <1>1 DEF Part
<1> QED BY <1>1, <1>2, ReadsToken

\* A value reads as its content.
LEMMA ReadsValue ==
  ASSUME NEW v \in Content
  PROVE  Reads(<<Value(v)>>, <<"value">>, <<v>>)
<1>1. Value(v).word = "value" /\ Value(v).value = v
  BY DEF Value
<1>3. Value(v) \in Token
  BY DEF Value, Token, Words
<1>2. Part(Value(v)) = <<v>>
  BY <1>1 DEF Part
<1> QED BY <1>1, <1>2, <1>3, ReadsToken

\* What two texts read as, their concatenation reads as: the step of every proof that follows a generator.
LEMMA ReadsCat ==
  ASSUME NEW s, NEW a, NEW u, Reads(s, a, u),
         NEW t, NEW b, NEW v, Reads(t, b, v)
  PROVE  Reads(s \o t, a \o b, u \o v)
<1>1. s \o t \in Seq(Token) /\ a \o b \in Seq(Words) /\ u \o v \in Seq(Content)
  BY DEF Reads
<1> QED BY <1>1, ShapeCat, ValuesCat DEF Reads

\* What is read in a text put together from pieces.
LEMMA ReadsFlatten ==
  ASSUME NEW ps, NEW as, NEW us,
         ps \in Seq(Seq(Token)), as \in Seq(Seq(Words)), us \in Seq(Seq(Content)),
         Len(as) = Len(ps), Len(us) = Len(ps),
         \A i \in 1..Len(ps) : Reads(ps[i], as[i], us[i])
  PROVE  Reads(FlattenSeq(ps), FlattenSeq(as), FlattenSeq(us))
<1> DEFINE Fit(qs, bs, vs) ==
             /\ Len(bs) = Len(qs) /\ Len(vs) = Len(qs)
             /\ \A i \in 1..Len(qs) : Reads(qs[i], bs[i], vs[i])
           S == {n \in Nat : \A qs \in Seq(Seq(Token)), bs \in Seq(Seq(Words)),
                                vs \in Seq(Seq(Content)) :
                   Len(qs) = n /\ Fit(qs, bs, vs)
                     => Reads(FlattenSeq(qs), FlattenSeq(bs), FlattenSeq(vs))}
<1>1. 0 \in S
  <2>1. ASSUME NEW qs \in Seq(Seq(Token)), NEW bs \in Seq(Seq(Words)),
               NEW vs \in Seq(Seq(Content)), Len(qs) = 0, Len(bs) = 0, Len(vs) = 0
        PROVE  qs = <<>> /\ bs = <<>> /\ vs = <<>>
    BY <2>1, EmptySeq
  <2> QED BY <2>1, FlattenEmpty, ReadsNothing
<1>2. ASSUME NEW n \in Nat, n \in S PROVE n + 1 \in S
  <2>1. ASSUME NEW qs \in Seq(Seq(Token)), NEW bs \in Seq(Seq(Words)),
               NEW vs \in Seq(Seq(Content)), Len(qs) = n + 1, Fit(qs, bs, vs)
        PROVE  Reads(FlattenSeq(qs), FlattenSeq(bs), FlattenSeq(vs))
    <3> DEFINE q == First(n, qs)
               b == First(n, bs)
               v == First(n, vs)
    <3>0. Len(bs) = n + 1 /\ Len(vs) = n + 1
      BY <2>1
    <3>1. /\ q \in Seq(Seq(Token)) /\ Len(q) = n /\ \A i \in 1..n : q[i] = qs[i]
          /\ FlattenSeq(qs) = FlattenSeq(q) \o qs[n + 1]
      BY <2>1, FlattenPieces
    <3>2. /\ b \in Seq(Seq(Words)) /\ Len(b) = n /\ \A i \in 1..n : b[i] = bs[i]
          /\ FlattenSeq(bs) = FlattenSeq(b) \o bs[n + 1]
      BY <3>0, FlattenPieces
    <3>3. /\ v \in Seq(Seq(Content)) /\ Len(v) = n /\ \A i \in 1..n : v[i] = vs[i]
          /\ FlattenSeq(vs) = FlattenSeq(v) \o vs[n + 1]
      BY <3>0, FlattenPieces
    <3> HIDE DEF q, b, v
    <3>5. \A i \in 1..(n + 1) : Reads(qs[i], bs[i], vs[i])
      BY <2>1
    <3>6. Fit(q, b, v)
      <4>1. ASSUME NEW i \in 1..n PROVE Reads(q[i], b[i], v[i])
        <5>1. i \in 1..(n + 1)
          OBVIOUS
        <5>2. Reads(qs[i], bs[i], vs[i])
          BY <3>5, <5>1
        <5> QED BY <3>1, <3>2, <3>3, <5>2
      <4> QED BY <3>1, <3>2, <3>3, <4>1
    <3> HIDE DEF Fit
    <3>7. Reads(FlattenSeq(q), FlattenSeq(b), FlattenSeq(v))
      BY <1>2, <3>1, <3>2, <3>3, <3>6
    <3>8. Reads(qs[n + 1], bs[n + 1], vs[n + 1])
      BY <3>5
    <3> QED BY <3>1, <3>2, <3>3, <3>7, <3>8, ReadsCat
  <2> HIDE DEF Fit
  <2> QED BY <2>1
<1>3. Fit(ps, as, us)
  OBVIOUS
<1> HIDE DEF S, Fit
<1>4. Len(ps) \in S
  <2>1. Len(ps) \in Nat
    OBVIOUS
  <2> QED BY <1>1, <1>2, <2>1, NatSet
<1> QED BY <1>3, <1>4 DEF S

\* n pieces, each with an item, a separator after all but the last, and after
\* the last something else.
AreSeparated(full, us, n, item, separator, last) ==
  \A i \in 1..n : \E p : /\ Reads(p, item, us[i])
                         /\ full[i] = p \o (IF i = n THEN last ELSE <<Word(separator)>>)

\* Pieces that all read as the same item, a separator after each but the last, read as that item separated.
LEMMA ReadsSeparated ==
  ASSUME NEW m \in Nat,
         NEW full \in Seq(Seq(Token)), Len(full) = m + 1,
         NEW us \in Seq(Seq(Content)), Len(us) = m + 1,
         NEW item, NEW separator \in Words \ {"value"}, NEW last, NEW end,
         Reads(last, end, <<>>),
         AreSeparated(full, us, m + 1, item, separator, last)
  PROVE  Reads(FlattenSeq(full), Separated(m + 1, item, separator) \o end, FlattenSeq(us))
<1> DEFINE fs == First(m, full)
           vs == First(m, us)
           as == [i \in 1..m |-> item \o <<separator>>]
<1>1. /\ fs \in Seq(Seq(Token)) /\ Len(fs) = m /\ \A i \in 1..m : fs[i] = full[i]
      /\ FlattenSeq(full) = FlattenSeq(fs) \o full[m + 1]
  BY FlattenPieces
<1>2. /\ vs \in Seq(Seq(Content)) /\ Len(vs) = m /\ \A i \in 1..m : vs[i] = us[i]
      /\ FlattenSeq(us) = FlattenSeq(vs) \o us[m + 1]
  BY FlattenPieces
<1>3. item \in Seq(Words) /\ <<separator>> \in Seq(Words) /\ end \in Seq(Words)
  <2>1. m + 1 \in 1..(m + 1)
    OBVIOUS
  <2>2. PICK p : Reads(p, item, us[m + 1])
    BY <2>1 DEF AreSeparated
  <2> QED BY <2>2 DEF Reads
<1>4. as \in Seq(Seq(Words)) /\ Len(as) = m
  <2>1. item \o <<separator>> \in Seq(Words)
    BY <1>3
  <2> QED BY <2>1
<1>5. \A i \in 1..m : as[i] = item \o <<separator>>
  OBVIOUS
<1>6. Separated(m + 1, item, separator) = FlattenSeq(as) \o item
  <2>1. (m + 1) - 1 = m
    OBVIOUS
  <2> QED BY <2>1 DEF Separated, Concat
<1> HIDE DEF fs, vs, as
<1>7. ASSUME NEW i \in 1..m
      PROVE  Reads(fs[i], as[i], vs[i])
  <2>0. i \in 1..(m + 1) /\ i # m + 1
    OBVIOUS
  <2>1. PICK p : Reads(p, item, us[i]) /\ full[i] = p \o <<Word(separator)>>
    BY <2>0 DEF AreSeparated
  <2>2. Reads(full[i], item \o <<separator>>, us[i] \o <<>>)
    BY <2>1, ReadsWord, ReadsCat
  <2>3. us[i] \o <<>> = us[i]
    BY <2>1 DEF Reads
  <2> QED BY <1>1, <1>2, <1>5, <2>2, <2>3
<1>8. Reads(FlattenSeq(fs), FlattenSeq(as), FlattenSeq(vs))
  BY <1>1, <1>2, <1>4, <1>7, ReadsFlatten
<1>9. PICK p : Reads(p, item, us[m + 1]) /\ full[m + 1] = p \o last
  <2>1. m + 1 \in 1..(m + 1)
    OBVIOUS
  <2> QED BY <2>1 DEF AreSeparated
<1>10. Reads(full[m + 1], item \o end, us[m + 1])
  <2>1. Reads(full[m + 1], item \o end, us[m + 1] \o <<>>)
    BY <1>9, ReadsCat
  <2>2. us[m + 1] \o <<>> = us[m + 1]
    BY <1>9 DEF Reads
  <2> QED BY <2>1, <2>2
<1>11. Reads(FlattenSeq(full), FlattenSeq(as) \o (item \o end), FlattenSeq(us))
  BY <1>1, <1>2, <1>8, <1>10, ReadsCat
<1>12. FlattenSeq(as) \in Seq(Words)
  BY <1>8 DEF Reads
<1>13. FlattenSeq(as) \o (item \o end) = (FlattenSeq(as) \o item) \o end
  <2> DEFINE x == FlattenSeq(as)
  <2>1. x \in Seq(Words)
    BY <1>12
  <2> HIDE DEF x
  <2>2. (x \o item) \o end = x \o (item \o end)
    BY <1>3, <2>1, CatCat
  <2> QED BY <2>2 DEF x
<1> QED BY <1>6, <1>11, <1>13

\* A positive number has a predecessor.
LEMMA OneMore ==
  ASSUME NEW n \in Nat, n # 0
  PROVE  \E m \in Nat : n = m + 1
<1>1. n - 1 \in Nat /\ n = (n - 1) + 1
  OBVIOUS
<1> QED BY <1>1

\* Singletons flattened give the sequence back.
LEMMA FlattenSingles ==
  ASSUME NEW T, NEW v \in Seq(T)
  PROVE  LET singles == [i \in 1..Len(v) |-> <<v[i]>>] IN
         /\ singles \in Seq(Seq(T)) /\ Len(singles) = Len(v)
         /\ FlattenSeq(singles) = v
<1> DEFINE Singles(u) == [i \in 1..Len(u) |-> <<u[i]>>]
           S == {n \in Nat : \A u \in Seq(T) : Len(u) = n => FlattenSeq(Singles(u)) = u}
<1>0. ASSUME NEW u \in Seq(T)
      PROVE  /\ Len(u) \in Nat /\ Singles(u) \in Seq(Seq(T)) /\ Len(Singles(u)) = Len(u)
             /\ \A i \in 1..Len(u) : Singles(u)[i] = <<u[i]>>
  <2>1. Len(u) \in Nat /\ \A i \in 1..Len(u) : <<u[i]>> \in Seq(T)
    OBVIOUS
  <2> QED BY <2>1
<1>1. 0 \in S
  <2>1. ASSUME NEW u \in Seq(T), Len(u) = 0 PROVE u = <<>> /\ Singles(u) = <<>>
    BY <2>1
  <2> QED BY <2>1, FlattenEmpty
<1>2. ASSUME NEW n \in Nat, n \in S PROVE n + 1 \in S
  <2>1. ASSUME NEW u \in Seq(T), Len(u) = n + 1 PROVE FlattenSeq(Singles(u)) = u
    <3> DEFINE t == [i \in 1..n |-> u[i]]
    <3>1. t \in Seq(T) /\ Len(t) = n /\ u = t \o <<u[n + 1]>>
      BY <2>1
    <3>2. First(n, Singles(u)) = Singles(t)
      BY <2>1, <3>1 DEF First
    <3>3. Singles(u)[n + 1] = <<u[n + 1]>>
      BY <2>1
    <3>4. Singles(u) \in Seq(Seq(T)) /\ Len(Singles(u)) = n + 1
      BY <1>0, <2>1
    <3> HIDE DEF Singles, t
    <3>5. FlattenSeq(Singles(u)) = FlattenSeq(First(n, Singles(u))) \o Singles(u)[n + 1]
      BY <3>4, FlattenPieces
    <3>6. FlattenSeq(Singles(t)) = t
      BY <1>2, <3>1
    <3> QED BY <3>1, <3>2, <3>3, <3>5, <3>6
  <2> HIDE DEF Singles
  <2> QED BY <2>1
<1> HIDE DEF S, Singles
<1>3. Len(v) \in S
  BY <1>0, <1>1, <1>2, NatSet
<1>4. FlattenSeq(Singles(v)) = v
  BY <1>3 DEF S
<1> QED BY <1>0, <1>4 DEF Singles

\* Front drops what was appended last.
LEMMA FrontCat ==
  ASSUME NEW T, NEW s \in Seq(T), NEW x \in T
  PROVE  Front(s \o <<x>>) = s /\ s \o <<x>> # <<>>
<1>1. s \o <<x>> \in Seq(T) /\ Len(s \o <<x>>) = Len(s) + 1 /\ Len(s) \in Nat
  OBVIOUS
<1>2. Front(s \o <<x>>) = SubSeq(s \o <<x>>, 1, Len(s))
  BY <1>1 DEF Front
<1>3. \A i \in 1..Len(s) : (s \o <<x>>)[i] = s[i] /\ s[i] \in T
  OBVIOUS
<1>4. /\ SubSeq(s \o <<x>>, 1, Len(s)) \in Seq(T)
      /\ Len(SubSeq(s \o <<x>>, 1, Len(s))) = Len(s)
      /\ \A i \in 1..Len(s) : SubSeq(s \o <<x>>, 1, Len(s))[i] = s[i]
  BY <1>1, <1>3
<1>5. Front(s \o <<x>>) = s
  BY <1>2, <1>4, SeqEqual
<1>6. s \o <<x>> # <<>>
  BY <1>1
<1> QED BY <1>5, <1>6

\* Pieces of one length: where each of their elements is.
Laid(f, ps, l) == \A i \in 1..Len(ps), j \in 1..l : f[l * (i - 1) + j] = ps[i][j]

\* Pieces of one length l flatten to l times as much, each in its place: how a list of rows is cut again.
LEMMA FlattenUniform ==
  ASSUME NEW T, NEW l \in Nat, NEW ps \in Seq(Seq(T)), \A i \in 1..Len(ps) : Len(ps[i]) = l
  PROVE  /\ Len(FlattenSeq(ps)) = l * Len(ps)
         /\ Laid(FlattenSeq(ps), ps, l)
<1> DEFINE U(qs) == \A i \in 1..Len(qs) : Len(qs[i]) = l
           C(qs) == /\ Len(FlattenSeq(qs)) = l * Len(qs)
                    /\ \A i \in 1..Len(qs), j \in 1..l :
                         FlattenSeq(qs)[l * (i - 1) + j] = qs[i][j]
           S == {n \in Nat : \A qs \in Seq(Seq(T)) : Len(qs) = n /\ U(qs) => C(qs)}
<1>1. 0 \in S
  <2>1. ASSUME NEW qs \in Seq(Seq(T)), Len(qs) = 0 PROVE C(qs)
    <3>1. FlattenSeq(qs) = <<>>
      BY <2>1, EmptySeq, FlattenEmpty
    <3>2. l * 0 = 0 /\ 1..0 = {}
      OBVIOUS
    <3> QED BY <2>1, <3>1, <3>2
  <2> QED BY <2>1
<1>2. ASSUME NEW n \in Nat, n \in S PROVE n + 1 \in S
  <2>1. ASSUME NEW qs \in Seq(Seq(T)), Len(qs) = n + 1, U(qs) PROVE C(qs)
    <3> DEFINE q == First(n, qs)
               f == FlattenSeq(q)
               x == qs[n + 1]
    <3>1. /\ q \in Seq(Seq(T)) /\ Len(q) = n /\ \A i \in 1..n : q[i] = qs[i]
          /\ x \in Seq(T) /\ FlattenSeq(qs) = f \o x
      BY <2>1, FlattenPieces
    <3> HIDE DEF q, x
    <3>2. Len(x) = l /\ U(q)
      <4>1. n + 1 \in 1..(n + 1)
        OBVIOUS
      <4>2. Len(x) = l
        BY <2>1, <4>1 DEF x
      <4>3. ASSUME NEW i \in 1..n PROVE Len(q[i]) = l
        <5>1. i \in 1..(n + 1)
          OBVIOUS
        <5> QED BY <2>1, <3>1, <5>1
      <4> QED BY <3>1, <4>2, <4>3
    <3>3. C(q)
      <4> HIDE DEF U, C
      <4> QED BY <1>2, <3>1, <3>2
    <3>4. f \in Seq(T) /\ Len(f) = l * n
      BY <3>1, <3>3, FlattenType
    <3>5. \A i \in 1..n, j \in 1..l : f[l * (i - 1) + j] = qs[i][j]
      BY <3>1, <3>3
    <3> HIDE DEF f
    <3>6. l * n \in Nat /\ l * (n + 1) = l * n + l
      OBVIOUS
    <3>7. Len(f \o x) = l * (n + 1)
      <4>1. Len(f \o x) = Len(f) + Len(x)
        BY <3>1, <3>4, Cat
      <4> QED BY <3>2, <3>4, <3>6, <4>1
    <3>8. ASSUME NEW i \in 1..(n + 1), NEW j \in 1..l
          PROVE  (f \o x)[l * (i - 1) + j] = qs[i][j]
      <4>1. CASE i = n + 1
        <5>1. l * (i - 1) + j = Len(f) + j
          BY <3>4, <4>1
        <5>2. (f \o x)[Len(f) + j] = x[j]
          BY <3>1, <3>2, <3>4, <3>6
        <5> QED BY <4>1, <5>1, <5>2 DEF x
      <4>2. CASE i # n + 1
        <5>1. i \in 1..n
          BY <4>2
        <5>2. l * (i - 1) + j \in 1..(l * n)
          <6>1. PICK d \in Nat : n = (i - 1) + 1 + d
            <7>1. n - i \in Nat /\ n = (i - 1) + 1 + (n - i)
              BY <5>1
            <7> QED BY <7>1
          <6>2. i - 1 \in Nat
            BY <5>1
          <6> DEFINE e == i - 1
          <6>3. l * n = l * e + l + l * d
            <7>1. e \in Nat /\ n = e + 1 + d
              BY <6>1, <6>2
            <7> HIDE DEF e
            <7> QED BY <7>1
          <6>4. l * e \in Nat /\ l * d \in Nat
            BY <6>2
          <6> HIDE DEF e
          <6>5. l * e + j \in 1..(l * n)
            BY <6>3, <6>4
          <6> QED BY <6>5 DEF e
        <5>3. (f \o x)[l * (i - 1) + j] = f[l * (i - 1) + j]
          BY <3>1, <3>4, <5>2
        <5> QED BY <3>5, <5>1, <5>3
      <4> QED BY <4>1, <4>2
    <3> QED BY <2>1, <3>1, <3>7, <3>8
  <2> HIDE DEF U, C
  <2> QED BY <2>1
<1>3. U(ps)
  OBVIOUS
<1> HIDE DEF S, U, C
<1>4. C(ps)
  <2>1. Len(ps) \in Nat
    OBVIOUS
  <2>2. Len(ps) \in S
    BY <1>1, <1>2, <2>1, NatSet
  <2> QED BY <1>3, <2>2 DEF S
<1> QED BY <1>4 DEF C, Laid

-----------------------------------------------------------------------------
(* DbManager's texts *)

\* A model of the table, as the generators see it.
IsModel(m) == m.key \in Key /\ m.create \in TimeText /\ m.renewed \in TimeText

\* Its values, in the order they are written in.
Fields(m) == m.key \o ColumnValues(m)

\* A key is one column long or more.
LEMMA KeyType ==
  ASSUME NEW k \in Key
  PROVE  k \in Seq(Content) /\ Len(k) \in Nat \ {0} /\ k # <<>>
<1>1. k \in Seq(KeyPart) /\ k # <<>>
  BY KeyAssumption DEF KeyPart
<1>2. k \in Seq(Content)
  BY <1>1, SeqMonotonic DEF Content
<1> QED BY <1>1, <1>2, EmptySeq

\* A model's fields are its key columns and the two times.
LEMMA FieldsType ==
  ASSUME NEW m, IsModel(m)
  PROVE  /\ m.key \in Seq(Content) /\ Len(m.key) \in Nat \ {0}
         /\ m.create \in Content /\ m.renewed \in Content
         /\ ColumnValues(m) = <<m.create, m.renewed>> /\ ColumnValues(m) \in Seq(Content)
         /\ Fields(m) \in Seq(Content) /\ Len(Fields(m)) = Len(m.key) + 2
<1>1. m.key \in Seq(Content) /\ Len(m.key) \in Nat \ {0}
  BY KeyType DEF IsModel
<1>2. m.create \in Content /\ m.renewed \in Content
  BY DEF IsModel, Content
<1>3. ColumnValues(m) = <<m.create, m.renewed>> /\ ColumnValues(m) \in Seq(Content) /\ Len(ColumnValues(m)) = 2
  BY <1>2 DEF ColumnValues
<1> QED BY <1>1, <1>2, <1>3, Cat DEF Fields

\* Value and Word build tokens.
LEMMA TokenType ==
  /\ \A v \in Content : Value(v) \in Token
  /\ \A w \in Words : Word(w) \in Token
<1>1. \A v \in Content : Value(v) \in Token
  BY DEF Value, Token, Words
<1>2. \A w \in Words : Word(w) \in Token
  BY DEF Word, Token, Content
<1> QED BY <1>1, <1>2

\* A separated list of items is a shape.
LEMMA SeparatedType ==
  ASSUME NEW m \in Nat, NEW item \in Seq(Words), NEW separator \in Words
  PROVE  Separated(m + 1, item, separator) \in Seq(Words)
<1> DEFINE as == [i \in 1..m |-> item \o <<separator>>]
<1>1. as \in Seq(Seq(Words))
  <2>1. item \o <<separator>> \in Seq(Words)
    OBVIOUS
  <2> QED BY <2>1
<1>2. Separated(m + 1, item, separator) = FlattenSeq(as) \o item
  <2>1. (m + 1) - 1 = m
    OBVIOUS
  <2> QED BY <2>1 DEF Separated, Concat
<1>3. FlattenSeq(as) \in Seq(Words)
  BY <1>1, FlattenType
<1> HIDE DEF as
<1> QED BY <1>2, <1>3, Cat

\* insertAllFieldSql reads as a list of values, the fields in their order.
LEMMA ReadsFields ==
  ASSUME NEW v \in Seq(Content), v # <<>>
  PROVE  Reads(InsertAllFieldSql(v), List(Len(v), <<"value">>), v)
<1>1. PICK m \in Nat : Len(v) = m + 1
  BY EmptySeq, OneMore
<1> DEFINE full  == [i \in 1..(m + 1) |-> <<Value(v[i]), Word(",")>>]
           last  == [i \in 1..(m + 1) |-> <<Value(v[i])>> \o (IF i = m + 1 THEN <<>> ELSE <<Word(",")>>)]
           us    == [i \in 1..(m + 1) |-> <<v[i]>>]
<1>2. ASSUME NEW i \in 1..(m + 1)
      PROVE  /\ v[i] \in Content /\ Value(v[i]) \in Token /\ Word(",") \in Token
             /\ full[i] = <<Value(v[i])>> \o <<Word(",")>> /\ full[i] \in Seq(Token)
             /\ last[i] = <<Value(v[i])>> \o (IF i = m + 1 THEN <<>> ELSE <<Word(",")>>)
             /\ last[i] \in Seq(Token)
             /\ us[i] = <<v[i]>>
  <2>1. v[i] \in Content
    BY <1>1, ElementOfSeq
  <2>2. Value(v[i]) \in Token /\ Word(",") \in Token
    <3>1. "," \in Words
      BY DEF Words
    <3> QED BY <2>1, <3>1, TokenType
  <2>3. full[i] = <<Value(v[i]), Word(",")>>
    OBVIOUS
  <2>4. last[i] = <<Value(v[i])>> \o (IF i = m + 1 THEN <<>> ELSE <<Word(",")>>)
    OBVIOUS
  <2>5. us[i] = <<v[i]>>
    OBVIOUS
  <2> HIDE DEF full, last, us
  <2>6. full[i] = <<Value(v[i])>> \o <<Word(",")>> /\ full[i] \in Seq(Token)
    BY <2>2, <2>3, Pair
  <2>7. last[i] \in Seq(Token)
    <3>1. <<Value(v[i])>> \in Seq(Token) /\ <<Word(",")>> \in Seq(Token)
      BY <2>2, Pair
    <3> DEFINE p == <<Value(v[i])>>
               q == IF i = m + 1 THEN <<>> ELSE <<Word(",")>>
    <3>2. p \in Seq(Token) /\ q \in Seq(Token)
      <4>1. <<>> \in Seq(Token)
        OBVIOUS
      <4> QED BY <3>1, <4>1
    <3>3. last[i] = p \o q
      BY <2>4
    <3> HIDE DEF p, q
    <3> QED BY <3>2, <3>3, Cat
  <2> QED BY <2>1, <2>2, <2>4, <2>5, <2>6, <2>7
<1>3. full \in Seq(Seq(Token)) /\ Len(full) = m + 1
  <2>1. IsListed(full, m + 1)
    BY DEF IsListed
  <2>2. m + 1 \in Nat
    OBVIOUS
  <2> HIDE DEF full
  <2> QED BY <1>2, <2>1, <2>2, MakeSeq
<1>4. last \in Seq(Seq(Token)) /\ Len(last) = m + 1
  <2>1. IsListed(last, m + 1)
    BY DEF IsListed
  <2>2. m + 1 \in Nat
    OBVIOUS
  <2> HIDE DEF last
  <2> QED BY <1>2, <2>1, <2>2, MakeSeq
<1>5. us \in Seq(Seq(Content)) /\ Len(us) = m + 1 /\ FlattenSeq(us) = v
  BY <1>1, FlattenSingles
<1>6. First(m, full) = First(m, last)
  <2>1. ASSUME NEW i \in 1..m PROVE full[i] = last[i]
    <3>1. i \in 1..(m + 1) /\ i # m + 1
      OBVIOUS
    <3> HIDE DEF full, last
    <3> QED BY <1>2, <3>1
  <2> HIDE DEF full, last
  <2> QED BY <2>1 DEF First
<1>7. InsertAllFieldSql(v) = Front(FlattenSeq(full))
  BY <1>1 DEF InsertAllFieldSql, Concat
<1> HIDE DEF full, last, us
<1> DEFINE x == Value(v[m + 1])
<1>8. /\ FlattenSeq(full) = FlattenSeq(First(m, full)) \o full[m + 1]
      /\ First(m, full) \in Seq(Seq(Token))
  BY <1>3, FlattenPieces
<1>9. FlattenSeq(last) = FlattenSeq(First(m, last)) \o last[m + 1]
  BY <1>4, FlattenPieces
<1>10. /\ m + 1 \in 1..(m + 1) /\ x \in Token /\ Word(",") \in Token
       /\ full[m + 1] = <<x>> \o <<Word(",")>> /\ last[m + 1] = <<x>> \o <<>>
  <2>1. m + 1 \in 1..(m + 1)
    OBVIOUS
  <2> QED BY <1>2, <2>1
<1>11. FlattenSeq(First(m, full)) \in Seq(Token)
  BY <1>8, FlattenType
<1> HIDE DEF x
<1>12. Front(FlattenSeq(full)) = FlattenSeq(last)
  <2> DEFINE f == FlattenSeq(First(m, full))
             c == <<x>>
             d == <<Word(",")>>
  <2>1. f \in Seq(Token) /\ c \in Seq(Token) /\ d \in Seq(Token)
    BY <1>10, <1>11, Pair
  <2>2. FlattenSeq(full) = f \o (c \o d) /\ FlattenSeq(last) = f \o (c \o <<>>)
    BY <1>6, <1>8, <1>9, <1>10
  <2>3. \A s \in Seq(Token) : Front(s \o d) = s
    BY <1>10, FrontCat
  <2> HIDE DEF f, c, d
  <2>4. f \o (c \o d) = (f \o c) \o d
    BY <2>1, CatCat
  <2>5. c \o <<>> = c
    BY <2>1, CatEmpty
  <2>6. f \o c \in Seq(Token)
    BY <2>1, Cat
  <2> QED BY <2>2, <2>3, <2>4, <2>5, <2>6
<1>13. AreSeparated(last, us, m + 1, <<"value">>, ",", <<>>)
  BY <1>2, ReadsValue DEF AreSeparated
<1>14. Reads(FlattenSeq(last), Separated(m + 1, <<"value">>, ",") \o <<>>, v)
  <2>1. "," \in Words \ {"value"}
    BY DEF Words
  <2> QED BY <1>4, <1>5, <1>13, <2>1, ReadsNothing, ReadsSeparated
<1>15. Separated(m + 1, <<"value">>, ",") \o <<>> = List(Len(v), <<"value">>)
  <2>1. "," \in Words /\ <<"value">> \in Seq(Words)
    BY DEF Words
  <2> DEFINE whole == Separated(m + 1, <<"value">>, ",")
  <2>2. whole \in Seq(Words) /\ whole = List(Len(v), <<"value">>)
    BY <1>1, <2>1, SeparatedType DEF List
  <2> HIDE DEF whole
  <2>3. whole \o <<>> = whole
    BY <2>2, CatEmpty
  <2> QED BY <2>2, <2>3 DEF whole
<1> QED BY <1>7, <1>12, <1>14, <1>15

\* The models given to a generator: rows of one table.
AreModels(models, w) ==
  /\ Len(models) \in Nat \ {0} /\ DOMAIN models = 1..Len(models)
  /\ \A i \in 1..Len(models) : IsModel(models[i]) /\ Len(models[i].key) = w

EachFields(models) == [i \in 1..Len(models) |-> Fields(models[i])]
AllFields(models)  == FlattenSeq(EachFields(models))

Item(w) == <<"(">> \o List(w, <<"value">>) \o <<")">>

\* The fields of models of one width, model by model.
LEMMA FieldsPieces ==
  ASSUME NEW models, NEW w, AreModels(models, w)
  PROVE  /\ EachFields(models) \in Seq(Seq(Content)) /\ Len(EachFields(models)) = Len(models)
         /\ \A i \in 1..Len(models) : /\ EachFields(models)[i] = Fields(models[i])
                                      /\ Len(EachFields(models)[i]) = w + 2
<1> DEFINE us == EachFields(models)
           n  == Len(models)
<1>1. \A i \in 1..n : us[i] = Fields(models[i])
  BY DEF EachFields
<1>2. IsListed(us, n) /\ n \in Nat
  BY DEF IsListed, EachFields, AreModels
<1>3. \A i \in 1..n : Fields(models[i]) \in Seq(Content) /\ Len(Fields(models[i])) = w + 2
  BY FieldsType DEF AreModels
<1> HIDE DEF us, n
<1>4. us \in Seq(Seq(Content)) /\ Len(us) = n
  BY <1>1, <1>2, <1>3, MakeSeq
<1> QED BY <1>1, <1>3, <1>4 DEF us, n

\* The words below are words, and none of them stands for a value.
LEMMA SomeWords ==
  /\ <<"(">> \in Seq(Words) /\ <<")">> \in Seq(Words) /\ <<"value">> \in Seq(Words)
  /\ <<"INSERT">> \in Seq(Words) /\ <<";">> \in Seq(Words) /\ <<"UPDATE">> \in Seq(Words)
  /\ "(" # "value" /\ ")" # "value" /\ "INSERT" # "value" /\ ";" # "value"
  /\ "value" \in Words /\ "," \in Words \ {"value"} /\ "(" \in Words /\ ")" \in Words /\ ";" \in Words /\ "INSERT" \in Words
  BY DEF Words

\* One parenthesised row is a shape.
LEMMA ItemType ==
  ASSUME NEW w \in Nat \ {0}
  PROVE  List(w, <<"value">>) \in Seq(Words) /\ Item(w) \in Seq(Words)
<1>1. PICK m \in Nat : w = m + 1
  BY OneMore
<1>2. List(w, <<"value">>) \in Seq(Words)
  BY <1>1, SomeWords, SeparatedType DEF List
<1> QED BY <1>2, SomeWords, Cat DEF Item

\* One model in an INSERT reads as one parenthesised row.
LEMMA ReadsModel ==
  ASSUME NEW model, IsModel(model)
  PROVE  Reads(Parenthesised(model), Item(Len(model.key) + 2), Fields(model))
<1> DEFINE v == Fields(model)
           open  == <<Word("(")>>
           close == <<Word(")")>>
<1>1. v \in Seq(Content) /\ Len(v) = Len(model.key) + 2 /\ Len(model.key) \in Nat
  BY FieldsType
<1>2. v # <<>>
  BY <1>1
<1>3. Parenthesised(model) = (open \o InsertAllFieldSql(v)) \o close
  BY DEF Parenthesised, Fields
<1>4. Reads(open, <<"(">>, <<>>) /\ Reads(close, <<")">>, <<>>)
  BY ReadsWord, SomeWords
<1> HIDE DEF v, open, close
<1>5. Reads(InsertAllFieldSql(v), List(Len(v), <<"value">>), v)
  BY <1>1, <1>2, ReadsFields
<1>6. Reads((open \o InsertAllFieldSql(v)) \o close,
            (<<"(">> \o List(Len(v), <<"value">>)) \o <<")">>, (<<>> \o v) \o <<>>)
  BY <1>4, <1>5, ReadsCat
<1>7. (<<>> \o v) \o <<>> = v
  BY <1>1, CatEmpty
<1> QED BY <1>1, <1>3, <1>6, <1>7 DEF Item, v

\* The rows of an INSERT, and what follows the last of them.
LEMMA ReadsModels ==
  ASSUME NEW models, NEW w \in Nat, AreModels(models, w),
         NEW last, NEW end, Reads(last, end, <<>>), NEW full,
         Len(full) = Len(models), IsListed(full, Len(models)),
         \A i \in 1..Len(models) :
           full[i] = Parenthesised(models[i])
                       \o (IF i = Len(models) THEN last ELSE <<Word(",")>>)
  PROVE  Reads(FlattenSeq(full), Tuples(Len(models), w + 2) \o end, AllFields(models))
<1>1. PICK m \in Nat : Len(models) = m + 1
  BY OneMore DEF AreModels
<1> DEFINE us == EachFields(models)
<1>2. us \in Seq(Seq(Content)) /\ Len(us) = m + 1 /\ \A i \in 1..(m + 1) : us[i] = Fields(models[i])
  BY <1>1, FieldsPieces
<1> HIDE DEF us
<1>3. \A i \in 1..(m + 1) : Reads(Parenthesised(models[i]), Item(w + 2), us[i])
  BY <1>1, <1>2, ReadsModel DEF AreModels
<1>4. AreSeparated(full, us, m + 1, Item(w + 2), ",", last)
  BY <1>1, <1>3 DEF AreSeparated
<1>5. full \in Seq(Seq(Token)) /\ Len(full) = m + 1
  <2>1. ASSUME NEW i \in 1..(m + 1) PROVE full[i] \in Seq(Token)
    <3>1. Parenthesised(models[i]) \in Seq(Token) /\ last \in Seq(Token)
      BY <1>3 DEF Reads
    <3>2. <<Word(",")>> \in Seq(Token)
      BY SomeWords, TokenType, Pair
    <3> DEFINE a == Parenthesised(models[i])
               b == IF i = Len(models) THEN last ELSE <<Word(",")>>
    <3>3. a \in Seq(Token) /\ b \in Seq(Token) /\ full[i] = a \o b
      BY <1>1, <3>1, <3>2
    <3> HIDE DEF a, b
    <3> QED BY <3>3, Cat
  <2>2. m + 1 \in Nat
    BY <1>1 DEF AreModels
  <2> QED BY <1>1, <2>1, <2>2, MakeSeq
<1>6. Reads(FlattenSeq(full), Separated(m + 1, Item(w + 2), ",") \o end, FlattenSeq(us))
  BY <1>2, <1>4, <1>5, SomeWords, ReadsSeparated
<1>7. Separated(m + 1, Item(w + 2), ",") = Tuples(Len(models), w + 2)
  BY <1>1 DEF Tuples, List, Item
<1> QED BY <1>6, <1>7 DEF us, AllFields

\* insertModelSql reads as an INSERT of one row for each model, the values in the models' order.
LEMMA ReadsInsert ==
  ASSUME NEW models, NEW w \in Nat, AreModels(models, w)
  PROVE  Reads(InsertModelSql(models),
               <<"INSERT">> \o Tuples(Len(models), w + 2) \o <<";">>, AllFields(models))
<1> DEFINE n    == Len(models)
           full == [m \in 1..n |-> Parenthesised(models[m]) \o <<Word(IF m = n THEN ";" ELSE ",")>>]
           insert == <<Word("INSERT")>>
           tuples == Tuples(n, w + 2)
           end    == <<";">>
           all    == AllFields(models)
<1>1. \A i \in 1..n : full[i] = Parenthesised(models[i]) \o (IF i = n THEN <<Word(";")>> ELSE <<Word(",")>>)
  OBVIOUS
<1>0. n \in Nat
  BY DEF AreModels
<1>2. IsListed(full, n) /\ Len(full) = n
  <2>1. IsListed(full, n)
    BY DEF IsListed
  <2> HIDE DEF full
  <2> QED BY <1>0, <2>1, LenListed
<1>3. InsertModelSql(models) = insert \o FlattenSeq(full)
  BY DEF InsertModelSql, Concat
<1>4. Reads(<<Word(";")>>, end, <<>>) /\ Reads(insert, <<"INSERT">>, <<>>)
  BY ReadsWord, SomeWords
<1> HIDE DEF full, insert, end
<1>5. Reads(FlattenSeq(full), tuples \o end, all)
  BY <1>0, <1>1, <1>2, <1>4, ReadsModels
<1>6. tuples \in Seq(Words) /\ end \in Seq(Words) /\ <<"INSERT">> \in Seq(Words) /\ all \in Seq(Content)
  <2>1. PICK m \in Nat : n = m + 1
    BY OneMore DEF AreModels
  <2>2. w + 2 \in Nat \ {0}
    OBVIOUS
  <2>3. tuples = Separated(m + 1, Item(w + 2), ",")
    BY <2>1 DEF Tuples, List, Item
  <2> QED BY <1>4, <1>5, <2>2, <2>3, SomeWords, ItemType, SeparatedType DEF Reads
<1> HIDE DEF tuples, all
<1>7. Reads(insert \o FlattenSeq(full), <<"INSERT">> \o (tuples \o end), <<>> \o all)
  BY <1>4, <1>5, ReadsCat
<1>8. <<"INSERT">> \o (tuples \o end) = (<<"INSERT">> \o tuples) \o end
  BY <1>6, CatCat
<1>9. <<>> \o all = all
  BY <1>6, CatEmpty
<1> QED BY <1>3, <1>7, <1>8, <1>9 DEF tuples, end, all

\* Two pieces flattened are their concatenation.
LEMMA FlattenTwo ==
  ASSUME NEW T, NEW ps \in Seq(Seq(T)), Len(ps) = 2
  PROVE  FlattenSeq(ps) = ps[1] \o ps[2]
<1>1. 1 \in Nat /\ Len(ps) = 1 + 1
  OBVIOUS
<1>2. /\ First(1, ps) \in Seq(Seq(T)) /\ Len(First(1, ps)) = 1 /\ First(1, ps)[1] = ps[1]
      /\ FlattenSeq(ps) = FlattenSeq(First(1, ps)) \o ps[2]
  <2>1. /\ Len(First(1, ps)) = 1 /\ \A i \in 1..1 : First(1, ps)[i] = ps[i]
        /\ First(1, ps) \in Seq(Seq(T))
        /\ FlattenSeq(ps) = FlattenSeq(First(1, ps)) \o ps[1 + 1]
    BY <1>1, FlattenPieces
  <2>2. 1 \in 1..1 /\ 1 + 1 = 2
    OBVIOUS
  <2> QED BY <2>1, <2>2
<1> QED BY <1>2, FlattenOne

\* The first pieces, and the rest.
LEMMA FlattenSplit ==
  ASSUME NEW T, NEW m \in Nat, NEW n \in Nat, NEW ps \in Seq(Seq(T)), Len(ps) = m + n
  PROVE  \E r \in Seq(T) : FlattenSeq(ps) = FlattenSeq(First(m, ps)) \o r
<1> DEFINE Has(qs) == \E r \in Seq(T) : FlattenSeq(qs) = FlattenSeq(First(m, qs)) \o r
           S == {k \in Nat : \A qs \in Seq(Seq(T)) : Len(qs) = m + k => Has(qs)}
<1>1. 0 \in S
  <2>1. ASSUME NEW qs \in Seq(Seq(T)), Len(qs) = m + 0 PROVE Has(qs)
    <3>1. First(m, qs) = qs
      BY <2>1 DEF First
    <3>2. FlattenSeq(qs) = FlattenSeq(First(m, qs)) \o <<>>
      BY <3>1, FlattenType, CatEmpty
    <3>3. <<>> \in Seq(T)
      OBVIOUS
    <3> QED BY <3>2, <3>3
  <2> HIDE DEF Has
  <2> QED BY <2>1
<1>2. ASSUME NEW k \in Nat, k \in S PROVE k + 1 \in S
  <2>1. ASSUME NEW qs \in Seq(Seq(T)), Len(qs) = m + (k + 1) PROVE Has(qs)
    <3> DEFINE l == m + k
               q == First(l, qs)
               x == qs[l + 1]
    <3>1. l \in Nat /\ Len(qs) = l + 1
      BY <2>1
    <3>2. /\ q \in Seq(Seq(T)) /\ Len(q) = m + k
          /\ \A i \in 1..l : q[i] = qs[i]
          /\ x \in Seq(T) /\ FlattenSeq(qs) = FlattenSeq(q) \o x
      <4> HIDE DEF l
      <4>1. /\ q \in Seq(Seq(T)) /\ Len(q) = l
            /\ \A i \in 1..l : q[i] = qs[i]
            /\ x \in Seq(T) /\ FlattenSeq(qs) = FlattenSeq(q) \o x
        BY <3>1, FlattenPieces
      <4> QED BY <4>1 DEF l
    <3>3. First(m, q) = First(m, qs)
      <4>1. \A i \in 1..m : q[i] = qs[i]
        BY <3>2
      <4> HIDE DEF q
      <4> QED BY <4>1 DEF First
    <3> HIDE DEF q, x
    <3>4. PICK r \in Seq(T) : FlattenSeq(q) = FlattenSeq(First(m, q)) \o r
      BY <1>2, <3>2
    <3> DEFINE f == FlattenSeq(First(m, q))
    <3>5. f \in Seq(T)
      <4>1. \A i \in 1..m : q[i] \in Seq(T)
        BY <3>2
      <4>2. IsListed(First(m, q), m) /\ \A i \in 1..m : First(m, q)[i] = q[i]
        BY DEF First, IsListed
      <4>3. First(m, q) \in Seq(Seq(T))
        BY <4>1, <4>2, MakeSeq
      <4> QED BY <4>3, FlattenType
    <3>6. FlattenSeq(q) = f \o r
      BY <3>4
    <3> HIDE DEF f
    <3>7. (f \o r) \o x = f \o (r \o x) /\ r \o x \in Seq(T)
      <4>1. r \o x \in Seq(T)
        BY <3>2, Cat
      <4>2. \A a, b, c \in Seq(T) : (a \o b) \o c = a \o (b \o c)
        BY CatCat
      <4> QED BY <3>2, <3>5, <4>1, <4>2
    <3>8. FlattenSeq(qs) = FlattenSeq(First(m, qs)) \o (r \o x)
      BY <3>2, <3>3, <3>6, <3>7 DEF f
    <3> QED BY <3>7, <3>8
  <2> HIDE DEF Has
  <2> QED BY <2>1
<1> HIDE DEF S, Has
<1>3. n \in S
  BY <1>1, <1>2, NatSet
<1>4. Has(ps)
  BY <1>3 DEF S
<1> QED BY <1>4 DEF Has

\* Whatever reads as something is typed.
LEMMA ReadsType ==
  ASSUME NEW text, NEW shape, NEW values, Reads(text, shape, values)
  PROVE  text \in Seq(Token) /\ shape \in Seq(Words) /\ values \in Seq(Content)
  BY DEF Reads

\* Two words read as themselves.
LEMMA ReadsTwoWords ==
  ASSUME NEW a \in Words \ {"value"}, NEW b \in Words \ {"value"}
  PROVE  Reads(<<Word(a), Word(b)>>, <<a, b>>, <<>>)
<1>1. Reads(<<Word(a)>> \o <<Word(b)>>, <<a>> \o <<b>>, <<>> \o <<>>)
  BY ReadsWord, ReadsCat
<1>2. <<Word(a), Word(b)>> = <<Word(a)>> \o <<Word(b)>> /\ <<a, b>> = <<a>> \o <<b>>
  BY Pair
<1>3. <<>> \o <<>> = <<>>
  OBVIOUS
<1> QED BY <1>1, <1>2, <1>3

\* A word and a value.
LEMMA ReadsWordValue ==
  ASSUME NEW a \in Words \ {"value"}, NEW v \in Content
  PROVE  Reads(<<Word(a), Value(v)>>, <<a, "value">>, <<v>>)
<1>1. Reads(<<Word(a)>> \o <<Value(v)>>, <<a>> \o <<"value">>, <<>> \o <<v>>)
  BY ReadsWord, ReadsValue, ReadsCat
<1>2. <<Word(a), Value(v)>> = <<Word(a)>> \o <<Value(v)>> /\ <<a, "value">> = <<a>> \o <<"value">>
  <2>1. Word(a) \in Token /\ Value(v) \in Token
    BY TokenType
  <2> QED BY <2>1, Pair, SomeWords
<1>3. <<>> \o <<v>> = <<v>>
  OBVIOUS
<1> QED BY <1>1, <1>2, <1>3

\* One token more.
LEMMA ThreeIsTwo ==
  ASSUME NEW T, NEW a \in T, NEW b \in T, NEW c \in T
  PROVE  <<a, b, c>> = <<a, b>> \o <<c>>
<1> DEFINE l == <<a, b, c>>
           r == <<a, b>> \o <<c>>
<1>1. l \in Seq(T) /\ Len(l) = 3
  OBVIOUS
<1>2. r \in Seq(T) /\ Len(r) = 3
  OBVIOUS
<1>3. \A i \in 1..3 : l[i] = r[i]
  OBVIOUS
<1> HIDE DEF l, r
<1>4. l = r
  BY <1>1, <1>2, <1>3, SeqEqual
<1> QED BY <1>4 DEF l, r

\* The same for words.
LEMMA WordsThree == \A a, b, c \in Words : <<a, b, c>> = <<a, b>> \o <<c>>
  BY ThreeIsTwo

\* For tokens.
LEMMA TokensThree == \A a, b, c \in Token : <<a, b, c>> = <<a, b>> \o <<c>>
  BY ThreeIsTwo

\* The two columns that are no key.
LEMMA ColumnsAre ==
  Len(Columns) = 2 /\ DOMAIN Columns = 1..2 /\ Columns[1] = "create_time" /\ Columns[2] = "update_time"
  BY DEF Columns

\* What INSERT ... ON DUPLICATE KEY UPDATE says after its rows.
Renewal == <<"ON DUPLICATE KEY UPDATE", "create_time", "VALUES", ",", "update_time", "VALUES", ";">>

\* The tail of an insertOrUpdate, spelt out.
LEMMA RenewalIs ==
  Renewal = (<<"ON DUPLICATE KEY UPDATE">>
               \o ((<<"create_time", "VALUES">> \o <<",">>) \o (<<"update_time", "VALUES">> \o <<>>)))
            \o <<";">>
<1> DEFINE a == "ON DUPLICATE KEY UPDATE"
           b == "create_time"
           c == "VALUES"
           d == ","
           e == "update_time"
           g == ";"
           r == (<<a>> \o ((<<b, c>> \o <<d>>) \o (<<e, c>> \o <<>>))) \o <<g>>
           l == <<a, b, c, d, e, c, g>>
<1>0. a \in Words /\ b \in Words /\ c \in Words /\ d \in Words /\ e \in Words /\ g \in Words
  BY DEF Words
<1> HIDE DEF a, b, c, d, e, g
<1>1. r \in Seq(Words) /\ Len(r) = 7
  BY <1>0
<1>2. l \in Seq(Words) /\ Len(l) = 7
  BY <1>0
<1>3. \A i \in 1..7 : r[i] = l[i]
  BY <1>0
<1> HIDE DEF l, r
<1>4. l = r
  BY <1>1, <1>2, <1>3, SeqEqual
<1> QED BY <1>4 DEF l, r, a, b, c, d, e, g, Renewal

\* The generated tail reads as Renewal.
LEMMA ReadsRenewal ==
  LET listed == Listed([c \in DOMAIN Columns |-> <<Word(Columns[c]), Word("VALUES")>>]) IN
  \E shape : /\ Reads(listed, shape, <<>>)
             /\ Renewal = (<<"ON DUPLICATE KEY UPDATE">> \o shape) \o <<";">>
<1> DEFINE pieces == [c \in DOMAIN Columns |-> <<Word(Columns[c]), Word("VALUES")>>]
           full == [i \in 1..2 |-> pieces[i] \o (IF i = 2 THEN <<>> ELSE <<Word(",")>>)]
           p == <<Word("create_time"), Word("VALUES")>>
           q == <<Word("update_time"), Word("VALUES")>>
           comma == <<Word(",")>>
           shape == (<<"create_time", "VALUES">> \o <<",">>) \o (<<"update_time", "VALUES">> \o <<>>)
<1>1. pieces[1] = p /\ pieces[2] = q /\ Len(pieces) = 2
  BY ColumnsAre
<1>2. Listed(pieces) = FlattenSeq(full)
  <2> HIDE DEF pieces
  <2>1. Listed(pieces) =
          FlattenSeq([i \in 1..Len(pieces) |->
            pieces[i] \o (IF i = Len(pieces) THEN <<>> ELSE <<Word(",")>>)])
    BY DEF Listed, Concat
  <2> QED BY <1>1, <2>1
<1>3. full[1] = p \o comma /\ full[2] = q \o <<>> /\ IsListed(full, 2)
  <2>1. IsListed(full, 2)
    BY DEF IsListed
  <2>2. full[1] = pieces[1] \o comma /\ full[2] = pieces[2] \o <<>>
    <3> HIDE DEF pieces, comma
    <3>1. \A i \in 1..2 : full[i] = pieces[i] \o (IF i = 2 THEN <<>> ELSE <<Word(",")>>)
      OBVIOUS
    <3>2. 1 \in 1..2 /\ 2 \in 1..2 /\ 1 # 2
      OBVIOUS
    <3> HIDE DEF full
    <3>3. full[1] = pieces[1] \o <<Word(",")>>
      BY <3>1, <3>2
    <3>4. full[2] = pieces[2] \o <<>>
      BY <3>1, <3>2
    <3> QED BY <3>3, <3>4 DEF comma
  <2> HIDE DEF p, q, pieces, full, comma
  <2> QED BY <1>1, <2>1, <2>2
<1>4. Reads(p, <<"create_time", "VALUES">>, <<>>) /\ Reads(q, <<"update_time", "VALUES">>, <<>>)
  BY ReadsTwoWords DEF Words
<1>5. Reads(comma, <<",">>, <<>>)
  BY SomeWords, ReadsWord
<1> HIDE DEF full, p, q, comma
<1>6. /\ Reads(full[1], <<"create_time", "VALUES">> \o <<",">>, <<>> \o <<>>)
      /\ Reads(full[2], <<"update_time", "VALUES">> \o <<>>, <<>> \o <<>>)
  BY <1>3, <1>4, <1>5, ReadsNothing, ReadsCat
<1>7. full \in Seq(Seq(Token)) /\ Len(full) = 2
  <2>1. full[1] \in Seq(Token) /\ full[2] \in Seq(Token)
    BY <1>6, ReadsType
  <2>2. 2 \in Nat /\ \A i \in 1..2 : i = 1 \/ i = 2
    OBVIOUS
  <2>3. \A i \in 1..2 : full[i] \in Seq(Token)
    BY <2>1, <2>2
  <2> QED BY <1>3, <2>2, <2>3, MakeSeq
<1>8. FlattenSeq(full) = full[1] \o full[2]
  BY <1>7, FlattenTwo
<1>9. Reads(FlattenSeq(full), shape, (<<>> \o <<>>) \o (<<>> \o <<>>))
  BY <1>6, <1>8, ReadsCat
<1>10. (<<>> \o <<>>) \o (<<>> \o <<>>) = <<>>
  OBVIOUS
<1>11. Renewal = (<<"ON DUPLICATE KEY UPDATE">> \o shape) \o <<";">>
  BY RenewalIs
<1> HIDE DEF shape, pieces
<1>12. Reads(Listed(pieces), shape, <<>>)
  BY <1>2, <1>9, <1>10
<1> QED BY <1>11, <1>12 DEF pieces

\* A list of rows is a shape.
LEMMA TuplesType ==
  ASSUME NEW n \in Nat \ {0}, NEW w \in Nat \ {0}
  PROVE  Tuples(n, w) \in Seq(Words)
<1>1. PICK m \in Nat : n = m + 1
  BY OneMore
<1>2. Tuples(n, w) = Separated(m + 1, Item(w), ",")
  BY <1>1 DEF Tuples, List, Item
<1> QED BY <1>2, SomeWords, ItemType, SeparatedType

\* insertOrUpdateModelSql reads as the INSERT with that tail.
LEMMA ReadsInsertOrUpdate ==
  ASSUME NEW models, NEW w \in Nat, AreModels(models, w)
  PROVE  Reads(InsertOrUpdateModelSql(models),
               <<"INSERT">> \o Tuples(Len(models), w + 2) \o Renewal, AllFields(models))
<1> DEFINE n    == Len(models)
           pieces == [m \in DOMAIN models |-> Parenthesised(models[m])]
           full == [i \in 1..n |-> pieces[i] \o (IF i = n THEN <<>> ELSE <<Word(",")>>)]
           listed == Listed([c \in DOMAIN Columns |-> <<Word(Columns[c]), Word("VALUES")>>])
           insert == <<Word("INSERT")>>
           on     == <<Word("ON DUPLICATE KEY UPDATE")>>
           semi   == <<Word(";")>>
           tuples == Tuples(n, w + 2)
           all    == AllFields(models)
<1>1. n \in Nat \ {0} /\ DOMAIN models = 1..n
  BY DEF AreModels
<1>2. IsListed(pieces, n) /\ Len(pieces) = n /\ \A i \in 1..n : pieces[i] = Parenthesised(models[i])
  <2>1. IsListed(pieces, n)
    BY <1>1 DEF IsListed
  <2>2. \A i \in 1..n : pieces[i] = Parenthesised(models[i])
    BY <1>1
  <2> HIDE DEF pieces, n
  <2> QED BY <1>1, <2>1, <2>2, LenListed
<1>3. Listed(pieces) = FlattenSeq(full)
  <2> HIDE DEF pieces, n
  <2>1. Listed(pieces) =
          FlattenSeq([i \in 1..Len(pieces) |->
            pieces[i] \o (IF i = Len(pieces) THEN <<>> ELSE <<Word(",")>>)])
    BY DEF Listed, Concat
  <2> QED BY <1>2, <2>1
<1>4. IsListed(full, n) /\ Len(full) = n
  <2> HIDE DEF pieces, n
  <2>1. IsListed(full, n)
    BY DEF IsListed
  <2> HIDE DEF full
  <2> QED BY <1>1, <2>1, LenListed
<1>5. \A i \in 1..n : full[i] = Parenthesised(models[i]) \o (IF i = n THEN <<>> ELSE <<Word(",")>>)
  <2>1. \A i \in 1..n : full[i] = pieces[i] \o (IF i = n THEN <<>> ELSE <<Word(",")>>)
    OBVIOUS
  <2> HIDE DEF pieces, full, n
  <2> QED BY <1>2, <2>1
<1>6. InsertOrUpdateModelSql(models) = (((insert \o Listed(pieces)) \o on) \o listed) \o semi
  BY DEF InsertOrUpdateModelSql
<1>7. PICK shape : /\ Reads(listed, shape, <<>>)
                   /\ Renewal = (<<"ON DUPLICATE KEY UPDATE">> \o shape) \o <<";">>
  BY ReadsRenewal
<1>8. /\ Reads(insert, <<"INSERT">>, <<>>) /\ Reads(on, <<"ON DUPLICATE KEY UPDATE">>, <<>>)
      /\ Reads(semi, <<";">>, <<>>)
  <2>1. "ON DUPLICATE KEY UPDATE" \in Words /\ "ON DUPLICATE KEY UPDATE" # "value"
    BY DEF Words
  <2> QED BY <2>1, ReadsWord, SomeWords
<1> HIDE DEF pieces, full, listed, insert, on, semi, n
<1>9. Reads(FlattenSeq(full), tuples \o <<>>, all)
  BY <1>4, <1>5, ReadsNothing, ReadsModels DEF n
<1>10. tuples \in Seq(Words)
  BY <1>1, TuplesType
<1>11. all \in Seq(Content)
  BY <1>9, ReadsType
<1> HIDE DEF tuples, all
<1>12. tuples \o <<>> = tuples
  BY <1>10, CatEmpty
<1> DEFINE a == <<"INSERT">>
           b == <<"ON DUPLICATE KEY UPDATE">>
           c == <<";">>
           e == <<>>
<1>13. a \in Seq(Words) /\ b \in Seq(Words) /\ c \in Seq(Words) /\ shape \in Seq(Words)
  BY <1>7, <1>8, ReadsType
<1>14. (((e \o all) \o e) \o e) \o e = all
  BY <1>11, CatEmpty
<1> HIDE DEF a, b, c, e
<1>15. Reads(insert, a, e) /\ Reads(on, b, e) /\ Reads(semi, c, e) /\ Reads(listed, shape, e)
  BY <1>7, <1>8 DEF a, b, c, e
<1>16. Reads(Listed(pieces), tuples, all)
  BY <1>3, <1>9, <1>12
<1>17. Reads((insert \o Listed(pieces)) \o on, (a \o tuples) \o b, (e \o all) \o e)
  BY <1>15, <1>16, ReadsCat
<1>18. Reads((((insert \o Listed(pieces)) \o on) \o listed) \o semi,
             (((a \o tuples) \o b) \o shape) \o c, (((e \o all) \o e) \o e) \o e)
  BY <1>15, <1>17, ReadsCat
<1>19. (((a \o tuples) \o b) \o shape) \o c = (a \o tuples) \o ((b \o shape) \o c)
  <2> DEFINE x == a \o tuples
  <2>1. x \in Seq(Words)
    BY <1>10, <1>13, Cat
  <2> HIDE DEF x
  <2>2. (x \o b) \o shape = x \o (b \o shape) /\ b \o shape \in Seq(Words)
    BY <1>13, <2>1, CatCat, Cat
  <2> DEFINE y == b \o shape
  <2>3. y \in Seq(Words) /\ (x \o b) \o shape = x \o y
    BY <2>2
  <2> HIDE DEF y
  <2>4. (x \o y) \o c = x \o (y \o c)
    BY <1>13, <2>1, <2>3, WordsCat
  <2>5. ((x \o b) \o shape) \o c = x \o (y \o c)
    BY <2>3, <2>4
  <2> QED BY <2>5 DEF x, y
<1>20. Renewal = (b \o shape) \o c
  BY <1>7 DEF b, c
<1> QED BY <1>6, <1>14, <1>18, <1>19, <1>20 DEF a, tuples, all, n

\* Four elements are three and one.
LEMMA FourIsThree ==
  ASSUME NEW T, NEW a \in T, NEW b \in T, NEW c \in T, NEW d \in T
  PROVE  <<a, b, c, d>> = <<a, b, c>> \o <<d>>
<1> DEFINE l == <<a, b, c, d>>
           r == <<a, b, c>> \o <<d>>
<1>1. l \in Seq(T) /\ Len(l) = 4
  OBVIOUS
<1>2. r \in Seq(T) /\ Len(r) = 4
  OBVIOUS
<1>3. \A i \in 1..4 : l[i] = r[i]
  OBVIOUS
<1> HIDE DEF l, r
<1>4. l = r
  BY <1>1, <1>2, <1>3, SeqEqual
<1> QED BY <1>4 DEF l, r

\* The same for tokens.
LEMMA TokensFour == \A a, b, c, d \in Token : <<a, b, c, d>> = <<a, b, c>> \o <<d>>
  BY FourIsThree

\* WHERE key = value AND key = value ;
LEMMA ReadsWhere ==
  ASSUME NEW k \in Key
  PROVE  Reads(Concat(Len(k), LAMBDA i :
                 <<Word("key ="), Value(k[i]), Word(IF i = Len(k) THEN ";" ELSE "AND")>>),
               Separated(Len(k), <<"key =", "value">>, "AND") \o <<";">>, k)
<1>1. k \in Seq(Content) /\ Len(k) \in Nat \ {0}
  BY KeyType
<1>2. PICK m \in Nat : Len(k) = m + 1
  BY <1>1, OneMore
<1> DEFINE full == [i \in 1..Len(k) |->
                      <<Word("key ="), Value(k[i]), Word(IF i = Len(k) THEN ";" ELSE "AND")>>]
           us   == [i \in 1..Len(k) |-> <<k[i]>>]
           last == <<Word(";")>>
           item == <<"key =", "value">>
<1>3. us \in Seq(Seq(Content)) /\ Len(us) = m + 1 /\ FlattenSeq(us) = k
  BY <1>1, <1>2, FlattenSingles
<1>4. /\ "key =" \in Words \ {"value"} /\ "AND" \in Words \ {"value"} /\ ";" \in Words \ {"value"}
  BY DEF Words
<1>5. Reads(last, <<";">>, <<>>)
  BY <1>4, ReadsWord
<1>6. ASSUME NEW i \in 1..(m + 1)
      PROVE  /\ Reads(<<Word("key ="), Value(k[i])>>, item, us[i])
             /\ full[i] = <<Word("key ="), Value(k[i])>>
                            \o (IF i = m + 1 THEN last ELSE <<Word("AND")>>)
             /\ full[i] \in Seq(Token)
  <2>1. i \in 1..Len(k) /\ k[i] \in Content
    BY <1>1, <1>2, ElementOfSeq
  <2>2. us[i] = <<k[i]>>
    BY <2>1
  <2>3. full[i] = <<Word("key ="), Value(k[i]), Word(IF i = Len(k) THEN ";" ELSE "AND")>>
    BY <2>1
  <2> HIDE DEF us, full, last, item
  <2>4. Reads(<<Word("key ="), Value(k[i])>>, item, us[i])
    BY <1>4, <2>1, <2>2, ReadsWordValue DEF item
  <2> DEFINE a == Word("key =")
             b == Value(k[i])
             c == Word(IF i = Len(k) THEN ";" ELSE "AND")
  <2>5. a \in Token /\ b \in Token /\ c \in Token
    BY <1>4, <2>1, TokenType
  <2>6. <<c>> = IF i = m + 1 THEN last ELSE <<Word("AND")>>
    BY <1>2 DEF last
  <2>7. <<a, b>> \in Seq(Token)
    BY <2>5, Pair
  <2>8. full[i] = <<a, b, c>>
    BY <2>3
  <2> HIDE DEF a, b, c
  <2>9. full[i] = <<a, b>> \o <<c>> /\ full[i] \in Seq(Token)
    BY <2>5, <2>8, ThreeIsTwo
  <2> QED BY <2>4, <2>6, <2>9 DEF a, b
<1>7. full \in Seq(Seq(Token)) /\ Len(full) = m + 1
  <2>1. IsListed(full, m + 1)
    BY <1>2 DEF IsListed
  <2>2. m + 1 \in Nat
    OBVIOUS
  <2> HIDE DEF full
  <2> QED BY <1>6, <2>1, <2>2, MakeSeq
<1> HIDE DEF full, us, last, item
<1>8. AreSeparated(full, us, m + 1, item, "AND", last)
  BY <1>6 DEF AreSeparated
<1>9. Reads(FlattenSeq(full), Separated(m + 1, item, "AND") \o <<";">>, FlattenSeq(us))
  BY <1>3, <1>4, <1>5, <1>7, <1>8, ReadsSeparated
<1> QED BY <1>2, <1>3, <1>9 DEF full, item, Concat

\* One assignment, with and without the comma after it.
LEMMA ReadsAssignment ==
  ASSUME NEW a \in Words \ {"value"}, NEW v \in Content
  PROVE  /\ Reads(<<Word(a), Word("="), Value(v)>>, <<a, "=", "value">>, <<v>>)
         /\ <<Word(a), Word("="), Value(v), Word(",")>>
              = <<Word(a), Word("="), Value(v)>> \o <<Word(",")>>
         /\ <<a, "=", "value", ",">> = <<a, "=", "value">> \o <<",">>
<1>1. "=" \in Words \ {"value"} /\ "value" \in Words /\ "," \in Words
  BY DEF Words
<1>2. Word(a) \in Token /\ Word("=") \in Token /\ Value(v) \in Token /\ Word(",") \in Token
  BY <1>1, TokenType
<1>3. <<Word(a), Word("="), Value(v)>> = <<Word(a), Word("=")>> \o <<Value(v)>>
  BY <1>2, ThreeIsTwo
<1>4. <<a, "=", "value">> = <<a, "=">> \o <<"value">>
  BY <1>1, ThreeIsTwo
<1>5. Reads(<<Word(a), Word("=")>> \o <<Value(v)>>, <<a, "=">> \o <<"value">>, <<>> \o <<v>>)
  BY <1>1, ReadsTwoWords, ReadsValue, ReadsCat
<1>6. <<>> \o <<v>> = <<v>>
  OBVIOUS
<1>7. <<Word(a), Word("="), Value(v), Word(",")>>
        = <<Word(a), Word("="), Value(v)>> \o <<Word(",")>>
  <2> DEFINE p == Word(a)
             q == Word("=")
             r == Value(v)
             u == Word(",")
  <2>1. p \in Token /\ q \in Token /\ r \in Token /\ u \in Token
    BY <1>2
  <2> HIDE DEF p, q, r, u
  <2>2. <<p, q, r, u>> = <<p, q, r>> \o <<u>>
    BY <2>1, TokensFour
  <2> QED BY <2>2 DEF p, q, r, u
<1>8. <<a, "=", "value", ",">> = <<a, "=", "value">> \o <<",">>
  <2> DEFINE b == "="
             c == "value"
             d == ","
  <2>1. a \in Words /\ b \in Words /\ c \in Words /\ d \in Words
    BY <1>1
  <2> HIDE DEF b, c, d
  <2>2. <<a, b, c, d>> = <<a, b, c>> \o <<d>>
    BY <2>1, FourIsThree
  <2> QED BY <2>2 DEF b, c, d
<1> QED BY <1>3, <1>4, <1>5, <1>6, <1>7, <1>8

\* The assignments SingleShape has for the columns.
AssignShape(columns) ==
  Front(Concat(Len(columns), LAMBDA c : <<columns[c], "=", "value", ",">>))

\* Both columns assigned.
LEMMA ReadsBoth ==
  ASSUME NEW model, IsModel(model)
  PROVE  /\ Reads(Assignments(model, {}), AssignShape(Columns), ColumnValues(model))
         /\ AssignShape(Columns)
              = (<<"create_time", "=", "value">> \o <<",">>) \o <<"update_time", "=", "value">>
<1> DEFINE full == [c \in 1..Len(Columns) |->
                      IF Columns[c] \in {} THEN <<>>
                      ELSE <<Word(Columns[c]), Word("="), Value(ColumnValues(model)[c]), Word(",")>>]
           words == [c \in 1..Len(Columns) |-> <<Columns[c], "=", "value", ",">>]
           p == <<Word("create_time"), Word("="), Value(model.create)>>
           q == <<Word("update_time"), Word("="), Value(model.renewed)>>
           a == <<"create_time", "=", "value">>
           b == <<"update_time", "=", "value">>
           comma == <<Word(",")>>
           d == <<",">>
<1>1. /\ "create_time" \in Words \ {"value"} /\ "update_time" \in Words \ {"value"}
      /\ "," \in Words \ {"value"}
  BY DEF Words
<1>2. /\ ColumnValues(model) = <<model.create, model.renewed>>
      /\ model.create \in Content /\ model.renewed \in Content
  BY FieldsType
<1>3. /\ Reads(p, a, <<model.create>>) /\ Reads(q, b, <<model.renewed>>) /\ Reads(comma, d, <<>>)
      /\ <<Word("create_time"), Word("="), Value(model.create), Word(",")>> = p \o comma
      /\ <<Word("update_time"), Word("="), Value(model.renewed), Word(",")>> = q \o comma
      /\ <<"create_time", "=", "value", ",">> = a \o d
      /\ <<"update_time", "=", "value", ",">> = b \o d
  BY <1>1, <1>2, ReadsAssignment, ReadsWord
<1>4. full[1] = p \o comma /\ full[2] = q \o comma /\ IsListed(full, 2)
  <2> DEFINE P(c) == <<Word(Columns[c]), Word("="), Value(ColumnValues(model)[c]), Word(",")>>
  <2>1. IsListed(full, 2)
    BY ColumnsAre DEF IsListed
  <2>2. full[1] = P(1) /\ full[2] = P(2)
    <3> HIDE DEF P
    <3>1. full = [c \in 1..Len(Columns) |-> P(c)]
      BY DEF P
    <3> HIDE DEF full
    <3> QED BY <3>1, ColumnsAre
  <2>3. /\ P(1) = <<Word("create_time"), Word("="), Value(model.create), Word(",")>>
        /\ P(2) = <<Word("update_time"), Word("="), Value(model.renewed), Word(",")>>
    BY <1>2, ColumnsAre
  <2> HIDE DEF full, P, p, q, comma
  <2> QED BY <1>3, <2>1, <2>2, <2>3
<1>5. words[1] = a \o d /\ words[2] = b \o d /\ IsListed(words, 2)
  <2> DEFINE P(c) == <<Columns[c], "=", "value", ",">>
  <2>1. IsListed(words, 2)
    BY ColumnsAre DEF IsListed
  <2>2. words[1] = P(1) /\ words[2] = P(2)
    <3> HIDE DEF P
    <3>1. words = [c \in 1..Len(Columns) |-> P(c)]
      BY DEF P
    <3> HIDE DEF words
    <3> QED BY <3>1, ColumnsAre
  <2>3. P(1) = <<"create_time", "=", "value", ",">> /\ P(2) = <<"update_time", "=", "value", ",">>
    BY ColumnsAre
  <2> HIDE DEF words, P, a, b, d
  <2> QED BY <1>3, <2>1, <2>2, <2>3
<1>6. Concat(Len(Columns), LAMBDA c : <<Columns[c], "=", "value", ",">>) = FlattenSeq(words)
  BY DEF Concat
<1>7. AssignmentsAndComma(model, {}) = FlattenSeq(full)
  BY DEF AssignmentsAndComma, Concat
<1> HIDE DEF full, words, p, q, a, b, comma, d
<1>8. /\ p \in Seq(Token) /\ q \in Seq(Token) /\ comma \in Seq(Token)
      /\ a \in Seq(Words) /\ b \in Seq(Words) /\ d \in Seq(Words)
  BY <1>3, ReadsType
<1>9. full \in Seq(Seq(Token)) /\ Len(full) = 2 /\ words \in Seq(Seq(Words)) /\ Len(words) = 2
  <2>1. \A i \in 1..2 : i = 1 \/ i = 2
    OBVIOUS
  <2>2. full[1] \in Seq(Token) /\ full[2] \in Seq(Token) /\ words[1] \in Seq(Words) /\ words[2] \in Seq(Words)
    BY <1>4, <1>5, <1>8, Cat
  <2>3. \A i \in 1..2 : full[i] \in Seq(Token) /\ words[i] \in Seq(Words)
    BY <2>1, <2>2
  <2>4. 2 \in Nat
    OBVIOUS
  <2>5. full \in Seq(Seq(Token)) /\ Len(full) = 2
    BY <1>4, <2>3, <2>4, MakeSeq
  <2>6. words \in Seq(Seq(Words)) /\ Len(words) = 2
    <3>1. \A i \in 1..2 : words[i] \in Seq(Words)
      BY <2>3
    <3> DEFINE S == Seq(Words)
    <3>2. IsListed(words, 2) /\ \A i \in 1..2 : words[i] \in S
      BY <1>5, <3>1
    <3> HIDE DEF S
    <3>3. words \in Seq(S) /\ Len(words) = 2
      BY <2>4, <3>2, MakeSeq
    <3> QED BY <3>3 DEF S
  <2> QED BY <2>5, <2>6
<1>10. FlattenSeq(full) = ((p \o comma) \o q) \o comma
  <2> DEFINE x == p \o comma
  <2>1. x \in Seq(Token)
    BY <1>8, Cat
  <2>2. FlattenSeq(full) = x \o (q \o comma)
    BY <1>4, <1>9, FlattenTwo
  <2> HIDE DEF x
  <2>3. FlattenSeq(full) = (x \o q) \o comma
    BY <1>8, <2>1, <2>2, TokensCat
  <2> QED BY <2>3 DEF x
<1>11. FlattenSeq(words) = ((a \o d) \o b) \o d
  <2> DEFINE x == a \o d
  <2>1. x \in Seq(Words)
    BY <1>8, Cat
  <2>2. FlattenSeq(words) = x \o (b \o d)
    BY <1>5, <1>9, FlattenTwo
  <2> HIDE DEF x
  <2>3. FlattenSeq(words) = (x \o b) \o d
    BY <1>8, <2>1, <2>2, WordsCat
  <2> QED BY <2>3 DEF x
<1>12. Front(FlattenSeq(full)) = (p \o comma) \o q /\ FlattenSeq(full) # <<>>
  <2> DEFINE y == (p \o comma) \o q
  <2>1. y \in Seq(Token)
    BY <1>8, Cat
  <2>2. Word(",") \in Token
    BY <1>1, TokenType
  <2> HIDE DEF y
  <2>3. Front(y \o <<Word(",")>>) = y /\ y \o <<Word(",")>> # <<>>
    BY <2>1, <2>2, FrontCat
  <2> QED BY <1>10, <2>3 DEF y, comma
<1>13. Front(FlattenSeq(words)) = (a \o d) \o b
  <2> DEFINE y == (a \o d) \o b
  <2>1. y \in Seq(Words)
    BY <1>8, Cat
  <2> HIDE DEF y
  <2>3. Front(y \o <<",">>) = y
    BY <1>1, <2>1, FrontCat
  <2> QED BY <1>11, <2>3 DEF y, d
<1>14. Reads((p \o comma) \o q, (a \o d) \o b, (<<model.create>> \o <<>>) \o <<model.renewed>>)
  BY <1>3, ReadsCat
<1>15. (<<model.create>> \o <<>>) \o <<model.renewed>> = <<model.create, model.renewed>>
  <2>1. <<model.create>> \o <<>> = <<model.create>>
    BY <1>2
  <2>2. <<model.create>> \o <<model.renewed>> = <<model.create, model.renewed>>
    BY <1>2, Pair
  <2> QED BY <2>1, <2>2
<1>16. Assignments(model, {}) = (p \o comma) \o q
  BY <1>7, <1>12 DEF Assignments
<1>17. AssignShape(Columns) = (a \o d) \o b
  BY <1>6, <1>13 DEF AssignShape
<1> QED BY <1>2, <1>14, <1>15, <1>16, <1>17 DEF a, b, d

\* With create_time ignored, the other alone is assigned, and no comma is left behind.
LEMMA ReadsRenewed ==
  ASSUME NEW model, IsModel(model)
  PROVE  /\ Reads(Assignments(model, {"create_time"}), AssignShape(<<"update_time">>), <<model.renewed>>)
         /\ AssignShape(<<"update_time">>) = <<"update_time", "=", "value">>
<1> DEFINE columns == <<"update_time">>
           full == [c \in 1..Len(Columns) |->
                      IF Columns[c] \in {"create_time"} THEN <<>>
                      ELSE <<Word(Columns[c]), Word("="), Value(ColumnValues(model)[c]), Word(",")>>]
           words == [c \in 1..Len(columns) |-> <<columns[c], "=", "value", ",">>]
           q == <<Word("update_time"), Word("="), Value(model.renewed)>>
           b == <<"update_time", "=", "value">>
           comma == <<Word(",")>>
           d == <<",">>
<1>1. "update_time" \in Words \ {"value"} /\ "," \in Words \ {"value"}
  BY DEF Words
<1>2. ColumnValues(model) = <<model.create, model.renewed>> /\ model.renewed \in Content
  BY FieldsType
<1>3. /\ Reads(q, b, <<model.renewed>>) /\ Reads(comma, d, <<>>)
      /\ <<Word("update_time"), Word("="), Value(model.renewed), Word(",")>> = q \o comma
      /\ <<"update_time", "=", "value", ",">> = b \o d
  BY <1>1, <1>2, ReadsAssignment, ReadsWord
<1>4. full[1] = <<>> /\ full[2] = q \o comma /\ IsListed(full, 2)
  <2> DEFINE P(c) == <<Word(Columns[c]), Word("="), Value(ColumnValues(model)[c]), Word(",")>>
  <2>1. IsListed(full, 2)
    BY ColumnsAre DEF IsListed
  <2>2. full[1] = <<>> /\ full[2] = P(2)
    <3> HIDE DEF P
    <3>1. full = [c \in 1..Len(Columns) |-> IF Columns[c] = "create_time" THEN <<>> ELSE P(c)]
      BY DEF P
    <3>2. Columns[2] # "create_time"
      BY ColumnsAre
    <3> HIDE DEF full
    <3> QED BY <3>1, <3>2, ColumnsAre
  <2>3. P(2) = <<Word("update_time"), Word("="), Value(model.renewed), Word(",")>>
    BY <1>2, ColumnsAre
  <2> HIDE DEF full, P, q, comma
  <2> QED BY <1>3, <2>1, <2>2, <2>3
<1>5. Len(words) = 1 /\ words[1] = b \o d
  <2>1. Len(columns) = 1 /\ columns[1] = "update_time"
    OBVIOUS
  <2> HIDE DEF columns
  <2>2. words[1] = <<"update_time", "=", "value", ",">> /\ Len(words) = 1
    <3> DEFINE P(c) == <<columns[c], "=", "value", ",">>
    <3>1. words = [c \in 1..Len(columns) |-> P(c)]
      OBVIOUS
    <3>2. P(1) = <<"update_time", "=", "value", ",">>
      BY <2>1
    <3> HIDE DEF P, words
    <3>3. words[1] = P(1) /\ Len(words) = 1
      BY <2>1, <3>1
    <3> QED BY <3>2, <3>3
  <2> HIDE DEF words, b, d
  <2> QED BY <1>3, <2>2
<1>6. Concat(Len(columns), LAMBDA c : <<columns[c], "=", "value", ",">>) = FlattenSeq(words)
  BY DEF Concat
<1>7. AssignmentsAndComma(model, {"create_time"}) = FlattenSeq(full)
  BY DEF AssignmentsAndComma, Concat
<1>8. AssignShape(columns) = Front(FlattenSeq(words))
  BY <1>6 DEF AssignShape
<1> HIDE DEF full, words, q, b, comma, d, columns
<1>9. q \in Seq(Token) /\ comma \in Seq(Token) /\ b \in Seq(Words)
  BY <1>3, ReadsType
<1>10. full \in Seq(Seq(Token)) /\ Len(full) = 2
  <2>1. \A i \in 1..2 : i = 1 \/ i = 2
    OBVIOUS
  <2>2. <<>> \in Seq(Token) /\ 2 \in Nat
    OBVIOUS
  <2>3. full[1] \in Seq(Token) /\ full[2] \in Seq(Token)
    BY <1>4, <1>9, <2>2, Cat
  <2>4. \A i \in 1..2 : full[i] \in Seq(Token)
    BY <2>1, <2>3
  <2> QED BY <1>4, <2>2, <2>4, MakeSeq
<1>11. FlattenSeq(full) = q \o comma
  <2>1. FlattenSeq(full) = <<>> \o (q \o comma)
    BY <1>4, <1>10, FlattenTwo
  <2>2. q \o comma \in Seq(Token)
    BY <1>9, Cat
  <2> DEFINE x == q \o comma
  <2>3. x \in Seq(Token) /\ FlattenSeq(full) = <<>> \o x
    BY <2>1, <2>2
  <2> HIDE DEF x
  <2>4. FlattenSeq(full) = x
    BY <2>3, CatEmpty
  <2> QED BY <2>4 DEF x
<1>12. FlattenSeq(words) = b \o d
  BY <1>5, FlattenOne
<1>13. Front(q \o comma) = q /\ q \o comma # <<>>
  <2>1. Word(",") \in Token
    BY <1>1, TokenType
  <2>2. Front(q \o <<Word(",")>>) = q /\ q \o <<Word(",")>> # <<>>
    BY <1>9, <2>1, FrontCat
  <2> QED BY <2>2 DEF comma
<1>14. Front(b \o d) = b
  <2>1. Front(b \o <<",">>) = b
    BY <1>1, <1>9, FrontCat
  <2> QED BY <2>1 DEF d
<1>15. Assignments(model, {"create_time"}) = q
  BY <1>7, <1>11, <1>13 DEF Assignments
<1> QED BY <1>3, <1>8, <1>12, <1>14, <1>15 DEF b, columns

\* The shape SqlText has for an UPDATE of one row.
SingleWords(w, columns) ==
  <<"UPDATE">> \o AssignShape(columns) \o <<"WHERE">>
    \o Separated(w, <<"key =", "value">>, "AND") \o <<";">>

\* updateSingleModelSql reads as an UPDATE of one row: the assigned values, then the key.
LEMMA ReadsSingle ==
  ASSUME NEW model, IsModel(model), NEW ignoreColumn, NEW columns, NEW values,
         Reads(Assignments(model, ignoreColumn), AssignShape(columns), values)
  PROVE  Reads(UpdateSingleModelSql(model, ignoreColumn),
               SingleWords(Len(model.key), columns), values \o model.key)
<1> DEFINE k == model.key
           w == Len(k)
           update == <<Word("UPDATE")>>
           wher  == <<Word("WHERE")>>
           set    == Assignments(model, ignoreColumn)
           tests  == Concat(w, LAMBDA i : <<Word("key ="), Value(k[i]), Word(IF i = w THEN ";" ELSE "AND")>>)
           a == <<"UPDATE">>
           b == AssignShape(columns)
           c == <<"WHERE">>
           d == Separated(w, <<"key =", "value">>, "AND")
           e == <<";">>
           z == <<>>
<1>1. k \in Key
  BY DEF IsModel
<1>2. k \in Seq(Content) /\ w \in Nat \ {0}
  BY <1>1, KeyType
<1>3. Reads(update, a, z) /\ Reads(wher, c, z) /\ e \in Seq(Words)
  <2>1. "UPDATE" \in Words \ {"value"} /\ "WHERE" \in Words \ {"value"} /\ e \in Seq(Words)
    BY DEF Words
  <2> QED BY <2>1, ReadsWord
<1>4. Reads(tests, d \o e, k)
  BY <1>1, ReadsWhere
<1>5. d \in Seq(Words)
  <2>1. PICK m \in Nat : w = m + 1
    BY <1>2, OneMore
  <2>2. <<"key =", "value">> \in Seq(Words) /\ "AND" \in Words
    BY DEF Words
  <2> QED BY <2>1, <2>2, SeparatedType
<1>6. UpdateSingleModelSql(model, ignoreColumn) = ((update \o set) \o wher) \o tests
  BY DEF UpdateSingleModelSql
<1>7. SingleWords(w, columns) = (((a \o b) \o c) \o d) \o e
  BY DEF SingleWords
<1>8. Reads(set, b, values)
  OBVIOUS
<1> HIDE DEF k, w, update, wher, set, tests, a, b, c, d, e, z
<1>9. Reads(((update \o set) \o wher) \o tests, ((a \o b) \o c) \o (d \o e), ((z \o values) \o z) \o k)
  <2>1. Reads((update \o set) \o wher, (a \o b) \o c, (z \o values) \o z)
    BY <1>3, <1>8, ReadsCat
  <2> QED BY <1>4, <2>1, ReadsCat
<1>10. a \in Seq(Words) /\ b \in Seq(Words) /\ c \in Seq(Words) /\ values \in Seq(Content)
  BY <1>3, <1>8, ReadsType
<1>11. (z \o values) \o z = values
  BY <1>10, CatEmpty DEF z
<1>12. ((a \o b) \o c) \o (d \o e) = (((a \o b) \o c) \o d) \o e
  <2> DEFINE x == (a \o b) \o c
  <2>1. x \in Seq(Words)
    BY <1>10, Cat
  <2> HIDE DEF x
  <2>2. x \o (d \o e) = (x \o d) \o e
    BY <1>3, <1>5, <2>1, CatCat
  <2> QED BY <2>2 DEF x
<1> QED BY <1>6, <1>7, <1>9, <1>11, <1>12 DEF k, w

\* The values of a list of comparisons or of a tuple are those of the key.
LEMMA ReadsListed ==
  ASSUME NEW k \in Key, NEW piece, NEW item,
         IsListed(piece, Len(k)),
         \A i \in 1..Len(k) : Reads(piece[i], item, <<k[i]>>)
  PROVE  Reads(Listed(piece), List(Len(k), item), k)
<1>1. k \in Seq(Content) /\ Len(k) \in Nat \ {0}
  BY KeyType
<1>2. PICK m \in Nat : Len(k) = m + 1
  BY <1>1, OneMore
<1>3. Len(piece) = m + 1
  BY <1>1, <1>2, LenListed
<1> DEFINE full == [i \in 1..(m + 1) |-> piece[i] \o (IF i = m + 1 THEN <<>> ELSE <<Word(",")>>)]
           us   == [i \in 1..Len(k) |-> <<k[i]>>]
<1>4. us \in Seq(Seq(Content)) /\ Len(us) = m + 1 /\ FlattenSeq(us) = k
  BY <1>1, <1>2, FlattenSingles
<1>5. Listed(piece) = FlattenSeq(full)
  BY <1>3 DEF Listed, Concat
<1>6. \A i \in 1..(m + 1) : us[i] = <<k[i]>>
  BY <1>2
<1>7. \A i \in 1..(m + 1) : full[i] = piece[i] \o (IF i = m + 1 THEN <<>> ELSE <<Word(",")>>)
  OBVIOUS
<1>8. IsListed(full, m + 1)
  BY DEF IsListed
<1> HIDE DEF full, us
<1>9. AreSeparated(full, us, m + 1, item, ",", <<>>)
  BY <1>2, <1>6, <1>7 DEF AreSeparated
<1>10. full \in Seq(Seq(Token)) /\ Len(full) = m + 1
  <2>1. ASSUME NEW i \in 1..(m + 1) PROVE full[i] \in Seq(Token)
    <3>1. piece[i] \in Seq(Token)
      BY <1>2, ReadsType
    <3>2. <<Word(",")>> \in Seq(Token)
      BY SomeWords, TokenType, Pair
    <3> DEFINE a == piece[i]
               b == IF i = m + 1 THEN <<>> ELSE <<Word(",")>>
    <3>3. a \in Seq(Token) /\ b \in Seq(Token)
      <4>1. <<>> \in Seq(Token)
        OBVIOUS
      <4> DEFINE comma == <<Word(",")>>
      <4> HIDE DEF comma
      <4>2. comma \in Seq(Token)
        BY <3>2 DEF comma
      <4>3. b = IF i = m + 1 THEN <<>> ELSE comma
        BY DEF comma
      <4> HIDE DEF b
      <4> QED BY <3>1, <4>1, <4>2, <4>3
    <3>4. full[i] = a \o b
      BY <1>7
    <3> HIDE DEF a, b
    <3> QED BY <3>3, <3>4, Cat
  <2>2. m + 1 \in Nat
    OBVIOUS
  <2> QED BY <1>8, <2>1, <2>2, MakeSeq
<1>11. Reads(FlattenSeq(full), Separated(m + 1, item, ",") \o <<>>, FlattenSeq(us))
  BY <1>4, <1>9, <1>10, SomeWords, ReadsNothing, ReadsSeparated
<1>12. Separated(m + 1, item, ",") \o <<>> = Separated(m + 1, item, ",")
  <2>1. item \in Seq(Words)
    <3>1. 1 \in 1..Len(k)
      BY <1>1
    <3> QED BY <3>1, ReadsType
  <2> QED BY <2>1, SomeWords, SeparatedType, CatEmpty
<1> QED BY <1>2, <1>4, <1>5, <1>11, <1>12 DEF List

\* A key as a list of values.
LEMMA ReadsTuple ==
  ASSUME NEW k \in Key
  PROVE  Reads(Listed([i \in DOMAIN k |-> <<Value(k[i])>>]), List(Len(k), <<"value">>), k)
<1> DEFINE piece == [i \in DOMAIN k |-> <<Value(k[i])>>]
<1>1. k \in Seq(Content) /\ DOMAIN k = 1..Len(k)
  BY KeyType
<1>2. IsListed(piece, Len(k))
  BY <1>1 DEF IsListed
<1>3. ASSUME NEW i \in 1..Len(k) PROVE Reads(piece[i], <<"value">>, <<k[i]>>)
  <2>1. k[i] \in Content /\ piece[i] = <<Value(k[i])>>
    BY <1>1, ElementOfSeq
  <2> QED BY <2>1, ReadsValue
<1> HIDE DEF piece
<1>4. Reads(Listed(piece), List(Len(k), <<"value">>), k)
  BY <1>2, <1>3, ReadsListed
<1> QED BY <1>4 DEF piece

\* A key as a list of tests.
LEMMA ReadsTests ==
  ASSUME NEW k \in Key
  PROVE  Reads(Listed([i \in DOMAIN k |-> <<Word("key ="), Value(k[i])>>]),
               List(Len(k), <<"key =", "value">>), k)
<1> DEFINE piece == [i \in DOMAIN k |-> <<Word("key ="), Value(k[i])>>]
           item == <<"key =", "value">>
<1>1. k \in Seq(Content) /\ DOMAIN k = 1..Len(k)
  BY KeyType
<1>2. IsListed(piece, Len(k))
  BY <1>1 DEF IsListed
<1>3. ASSUME NEW i \in 1..Len(k) PROVE Reads(piece[i], item, <<k[i]>>)
  <2>1. k[i] \in Content /\ piece[i] = <<Word("key ="), Value(k[i])>>
    BY <1>1, ElementOfSeq
  <2>2. "key =" \in Words \ {"value"}
    BY DEF Words
  <2> QED BY <2>1, <2>2, ReadsWordValue
<1> HIDE DEF piece, item
<1>4. Reads(Listed(piece), List(Len(k), item), k)
  BY <1>2, <1>3, ReadsListed
<1> QED BY <1>4 DEF piece, item

\* One column of one model in an UPDATE of several.
SetWords(w, c) ==
  <<Columns[c], "= CASE", "WHEN (">> \o List(w, <<"key =", "value">>)
    \o <<") THEN", "value", "END">> \o (IF c = Len(Columns) THEN <<>> ELSE <<",">>)

\* The CASE that updateModelSql writes for one column of one model.
LEMMA ReadsSetCase ==
  ASSUME NEW model, IsModel(model), NEW c \in 1..2
  PROVE  Reads(SetCase(model, c), SetWords(Len(model.key), c),
               model.key \o <<ColumnValues(model)[c]>>)
<1> DEFINE k == model.key
           col == Columns[c]
           x  == ColumnValues(model)[c]
           s1 == <<Word(col), Word("= CASE"), Word("WHEN (")>>
           s2 == Listed([i \in DOMAIN k |-> <<Word("key ="), Value(k[i])>>])
           s3 == <<Word(") THEN"), Value(x), Word("END")>>
           s4 == IF c = Len(Columns) THEN <<>> ELSE <<Word(",")>>
           a1 == <<col, "= CASE", "WHEN (">>
           a2 == List(Len(k), <<"key =", "value">>)
           a3 == <<") THEN", "value", "END">>
           a4 == IF c = Len(Columns) THEN <<>> ELSE <<",">>
<1>1. k \in Key /\ k \in Seq(Content)
  BY KeyType DEF IsModel
<1>2. x \in Content
  <2>1. /\ ColumnValues(model) = <<model.create, model.renewed>>
        /\ model.create \in Content /\ model.renewed \in Content
    BY FieldsType
  <2> QED BY <2>1
<1>3. /\ col \in Words \ {"value"} /\ "= CASE" \in Words \ {"value"} /\ "WHEN (" \in Words \ {"value"}
      /\ ") THEN" \in Words \ {"value"} /\ "END" \in Words \ {"value"} /\ "," \in Words \ {"value"}
      /\ "value" \in Words
  <2>1. col \in Words \ {"value"}
    <3>1. col = "create_time" \/ col = "update_time"
      BY ColumnsAre
    <3>2. "create_time" \in Words \ {"value"} /\ "update_time" \in Words \ {"value"}
      BY DEF Words
    <3> HIDE DEF col
    <3> QED BY <3>1, <3>2
  <2>2. /\ "= CASE" \in Words \ {"value"} /\ "WHEN (" \in Words \ {"value"}
        /\ ") THEN" \in Words \ {"value"} /\ "END" \in Words \ {"value"}
        /\ "," \in Words \ {"value"} /\ "value" \in Words
    BY DEF Words
  <2> QED BY <2>1, <2>2
<1>4. SetCase(model, c) = ((s1 \o s2) \o s3) \o s4 /\ SetWords(Len(k), c) = ((a1 \o a2) \o a3) \o a4
  BY DEF SetCase, SetWords
<1> HIDE DEF k, x, col
<1>5. Reads(s2, a2, k)
  BY <1>1, ReadsTests
<1>6. Reads(s4, a4, <<>>)
  BY <1>3, ReadsWord, ReadsNothing
<1>7. Reads(s1, a1, <<>>)
  <2>1. Reads(<<Word(col), Word("= CASE")>> \o <<Word("WHEN (")>>, <<col, "= CASE">> \o <<"WHEN (">>, <<>> \o <<>>)
    BY <1>3, ReadsTwoWords, ReadsWord, ReadsCat
  <2>2. <<>> \o <<>> = <<>>
    OBVIOUS
  <2>3. s1 = <<Word(col), Word("= CASE")>> \o <<Word("WHEN (")>>
    BY <1>3, TokenType, TokensThree
  <2>4. a1 = <<col, "= CASE">> \o <<"WHEN (">>
    BY <1>3, WordsThree
  <2> HIDE DEF s1, a1
  <2> QED BY <2>1, <2>2, <2>3, <2>4
<1>8. Reads(s3, a3, <<x>>)
  <2>1. Reads(<<Word(") THEN"), Value(x)>> \o <<Word("END")>>, <<") THEN", "value">> \o <<"END">>, <<x>> \o <<>>)
    BY <1>2, <1>3, ReadsWordValue, ReadsWord, ReadsCat
  <2>2. <<x>> \o <<>> = <<x>>
    BY <1>2
  <2>3. s3 = <<Word(") THEN"), Value(x)>> \o <<Word("END")>>
    <3> DEFINE p == Word(") THEN")
               q == Value(x)
               r == Word("END")
    <3>1. p \in Token /\ q \in Token /\ r \in Token
      BY <1>2, <1>3, TokenType
    <3> HIDE DEF p, q, r
    <3>2. <<p, q, r>> = <<p, q>> \o <<r>>
      BY <3>1, ThreeIsTwo
    <3> QED BY <3>2 DEF p, q, r
  <2>4. a3 = <<") THEN", "value">> \o <<"END">>
    BY <1>3, WordsThree
  <2> HIDE DEF s3, a3
  <2> QED BY <2>1, <2>2, <2>3, <2>4
<1> HIDE DEF s1, s2, s3, s4, a1, a2, a3, a4
<1> DEFINE z == <<>>
<1>9. ((z \o k) \o <<x>>) \o z = k \o <<x>>
  <2> DEFINE y == k \o <<x>>
  <2>1. y \in Seq(Content)
    BY <1>1, <1>2
  <2>2. z \o k = k
    BY <1>1, CatEmpty
  <2> HIDE DEF y
  <2>3. y \o z = y
    BY <2>1, CatEmpty
  <2> HIDE DEF z
  <2> QED BY <2>2, <2>3 DEF y
<1>10. Reads(((s1 \o s2) \o s3) \o s4, ((a1 \o a2) \o a3) \o a4, ((z \o k) \o <<x>>) \o z)
  <2>1. Reads(s1, a1, z) /\ Reads(s4, a4, z)
    BY <1>6, <1>7
  <2> HIDE DEF z
  <2>2. Reads((s1 \o s2) \o s3, (a1 \o a2) \o a3, (z \o k) \o <<x>>)
    BY <1>5, <1>8, <2>1, ReadsCat
  <2> QED BY <2>1, <2>2, ReadsCat
<1> QED BY <1>4, <1>9, <1>10 DEF k, x

\* Every column of every model, one piece for each, is the first of these ...
ColumnPieces(models, c) == [m \in 1..Len(models) |-> SetCase(models[m], c)]
SetPieces(models) == [c \in 1..Len(Columns) |-> FlattenSeq(ColumnPieces(models, c))]

\* ... and the keys in brackets, the last of these.
BracketPieces(models) ==
  [m \in 1..Len(models) |->
    <<Word("(")>> \o Listed([k \in DOMAIN models[m].key |-> <<Value(models[m].key[k])>>])
      \o <<Word(")")>>]

\* updateModelSql in its five parts.
LEMMA UpdateIs ==
  ASSUME NEW models
  PROVE  UpdateModelSql(models) =
           (((<<Word("UPDATE")>> \o FlattenSeq(SetPieces(models)))
              \o <<Word("WHERE ("), Word("keys"), Word(") IN (")>>)
              \o FlattenSeq(BracketPieces(models))) \o <<Word(")")>>
  BY DEF UpdateModelSql, SetPieces, ColumnPieces, BracketPieces, Concat

\* A key in the IN list of an UPDATE.
LEMMA ReadsBracket ==
  ASSUME NEW k \in Key
  PROVE  Reads(<<Word("(")>> \o Listed([i \in DOMAIN k |-> <<Value(k[i])>>]) \o <<Word(")")>>,
               Item(Len(k)), k)
<1> DEFINE l == Listed([i \in DOMAIN k |-> <<Value(k[i])>>])
           a == List(Len(k), <<"value">>)
<1>1. Reads(l, a, k) /\ Reads(<<Word("(")>>, <<"(">>, <<>>) /\ Reads(<<Word(")")>>, <<")">>, <<>>)
  BY ReadsTuple, ReadsWord, SomeWords
<1> HIDE DEF l, a
<1>2. Reads((<<Word("(")>> \o l) \o <<Word(")")>>, (<<"(">> \o a) \o <<")">>, (<<>> \o k) \o <<>>)
  BY <1>1, ReadsCat
<1>3. (<<>> \o k) \o <<>> = k
  BY KeyType, CatEmpty
<1> QED BY <1>2, <1>3 DEF l, a, Item

\* The pieces updateModelSql concatenates, typed.
LEMMA UpdateTypes ==
  ASSUME NEW models, NEW w \in Nat, AreModels(models, w)
  PROVE  /\ \A c \in 1..2 : /\ ColumnPieces(models, c) \in Seq(Seq(Token))
                            /\ Len(ColumnPieces(models, c)) = Len(models)
                            /\ \A i \in 1..Len(models) :
                                 ColumnPieces(models, c)[i] = SetCase(models[i], c)
         /\ SetPieces(models) \in Seq(Seq(Token)) /\ Len(SetPieces(models)) = 2
         /\ \A c \in 1..2 : SetPieces(models)[c] = FlattenSeq(ColumnPieces(models, c))
         /\ BracketPieces(models) \in Seq(Seq(Token)) /\ Len(BracketPieces(models)) = Len(models)
<1> DEFINE n == Len(models)
<1>1. n \in Nat /\ \A i \in 1..n : IsModel(models[i])
  BY DEF AreModels
<1> HIDE DEF n
<1>2. ASSUME NEW c \in 1..2
      PROVE  /\ ColumnPieces(models, c) \in Seq(Seq(Token))
             /\ Len(ColumnPieces(models, c)) = n
             /\ \A i \in 1..n : ColumnPieces(models, c)[i] = SetCase(models[i], c)
  <2> DEFINE ps == ColumnPieces(models, c)
  <2>1. \A i \in 1..n : ps[i] = SetCase(models[i], c)
    BY DEF ColumnPieces, n
  <2>2. IsListed(ps, n)
    BY DEF IsListed, ColumnPieces, n
  <2>3. \A i \in 1..n : SetCase(models[i], c) \in Seq(Token)
    BY <1>1, ReadsSetCase, ReadsType
  <2> HIDE DEF ps
  <2>4. \A i \in 1..n : ps[i] \in Seq(Token)
    BY <2>1, <2>3
  <2>5. ps \in Seq(Seq(Token)) /\ Len(ps) = n
    BY <1>1, <2>2, <2>4, MakeSeq
  <2> QED BY <2>1, <2>5 DEF ps
<1>3. /\ SetPieces(models) \in Seq(Seq(Token)) /\ Len(SetPieces(models)) = 2
      /\ \A c \in 1..2 : SetPieces(models)[c] = FlattenSeq(ColumnPieces(models, c))
  <2> DEFINE ps == SetPieces(models)
  <2>1. \A c \in 1..2 : ps[c] = FlattenSeq(ColumnPieces(models, c))
    BY ColumnsAre DEF SetPieces
  <2>2. IsListed(ps, 2) /\ 2 \in Nat
    BY ColumnsAre DEF IsListed, SetPieces
  <2>3. \A c \in 1..2 : FlattenSeq(ColumnPieces(models, c)) \in Seq(Token)
    BY <1>2, FlattenType
  <2> HIDE DEF ps
  <2>4. \A c \in 1..2 : ps[c] \in Seq(Token)
    BY <2>1, <2>3
  <2>5. ps \in Seq(Seq(Token)) /\ Len(ps) = 2
    BY <2>2, <2>4, MakeSeq
  <2> QED BY <2>1, <2>5 DEF ps
<1>4. BracketPieces(models) \in Seq(Seq(Token)) /\ Len(BracketPieces(models)) = n
  <2> DEFINE Bracket(k) == <<Word("(")>> \o Listed([i \in DOMAIN k |-> <<Value(k[i])>>]) \o <<Word(")")>>
             ps == BracketPieces(models)
  <2>1. \A i \in 1..n : ps[i] = Bracket(models[i].key)
    BY DEF BracketPieces, n
  <2>2. IsListed(ps, n)
    BY DEF IsListed, BracketPieces, n
  <2>3. \A i \in 1..n : Bracket(models[i].key) \in Seq(Token)
    <3>1. \A k \in Key : Bracket(k) \in Seq(Token)
      BY ReadsBracket, ReadsType
    <3> HIDE DEF Bracket
    <3> QED BY <1>1, <3>1 DEF IsModel
  <2> HIDE DEF ps, Bracket
  <2>4. \A i \in 1..n : ps[i] \in Seq(Token)
    BY <2>1, <2>3
  <2>5. ps \in Seq(Seq(Token)) /\ Len(ps) = n
    BY <1>1, <2>2, <2>4, MakeSeq
  <2> QED BY <2>5 DEF ps
<1> QED BY <1>2, <1>3, <1>4 DEF n

\* What CaseShape has for one column of one model.
CaseWords(col) ==
  <<col, "= CASE">> \o <<"WHEN (", "key =", "value", ") THEN", "value">> \o <<"END">>

\* The words of that CASE for a key of one column.
LEMMA SetWordsOne ==
  /\ SetWords(1, 1) = CaseWords("create_time") \o <<",">>
  /\ SetWords(1, 2) = CaseWords("update_time")
  /\ \A col \in {"create_time", "update_time"} :
       /\ CaseWords(col) \in Seq(Words) /\ Len(CaseWords(col)) = 8
       /\ CaseWords(col)[1] = col /\ CaseWords(col)[2] = "= CASE" /\ CaseWords(col)[8] = "END"
<1> DEFINE a == "= CASE"
           b == "WHEN ("
           c == "key ="
           d == "value"
           e == ") THEN"
           f == "END"
           comma == <<",">>
<1>0. a \in Words /\ b \in Words /\ c \in Words /\ d \in Words /\ e \in Words /\ f \in Words
  BY DEF Words
<1>1. "create_time" \in Words /\ "update_time" \in Words
  BY DEF Words
<1> HIDE DEF a, b, c, d, e, f, comma
<1>2. ASSUME NEW col \in Words
      PROVE  /\ (<<col, a, b>> \o <<c, d>>) \o <<e, d, f>> = (<<col, a>> \o <<b, c, d, e, d>>) \o <<f>>
             /\ (<<col, a>> \o <<b, c, d, e, d>>) \o <<f>> \in Seq(Words)
             /\ Len((<<col, a>> \o <<b, c, d, e, d>>) \o <<f>>) = 8
             /\ ((<<col, a>> \o <<b, c, d, e, d>>) \o <<f>>)[1] = col
             /\ ((<<col, a>> \o <<b, c, d, e, d>>) \o <<f>>)[2] = a
             /\ ((<<col, a>> \o <<b, c, d, e, d>>) \o <<f>>)[8] = f
  <2> DEFINE l == (<<col, a, b>> \o <<c, d>>) \o <<e, d, f>>
             r == (<<col, a>> \o <<b, c, d, e, d>>) \o <<f>>
  <2>1. l \in Seq(Words) /\ Len(l) = 8
    BY <1>0
  <2>2. r \in Seq(Words) /\ Len(r) = 8
    BY <1>0
  <2>3. \A i \in 1..8 : l[i] = r[i]
    BY <1>0
  <2>4. r[1] = col /\ r[2] = a /\ r[8] = f
    BY <1>0
  <2> HIDE DEF l, r
  <2>5. l = r
    BY <2>1, <2>2, <2>3, SeqEqual
  <2> QED BY <2>2, <2>4, <2>5 DEF l, r
<1>3. \A col : CaseWords(col) = (<<col, a>> \o <<b, c, d, e, d>>) \o <<f>>
  BY DEF CaseWords, a, b, c, d, e, f
<1>4. List(1, <<c, d>>) = <<c, d>>
  <2> DEFINE pieces == [i \in 1..0 |-> <<c, d>> \o <<",">>]
  <2>1. Separated(1, <<c, d>>, ",") = FlattenSeq(pieces) \o <<c, d>>
    <3>1. 1 - 1 = 0
      OBVIOUS
    <3> QED BY <3>1 DEF Separated, Concat
  <2>2. pieces = <<>>
    OBVIOUS
  <2>3. <<c, d>> \in Seq(Words)
    BY <1>0
  <2> HIDE DEF pieces
  <2>4. <<>> \o <<c, d>> = <<c, d>>
    BY <2>3, CatEmpty
  <2> QED BY <2>1, <2>2, <2>4, FlattenEmpty DEF List
<1>5. SetWords(1, 1) = ((<<"create_time", a, b>> \o <<c, d>>) \o <<e, d, f>>) \o comma
  <2>1. SetWords(1, 1) = ((<<"create_time", a, b>> \o List(1, <<c, d>>)) \o <<e, d, f>>) \o comma
    BY ColumnsAre DEF SetWords, a, b, c, d, e, f, comma
  <2> QED BY <1>4, <2>1
<1>6. SetWords(1, 2) = ((<<"update_time", a, b>> \o <<c, d>>) \o <<e, d, f>>) \o <<>>
  <2>1. SetWords(1, 2) = ((<<"update_time", a, b>> \o List(1, <<c, d>>)) \o <<e, d, f>>) \o <<>>
    BY ColumnsAre DEF SetWords, a, b, c, d, e, f
  <2> QED BY <1>4, <2>1
<1>7. \A col \in Words : /\ (<<col, a, b>> \o <<c, d>>) \o <<e, d, f>> = CaseWords(col)
                         /\ CaseWords(col) \in Seq(Words) /\ Len(CaseWords(col)) = 8
                         /\ CaseWords(col)[1] = col /\ CaseWords(col)[2] = a /\ CaseWords(col)[8] = f
  BY <1>2, <1>3
<1>8. SetWords(1, 1) = CaseWords("create_time") \o comma
  BY <1>1, <1>5, <1>7
<1>9. SetWords(1, 2) = CaseWords("update_time")
  <2>1. SetWords(1, 2) = CaseWords("update_time") \o <<>>
    BY <1>1, <1>6, <1>7
  <2> QED BY <1>1, <1>7, <2>1, CatEmpty
<1> QED BY <1>1, <1>7, <1>8, <1>9 DEF a, f, comma

\* What CaseShape has for an UPDATE of one row.
CaseOne ==
  <<"UPDATE">> \o CaseWords("create_time") \o <<",">> \o CaseWords("update_time")
    \o <<"WHERE (", "keys", ") IN (">> \o Tuples(1, 1) \o <<")">>

\* Three words read as themselves.
LEMMA ReadsThreeWords ==
  ASSUME NEW a \in Words \ {"value"}, NEW b \in Words \ {"value"}, NEW c \in Words \ {"value"}
  PROVE  Reads(<<Word(a), Word(b), Word(c)>>, <<a, b, c>>, <<>>)
<1>1. Reads(<<Word(a), Word(b)>> \o <<Word(c)>>, <<a, b>> \o <<c>>, <<>> \o <<>>)
  BY ReadsTwoWords, ReadsWord, ReadsCat
<1>2. <<>> \o <<>> = <<>>
  OBVIOUS
<1>3. Word(a) \in Token /\ Word(b) \in Token /\ Word(c) \in Token
  BY TokenType
<1>4. <<Word(a), Word(b), Word(c)>> = <<Word(a), Word(b)>> \o <<Word(c)>>
  BY <1>3, ThreeIsTwo
<1>5. <<a, b, c>> = <<a, b>> \o <<c>>
  BY ThreeIsTwo
<1> QED BY <1>1, <1>2, <1>4, <1>5

\* The fixed words of an UPDATE read as themselves.
LEMMA ReadsBrackets ==
  /\ Reads(<<Word("WHERE ("), Word("keys"), Word(") IN (")>>, <<"WHERE (", "keys", ") IN (">>, <<>>)
  /\ Reads(<<Word(")")>>, <<")">>, <<>>) /\ Reads(<<Word("UPDATE")>>, <<"UPDATE">>, <<>>)
<1>1. /\ "WHERE (" \in Words \ {"value"} /\ "keys" \in Words \ {"value"} /\ ") IN (" \in Words \ {"value"}
      /\ ")" \in Words \ {"value"} /\ "UPDATE" \in Words \ {"value"}
  BY DEF Words
<1> QED BY <1>1, ReadsThreeWords, ReadsWord

\* An UPDATE of one model with a key of one column.
LEMMA ReadsOneUpdate ==
  ASSUME NEW models, AreModels(models, 1), Len(models) = 1
  PROVE  LET m == models[1] IN
         Reads(UpdateModelSql(models), CaseOne,
               ((m.key \o <<m.create>>) \o (m.key \o <<m.renewed>>)) \o m.key)
<1> DEFINE m == models[1]
           k == m.key
           s1 == <<Word("UPDATE")>>
           s2 == FlattenSeq(SetPieces(models))
           s3 == <<Word("WHERE ("), Word("keys"), Word(") IN (")>>
           s4 == FlattenSeq(BracketPieces(models))
           s5 == <<Word(")")>>
           a1 == <<"UPDATE">>
           a2 == CaseWords("create_time")
           a3 == <<",">>
           a4 == CaseWords("update_time")
           a5 == <<"WHERE (", "keys", ") IN (">>
           a6 == Tuples(1, 1)
           a7 == <<")">>
           x  == k \o <<m.create>>
           y  == k \o <<m.renewed>>
           z  == <<>>
<1>1. IsModel(m) /\ k \in Key /\ Len(k) = 1 /\ k \in Seq(Content)
  <2>1. 1 \in 1..Len(models)
    OBVIOUS
  <2>2. IsModel(m) /\ Len(k) = 1
    BY <2>1 DEF AreModels
  <2> QED BY <2>2, KeyType DEF IsModel
<1>2. /\ ColumnValues(m)[1] = m.create /\ ColumnValues(m)[2] = m.renewed
      /\ m.create \in Content /\ m.renewed \in Content
  <2>1. /\ ColumnValues(m) = <<m.create, m.renewed>>
        /\ m.create \in Content /\ m.renewed \in Content
    BY <1>1, FieldsType
  <2> QED BY <2>1
<1>3. a3 \in Seq(Words)
  BY SomeWords, Pair
<1>4. Reads(s1, a1, z) /\ Reads(s3, a5, z) /\ Reads(s5, a7, z)
  BY ReadsBrackets
<1>5. Reads(SetCase(m, 1), a2 \o a3, x) /\ Reads(SetCase(m, 2), a4, y)
  <2>1. 1 \in 1..2 /\ 2 \in 1..2
    OBVIOUS
  <2> QED BY <1>1, <1>2, <2>1, ReadsSetCase, SetWordsOne
<1>6. s2 = SetCase(m, 1) \o SetCase(m, 2)
  <2>1. 1 \in Nat /\ 1 \in 1..2 /\ 2 \in 1..2 /\ 1 \in 1..Len(models)
    OBVIOUS
  <2>2. /\ SetPieces(models) \in Seq(Seq(Token)) /\ Len(SetPieces(models)) = 2
        /\ \A c \in 1..2 : /\ SetPieces(models)[c] = FlattenSeq(ColumnPieces(models, c))
                           /\ Len(ColumnPieces(models, c)) = 1
                           /\ ColumnPieces(models, c)[1] = SetCase(m, c)
    BY <2>1, UpdateTypes
  <2>3. \A c \in 1..2 : FlattenSeq(ColumnPieces(models, c)) = SetCase(m, c)
    BY <2>2, FlattenOne
  <2>4. FlattenSeq(SetPieces(models)) = SetPieces(models)[1] \o SetPieces(models)[2]
    BY <2>2, FlattenTwo
  <2> QED BY <2>1, <2>2, <2>3, <2>4
<1>7. Reads(s4, a6, k)
  <2> DEFINE Bracket(l) == <<Word("(")>> \o Listed([i \in DOMAIN l |-> <<Value(l[i])>>]) \o <<Word(")")>>
  <2>1. BracketPieces(models)[1] = Bracket(k) /\ Len(BracketPieces(models)) = 1
    <3>1. BracketPieces(models) = [i \in 1..Len(models) |-> Bracket(models[i].key)]
      BY DEF BracketPieces
    <3> HIDE DEF Bracket
    <3> QED BY <3>1
  <2>2. Reads(Bracket(k), Item(1), k)
    BY <1>1, ReadsBracket
  <2> HIDE DEF Bracket
  <2>3. s4 = Bracket(k)
    BY <2>1, FlattenOne
  <2>4. a6 = Item(1)
    <3> DEFINE pieces == [i \in 1..0 |-> Item(1) \o <<",">>]
    <3>1. Tuples(1, 1) = FlattenSeq(pieces) \o Item(1)
      <4>1. 1 - 1 = 0
        OBVIOUS
      <4> QED BY <4>1 DEF Tuples, List, Separated, Concat, Item
    <3>2. pieces = <<>>
      OBVIOUS
    <3>3. Item(1) \in Seq(Words)
      BY <2>2, ReadsType
    <3> HIDE DEF pieces
    <3> QED BY <3>1, <3>2, <3>3, FlattenEmpty, CatEmpty
  <2> QED BY <2>2, <2>3, <2>4
<1>8. UpdateModelSql(models) = (((s1 \o s2) \o s3) \o s4) \o s5
  BY UpdateIs
<1>9. CaseOne = (((((a1 \o a2) \o a3) \o a4) \o a5) \o a6) \o a7
  BY DEF CaseOne
<1>10. a1 \in Seq(Words) /\ a2 \in Seq(Words) /\ a4 \in Seq(Words) /\ x \in Seq(Content) /\ y \in Seq(Content)
  BY <1>4, <1>5, SetWordsOne, ReadsType
<1> HIDE DEF m, k, s1, s2, s3, s4, s5, a1, a2, a3, a4, a5, a6, a7, x, y, z
<1>11. Reads(s2, (a2 \o a3) \o a4, x \o y)
  BY <1>5, <1>6, ReadsCat
<1>12. a1 \o ((a2 \o a3) \o a4) = ((a1 \o a2) \o a3) \o a4
  <2> DEFINE u == a2 \o a3
             v == a1 \o a2
  <2>0. u \in Seq(Words)
    BY <1>3, <1>10, Cat
  <2>1. a1 \o u = v \o a3
    BY <1>3, <1>10, WordsCat
  <2> HIDE DEF u, v
  <2>2. a1 \o (u \o a4) = (a1 \o u) \o a4
    BY <1>10, <2>0, WordsCat
  <2>3. a1 \o (u \o a4) = (v \o a3) \o a4
    BY <2>1, <2>2
  <2> QED BY <2>3 DEF u, v
<1>13. Reads(s1 \o s2, ((a1 \o a2) \o a3) \o a4, z \o (x \o y))
  BY <1>4, <1>11, <1>12, ReadsCat
<1> DEFINE xy == x \o y
<1>14. xy \in Seq(Content) /\ k \in Seq(Content)
  BY <1>1, <1>10, Cat DEF k
<1> HIDE DEF xy
<1>15. Reads((((s1 \o s2) \o s3) \o s4) \o s5, (((((a1 \o a2) \o a3) \o a4) \o a5) \o a6) \o a7,
             (((z \o xy) \o z) \o k) \o z)
  <2>1. Reads(s1 \o s2, ((a1 \o a2) \o a3) \o a4, z \o xy)
    BY <1>13 DEF xy
  <2>2. Reads((s1 \o s2) \o s3, (((a1 \o a2) \o a3) \o a4) \o a5, (z \o xy) \o z)
    BY <1>4, <2>1, ReadsCat
  <2>3. Reads(((s1 \o s2) \o s3) \o s4, ((((a1 \o a2) \o a3) \o a4) \o a5) \o a6, ((z \o xy) \o z) \o k)
    BY <1>7, <2>2, ReadsCat
  <2> QED BY <1>4, <2>3, ReadsCat
<1>16. (((z \o xy) \o z) \o k) \o z = xy \o k
  <2>1. (z \o xy) \o z = xy
    BY <1>14, CatEmpty DEF z
  <2>2. xy \o k \in Seq(Content)
    BY <1>14, Cat
  <2> DEFINE u == xy \o k
  <2>3. u \in Seq(Content)
    BY <2>2
  <2> HIDE DEF u
  <2>4. u \o z = u
    BY <2>3, CatEmpty DEF z
  <2> QED BY <2>1, <2>4 DEF u
<1> QED BY <1>8, <1>9, <1>15, <1>16 DEF m, k, x, y, xy

-----------------------------------------------------------------------------
(* What the server takes a text for *)

\* The widths and counts the shapes range over.
LEMMA SizesType ==
  /\ Widths \subseteq Nat \ {0}
  /\ Cardinality(Key) \in Nat /\ Counts \subseteq Nat \ {0}
<1>1. \A k \in Key : Len(k) \in Nat \ {0}
  BY KeyType
<1>2. Cardinality(Key) \in Nat
  BY KeyAssumption, FS_CardinalityType
<1> QED BY <1>1, <1>2 DEF Widths, Counts

\* One column assigned.
LEMMA AssignOne ==
  ASSUME NEW a \in Words
  PROVE  AssignShape(<<a>>) = <<a, "=", "value">>
<1> DEFINE columns == <<a>>
           P(c) == <<columns[c], "=", "value", ",">>
           words == [c \in 1..Len(columns) |-> P(c)]
           e == "="
           v == "value"
           d == ","
<1>1. AssignShape(columns) = Front(FlattenSeq(words))
  BY DEF AssignShape, Concat
<1>2. Len(columns) = 1 /\ P(1) = <<a, e, v, d>>
  OBVIOUS
<1>3. e \in Words /\ v \in Words /\ d \in Words
  BY DEF Words
<1> HIDE DEF columns, P, e, v, d
<1>4. Len(words) = 1 /\ words[1] = P(1)
  BY <1>2
<1> HIDE DEF words
<1>5. FlattenSeq(words) = <<a, e, v, d>>
  BY <1>2, <1>4, FlattenOne
<1>6. <<a, e, v, d>> = <<a, e, v>> \o <<d>> /\ <<a, e, v>> \in Seq(Words)
  BY <1>3, FourIsThree
<1>7. Front(<<a, e, v>> \o <<d>>) = <<a, e, v>>
  BY <1>3, <1>6, FrontCat
<1> QED BY <1>1, <1>5, <1>6, <1>7 DEF columns, e, v, d

\* Two columns assigned, a comma between.
LEMMA AssignTwo ==
  ASSUME NEW a \in Words, NEW b \in Words
  PROVE  AssignShape(<<a, b>>) = (<<a, "=", "value">> \o <<",">>) \o <<b, "=", "value">>
<1> DEFINE columns == <<a, b>>
           P(c) == <<columns[c], "=", "value", ",">>
           words == [c \in 1..Len(columns) |-> P(c)]
           e == "="
           v == "value"
           d == ","
           x == <<a, e, v>>
           y == <<b, e, v>>
           comma == <<d>>
<1>1. AssignShape(columns) = Front(FlattenSeq(words))
  BY DEF AssignShape, Concat
<1>2. Len(columns) = 2 /\ P(1) = <<a, e, v, d>> /\ P(2) = <<b, e, v, d>>
  OBVIOUS
<1>3. e \in Words /\ v \in Words /\ d \in Words
  BY DEF Words
<1> HIDE DEF columns, P, e, v, d
<1>4. Len(words) = 2 /\ words[1] = P(1) /\ words[2] = P(2) /\ IsListed(words, 2)
  BY <1>2 DEF IsListed
<1> HIDE DEF words
<1>5. <<a, e, v, d>> = x \o comma /\ <<b, e, v, d>> = y \o comma
  <2>1. \A f \in Words : <<f, e, v, d>> = <<f, e, v>> \o <<d>>
    BY <1>3, FourIsThree
  <2>2. <<a, e, v, d>> = <<a, e, v>> \o <<d>>
    BY <2>1
  <2>3. <<b, e, v, d>> = <<b, e, v>> \o <<d>>
    BY <2>1
  <2> QED BY <2>2, <2>3
<1>6. x \in Seq(Words) /\ y \in Seq(Words) /\ comma \in Seq(Words)
  BY <1>3
<1> HIDE DEF x, y, comma
<1>7. words[1] = x \o comma /\ words[2] = y \o comma
  BY <1>2, <1>4, <1>5
<1>8. words \in Seq(Seq(Words)) /\ Len(words) = 2
  <2> DEFINE S == Seq(Words)
  <2>1. words[1] \in S /\ words[2] \in S
    BY <1>6, <1>7, Cat
  <2>2. \A i \in 1..2 : i = 1 \/ i = 2
    OBVIOUS
  <2> HIDE DEF S
  <2>3. 2 \in Nat /\ \A i \in 1..2 : words[i] \in S
    BY <2>1, <2>2
  <2>4. words \in Seq(S) /\ Len(words) = 2
    BY <1>4, <2>3, MakeSeq
  <2> QED BY <2>4 DEF S
<1>9. FlattenSeq(words) = (x \o comma) \o (y \o comma)
  BY <1>7, <1>8, FlattenTwo
<1> DEFINE u == x \o comma
<1>10. u \in Seq(Words)
  BY <1>6, Cat
<1> HIDE DEF u
<1>11. u \o (y \o comma) = (u \o y) \o comma
  BY <1>6, <1>10, CatCat
<1>12. u \o y \in Seq(Words)
  BY <1>6, <1>10, Cat
<1>13. Front((u \o y) \o comma) = u \o y
  <2> DEFINE t == u \o y
  <2>1. t \in Seq(Words)
    BY <1>12
  <2> HIDE DEF t
  <2>2. Front(t \o <<d>>) = t
    BY <1>3, <2>1, FrontCat
  <2> QED BY <2>2 DEF t, comma
<1>14. FlattenSeq(words) = u \o (y \o comma)
  BY <1>9 DEF u
<1>15. AssignShape(columns) = u \o y
  BY <1>1, <1>11, <1>13, <1>14
<1> QED BY <1>15 DEF columns, u, x, y, comma, e, v, d

\* The lists of columns an UPDATE can assign.
LEMMA AssignableAre ==
  Assignable = {<<"create_time">>, <<"update_time">>,
                <<"create_time", "update_time">>, <<"update_time", "create_time">>}
<1>1. Reverse(Columns) = <<"update_time", "create_time">>
  <2> DEFINE a == "create_time"
             b == "update_time"
             r == Reverse(Columns)
  <2>1. Len(Columns) = 2 /\ Columns[1] = a /\ Columns[2] = b
    BY ColumnsAre
  <2> HIDE DEF a, b
  <2>2. r = [i \in 1..2 |-> Columns[(2 - i) + 1]]
    BY <2>1 DEF Reverse
  <2>3. r[1] = b /\ r[2] = a /\ Len(r) = 2 /\ r \in Seq({a, b})
    BY <2>1, <2>2
  <2>4. <<b, a>> \in Seq({a, b}) /\ Len(<<b, a>>) = 2
    OBVIOUS
  <2> HIDE DEF r
  <2>5. \A i \in 1..2 : r[i] = <<b, a>>[i]
    BY <2>3
  <2> DEFINE l == <<b, a>>
             T == {a, b}
  <2>6. r \in Seq(T) /\ l \in Seq(T) /\ Len(r) = 2 /\ Len(l) = 2 /\ \A i \in 1..2 : r[i] = l[i]
    BY <2>3, <2>4, <2>5
  <2> HIDE DEF l, T
  <2>7. r = l
    BY <2>6, SeqEqual
  <2> QED BY <2>7 DEF r, l, a, b
<1>2. Columns = <<"create_time", "update_time">>
  BY DEF Columns
<1> QED BY <1>1, <1>2 DEF Assignable

\* An element of the first part.
LEMMA Prefix ==
  ASSUME NEW T, NEW s \in Seq(T), NEW t \in Seq(T), NEW i \in 1..Len(s)
  PROVE  (s \o t)[i] = s[i]
  OBVIOUS

\* An element of the second part.
LEMMA Suffix ==
  ASSUME NEW T, NEW s \in Seq(T), NEW t \in Seq(T), NEW i \in 1..Len(t)
  PROVE  (s \o t)[Len(s) + i] = t[i]
  OBVIOUS

\* The words that tell how many columns an UPDATE of one row assigns, and which first.
LEMMA SingleHead ==
  ASSUME NEW w \in Nat \ {0}, NEW l \in Assignable
  PROVE  /\ SingleWords(w, l)[1] = "UPDATE" /\ SingleWords(w, l)[2] = l[1]
         /\ SingleWords(w, l)[3] = "="
         /\ \/ Len(l) = 1 /\ SingleWords(w, l)[5] = "WHERE"
            \/ Len(l) = 2 /\ SingleWords(w, l)[5] = ","
<1> DEFINE u == <<"UPDATE">>
           a == AssignShape(l)
           c == <<"WHERE">>
           d == Separated(w, <<"key =", "value">>, "AND")
           e == <<";">>
           h == (u \o a) \o c
           update == "UPDATE"
           wher == "WHERE"
           comma == ","
           equal == "="
<1>1. SingleWords(w, l) = (h \o d) \o e
  BY DEF SingleWords
<1>2. u \in Seq(Words) /\ c \in Seq(Words) /\ e \in Seq(Words) /\ Len(u) = 1 /\ u[1] = update
      /\ Len(c) = 1 /\ c[1] = wher
  BY DEF Words
<1>3. d \in Seq(Words)
  <2>1. PICK m \in Nat : w = m + 1
    BY OneMore
  <2>2. <<"key =", "value">> \in Seq(Words) /\ "AND" \in Words
    BY DEF Words
  <2> QED BY <2>1, <2>2, SeparatedType
<1>4. /\ a \in Seq(Words) /\ a[1] = l[1] /\ a[2] = equal
      /\ \/ Len(l) = 1 /\ Len(a) = 3
         \/ Len(l) = 2 /\ Len(a) = 7 /\ a[4] = comma
  <2> DEFINE x == "="
             y == "value"
             z == ","
  <2>1. x \in Words /\ y \in Words /\ z \in Words /\ "create_time" \in Words /\ "update_time" \in Words
    BY DEF Words
  <2>2. CASE \E b \in Words : l = <<b>>
    <3>1. PICK b \in Words : l = <<b>>
      BY <2>2
    <3>2. a = <<b, x, y>> /\ Len(l) = 1 /\ l[1] = b
      BY <3>1, AssignOne
    <3> HIDE DEF a, x, y, z
    <3>3. a \in Seq(Words) /\ Len(a) = 3 /\ a[1] = b /\ a[2] = x
      BY <2>1, <3>2
    <3> QED BY <3>2, <3>3 DEF x
  <2>3. CASE \E b \in Words, f \in Words : l = <<b, f>>
    <3>1. PICK b \in Words, f \in Words : l = <<b, f>>
      BY <2>3
    <3>2. a = (<<b, x, y>> \o <<z>>) \o <<f, x, y>> /\ Len(l) = 2 /\ l[1] = b
      BY <3>1, AssignTwo
    <3> HIDE DEF a, x, y, z
    <3>3. a \in Seq(Words) /\ Len(a) = 7 /\ a[1] = b /\ a[2] = x /\ a[4] = z
      BY <2>1, <3>2
    <3> QED BY <3>2, <3>3 DEF x, z
  <2> HIDE DEF x, y, z
  <2> QED BY <2>1, <2>2, <2>3, AssignableAre
<1> HIDE DEF u, a, c, d, e, update, wher, comma, equal
<1>5. h \in Seq(Words) /\ Len(h) = 2 + Len(a) /\ Len(a) \in Nat /\ Len(a) >= 3
  <2>1. u \o a \in Seq(Words) /\ Len(u \o a) = 1 + Len(a)
    BY <1>2, <1>4, Cat
  <2> DEFINE g == u \o a
  <2>2. g \in Seq(Words) /\ Len(g) = 1 + Len(a)
    BY <2>1
  <2> HIDE DEF g
  <2>3. g \o c \in Seq(Words) /\ Len(g \o c) = Len(g) + Len(c)
    BY <1>2, <2>2, Cat
  <2>4. Len(a) \in Nat /\ Len(a) >= 3
    BY <1>4
  <2> QED BY <1>2, <2>2, <2>3, <2>4 DEF g
<1>6. \A i \in 1..Len(h) : ((h \o d) \o e)[i] = h[i]
  <2> HIDE DEF h
  <2>1. \A i \in 1..Len(h) : (h \o d)[i] = h[i] /\ i \in 1..Len(h \o d)
    BY <1>3, <1>5
  <2> DEFINE g == h \o d
  <2>2. g \in Seq(Words) /\ \A i \in 1..Len(h) : g[i] = h[i] /\ i \in 1..Len(g)
    BY <1>3, <1>5, <2>1
  <2> HIDE DEF g
  <2>3. \A i \in 1..Len(h) : (g \o e)[i] = h[i]
    BY <1>2, <2>2, Prefix
  <2> QED BY <2>3 DEF g
<1>7. /\ h[1] = u[1] /\ h[2 + Len(a)] = c[1]
      /\ \A i \in 1..Len(a) : h[1 + i] = a[i]
  <2>0. a \in Seq(Words)
    BY <1>4
  <2>a. u \in Seq(Words) /\ Len(u) = 1 /\ 1 \in 1..Len(u)
    BY <1>2
  <2>b. (u \o a)[1] = u[1]
    <3>1. ASSUME NEW i \in 1..Len(u) PROVE (u \o a)[i] = u[i]
      BY <2>0, <2>a, Prefix
    <3> QED BY <2>a, <3>1
  <2>c. ASSUME NEW i \in 1..Len(a) PROVE (u \o a)[1 + i] = a[i]
    BY <2>0, <2>a, Suffix
  <2>d. u \o a \in Seq(Words) /\ Len(u \o a) = 1 + Len(a)
    BY <2>0, <2>a, Cat
  <2> DEFINE g == u \o a
  <2>2. /\ g \in Seq(Words) /\ Len(g) = 1 + Len(a)
        /\ g[1] = u[1] /\ \A i \in 1..Len(a) : g[1 + i] = a[i]
    BY <2>b, <2>c, <2>d
  <2> HIDE DEF g
  <2>3. (g \o c)[1] = g[1] /\ (g \o c)[2 + Len(a)] = c[1]
    BY <1>2, <1>5, <2>2
  <2>4. \A i \in 1..Len(a) : (g \o c)[1 + i] = g[1 + i]
    BY <1>2, <1>5, <2>2
  <2> QED BY <2>2, <2>3, <2>4 DEF g
<1> HIDE DEF h
<1>8. 1 \in 1..Len(h) /\ 2 \in 1..Len(h) /\ 3 \in 1..Len(h) /\ 5 \in 1..Len(h)
  BY <1>5
<1>9. h[2] = a[1] /\ h[3] = a[2]
  <2>1. 1 \in 1..Len(a) /\ 2 \in 1..Len(a) /\ 1 + 1 = 2 /\ 1 + 2 = 3
    BY <1>5
  <2> QED BY <1>7, <2>1
<1>10. (Len(l) = 1 /\ h[5] = wher) \/ (Len(l) = 2 /\ h[5] = comma)
  <2>1. CASE Len(l) = 1 /\ Len(a) = 3
    <3>1. 2 + Len(a) = 5
      BY <2>1
    <3> QED BY <1>2, <1>7, <2>1, <3>1
  <2>2. CASE Len(l) = 2 /\ Len(a) = 7 /\ a[4] = comma
    <3>1. 4 \in 1..Len(a) /\ 1 + 4 = 5
      BY <2>2
    <3> QED BY <1>7, <2>2, <3>1
  <2> QED BY <1>4, <2>1, <2>2
<1>11. /\ ((h \o d) \o e)[1] = update /\ ((h \o d) \o e)[2] = l[1] /\ ((h \o d) \o e)[3] = equal
       /\ ((h \o d) \o e)[5] = h[5]
  BY <1>2, <1>4, <1>6, <1>7, <1>8, <1>9
<1> QED BY <1>1, <1>10, <1>11 DEF update, wher, comma, equal

\* The shape of an UPDATE of one row tells which columns it assigns.
LEMMA OneAssignable ==
  ASSUME NEW w \in Nat \ {0}, NEW l \in Assignable, NEW k \in Assignable,
         SingleWords(w, l) = SingleWords(w, k)
  PROVE  l = k
<1> DEFINE s == SingleWords(w, l)
<1>0. "WHERE" # ","
  OBVIOUS
<1>1. s[2] = l[1] /\ ((Len(l) = 1 /\ s[5] = "WHERE") \/ (Len(l) = 2 /\ s[5] = ","))
  BY SingleHead
<1>2. s[2] = k[1] /\ ((Len(k) = 1 /\ s[5] = "WHERE") \/ (Len(k) = 2 /\ s[5] = ","))
  <2>1. s = SingleWords(w, k)
    OBVIOUS
  <2> HIDE DEF s
  <2> QED BY <2>1, SingleHead
<1> HIDE DEF s
<1> DEFINE a == "create_time"
           b == "update_time"
<1>3. a # b /\ l \in {<<a>>, <<b>>, <<a, b>>, <<b, a>>} /\ k \in {<<a>>, <<b>>, <<a, b>>, <<b, a>>}
  BY AssignableAre
<1> HIDE DEF a, b
<1>4. /\ Len(<<a>>) = 1 /\ Len(<<b>>) = 1 /\ Len(<<a, b>>) = 2 /\ Len(<<b, a>>) = 2
      /\ <<a>>[1] = a /\ <<b>>[1] = b /\ <<a, b>>[1] = a /\ <<b, a>>[1] = b
  OBVIOUS
<1>5. Len(l) = Len(k) /\ l[1] = k[1]
  BY <1>0, <1>1, <1>2
<1> QED BY <1>3, <1>4, <1>5

\* An element of the first of three parts.
LEMMA PrefixTwo ==
  ASSUME NEW T, NEW s \in Seq(T), NEW t \in Seq(T), NEW u \in Seq(T), NEW i \in 1..Len(s)
  PROVE  ((s \o t) \o u)[i] = s[i]
<1> DEFINE g == s \o t
<1>1. g \in Seq(T) /\ Len(g) = Len(s) + Len(t) /\ g[i] = s[i]
  BY Cat, Prefix
<1>2. i \in 1..Len(g)
  BY <1>1
<1> HIDE DEF g
<1>3. (g \o u)[i] = g[i]
  BY <1>1, <1>2, Prefix
<1> QED BY <1>1, <1>3 DEF g

\* Three parts, typed.
LEMMA PrefixMore ==
  ASSUME NEW T, NEW s \in Seq(T), NEW t \in Seq(T), NEW u \in Seq(T)
  PROVE  /\ (s \o t) \o u \in Seq(T) /\ Len((s \o t) \o u) = Len(s) + Len(t) + Len(u)
         /\ \A i \in 1..Len(s) : ((s \o t) \o u)[i] = s[i]
<1> DEFINE g == s \o t
<1>1. g \in Seq(T) /\ Len(g) = Len(s) + Len(t)
  BY Cat
<1>2. \A i \in 1..Len(s) : (g \o u)[i] = s[i]
  BY PrefixTwo
<1> HIDE DEF g
<1>3. g \o u \in Seq(T) /\ Len(g \o u) = Len(g) + Len(u)
  BY <1>1, Cat
<1>4. (g \o u) \in Seq(T) /\ Len(g \o u) = Len(s) + Len(t) + Len(u)
  BY <1>1, <1>3
<1> QED BY <1>2, <1>4 DEF g

\* The shape SqlText has for an UPDATE of n rows.
When(n) == Concat(n, LAMBDA i : <<"WHEN (", "key =", "value", ") THEN", "value">>)
CaseSet(n, col) == <<col, "= CASE">> \o When(n) \o <<"END">>
CaseAll(n) ==
  <<"UPDATE">> \o CaseSet(n, "create_time") \o <<",">> \o CaseSet(n, "update_time")
    \o <<"WHERE (", "keys", ") IN (">> \o Tuples(n, 1) \o <<")">>

\* The branches of a CASE, and where the second begins.
LEMMA WhenType ==
  ASSUME NEW n \in Nat \ {0}
  PROVE  /\ When(n) \in Seq(Words) /\ Len(When(n)) = 5 * n
         /\ n >= 2 => When(n)[6] = "WHEN ("
         /\ n = 1 => When(n) = <<"WHEN (", "key =", "value", ") THEN", "value">>
<1> DEFINE piece == <<"WHEN (", "key =", "value", ") THEN", "value">>
           ps == [i \in 1..n |-> piece]
<1>1. piece \in Seq(Words) /\ Len(piece) = 5 /\ piece[1] = "WHEN ("
  BY DEF Words
<1>2. When(n) = FlattenSeq(ps)
  BY DEF When, Concat
<1> HIDE DEF piece
<1>3. Len(ps) = n /\ ps \in Seq(Seq(Words)) /\ \A i \in 1..n : ps[i] = piece
  <2>1. IsListed(ps, n) /\ \A i \in 1..n : ps[i] = piece
    BY DEF IsListed
  <2> DEFINE S == Seq(Words)
  <2>2. piece \in S
    BY <1>1
  <2> HIDE DEF ps, S
  <2>3. ps \in Seq(S) /\ Len(ps) = n
    BY <2>1, <2>2, MakeSeq
  <2> QED BY <2>1, <2>3 DEF S
<1> HIDE DEF ps
<1>4. /\ Len(FlattenSeq(ps)) = 5 * n
      /\ \A i \in 1..n, j \in 1..5 : FlattenSeq(ps)[5 * (i - 1) + j] = ps[i][j]
  <2>1. PICK l \in Nat : l = 5
    OBVIOUS
  <2>2. \A i \in 1..Len(ps) : Len(ps[i]) = l
    BY <1>1, <1>3, <2>1
  <2>a. ps \in Seq(Seq(Words))
    BY <1>3
  <2>3. Len(FlattenSeq(ps)) = l * Len(ps)
    BY <2>2, <2>a, FlattenUniform
  <2>4. \A i \in 1..Len(ps), j \in 1..l : FlattenSeq(ps)[l * (i - 1) + j] = ps[i][j]
    <3>1. Laid(FlattenSeq(ps), ps, l)
      BY <2>2, <2>a, FlattenUniform
    <3> QED BY <3>1 DEF Laid
  <2> QED BY <1>3, <2>1, <2>3, <2>4
<1>5. FlattenSeq(ps) \in Seq(Words)
  BY <1>3, FlattenType
<1>6. ASSUME n >= 2 PROVE FlattenSeq(ps)[6] = "WHEN ("
  <2>1. 2 \in 1..n /\ 1 \in 1..5 /\ 5 * (2 - 1) + 1 = 6
    BY <1>6
  <2>2. FlattenSeq(ps)[5 * (2 - 1) + 1] = ps[2][1]
    BY <1>4, <2>1
  <2> QED BY <1>1, <1>3, <2>1, <2>2
<1>7. ASSUME n = 1 PROVE FlattenSeq(ps) = piece
  <2>1. Len(ps) = 1 /\ 1 \in 1..n
    BY <1>3, <1>7
  <2> QED BY <1>3, <2>1, FlattenOne
<1> QED BY <1>2, <1>4, <1>5, <1>6, <1>7 DEF piece

\* The words that tell how many rows a CASE has.
LEMMA CaseHead ==
  ASSUME NEW n \in Nat \ {0}
  PROVE  /\ CaseAll(n)[1] = "UPDATE" /\ CaseAll(n)[3] = "= CASE"
         /\ n >= 2 => CaseAll(n)[9] = "WHEN ("
         /\ n = 1 => CaseAll(n) = CaseOne
<1> DEFINE u == <<"UPDATE">>
           col == <<"create_time", "= CASE">>
           w == When(n)
           end == <<"END">>
           set == (col \o w) \o end
           h == u \o set
           c == <<",">>
           s2 == CaseSet(n, "update_time")
           k == <<"WHERE (", "keys", ") IN (">>
           t == Tuples(n, 1)
           e == <<")">>
           case == "= CASE"
           when == "WHEN ("
           update == "UPDATE"
<1>1. CaseAll(n) = (((((u \o set) \o c) \o s2) \o k) \o t) \o e
  BY DEF CaseAll, CaseSet
<1>2. /\ u \in Seq(Words) /\ Len(u) = 1 /\ u[1] = update
      /\ col \in Seq(Words) /\ Len(col) = 2 /\ col[2] = case
      /\ end \in Seq(Words) /\ c \in Seq(Words) /\ k \in Seq(Words) /\ e \in Seq(Words)
  BY DEF Words
<1>3. t \in Seq(Words)
  BY TuplesType
<1>4. w \in Seq(Words) /\ Len(w) = 5 * n /\ (n >= 2 => w[6] = when)
  BY WhenType
<1>5. s2 \in Seq(Words)
  <2>1. <<"update_time", "= CASE">> \in Seq(Words)
    BY DEF Words
  <2>2. s2 = (<<"update_time", "= CASE">> \o w) \o end
    BY DEF CaseSet
  <2> HIDE DEF w, end, s2
  <2> DEFINE x == <<"update_time", "= CASE">>
  <2>3. x \in Seq(Words) /\ s2 = (x \o w) \o end
    BY <2>1, <2>2
  <2> HIDE DEF x
  <2> QED BY <1>2, <1>4, <2>3, Cat
<1>6. ASSUME n = 1 PROVE CaseAll(n) = CaseOne
  <2>1. \A x : CaseSet(n, x) = CaseWords(x)
    BY <1>6, WhenType DEF CaseSet, CaseWords
  <2> QED BY <1>6, <2>1 DEF CaseAll, CaseOne
<1> HIDE DEF u, col, w, end, c, s2, k, t, e, case, when, update
<1>7. set \in Seq(Words) /\ Len(set) >= 8 /\ set[2] = case /\ (n >= 2 => set[8] = when)
  <2>1. col \o w \in Seq(Words) /\ Len(col \o w) = 2 + 5 * n
    BY <1>2, <1>4, Cat
  <2>2. \A i \in 1..Len(col) : (col \o w)[i] = col[i]
    BY <1>2, <1>4, Prefix
  <2>3. \A i \in 1..Len(w) : (col \o w)[2 + i] = w[i]
    <3>a. col \in Seq(Words) /\ w \in Seq(Words)
      BY <1>2, <1>4
    <3>1. ASSUME NEW i \in 1..Len(w) PROVE (col \o w)[Len(col) + i] = w[i]
      BY <3>a, Suffix
    <3> QED BY <1>2, <3>1
  <2> DEFINE x == col \o w
  <2>4. /\ x \in Seq(Words) /\ Len(x) = 2 + 5 * n /\ x[2] = case
        /\ n >= 2 => x[8] = when
    <3>1. 2 \in 1..Len(col) /\ (n >= 2 => 6 \in 1..Len(w)) /\ 2 + 6 = 8
      BY <1>2, <1>4
    <3> QED BY <1>2, <1>4, <2>1, <2>2, <2>3, <3>1
  <2> HIDE DEF x
  <2>5. x \o end \in Seq(Words) /\ Len(x \o end) = Len(x) + Len(end) /\ Len(end) = 1
    BY <1>2, <2>4, Cat DEF end
  <2>6. \A i \in 1..Len(x) : (x \o end)[i] = x[i]
    BY <1>2, <2>4, Prefix
  <2>7. 2 \in 1..Len(x) /\ (n >= 2 => 8 \in 1..Len(x)) /\ Len(x) \in Nat /\ Len(x) >= 7
    BY <2>4
  <2> QED BY <2>4, <2>5, <2>6, <2>7 DEF x
<1> HIDE DEF set
<1>8. /\ h \in Seq(Words) /\ Len(h) >= 9 /\ h[1] = update /\ h[3] = case
      /\ n >= 2 => h[9] = when
  <2>1. h \in Seq(Words) /\ Len(h) = 1 + Len(set)
    BY <1>2, <1>7, Cat
  <2>2. \A i \in 1..Len(set) : h[1 + i] = set[i]
    <3>a. u \in Seq(Words) /\ set \in Seq(Words)
      BY <1>2, <1>7
    <3>1. ASSUME NEW i \in 1..Len(set) PROVE (u \o set)[Len(u) + i] = set[i]
      BY <3>a, Suffix
    <3> QED BY <1>2, <3>1
  <2>3. \A i \in 1..Len(u) : h[i] = u[i]
    BY <1>2, <1>7, Prefix
  <2>4. 1 \in 1..Len(u) /\ 2 \in 1..Len(set) /\ 8 \in 1..Len(set) /\ 1 + 2 = 3 /\ 1 + 8 = 9
    BY <1>2, <1>7
  <2> HIDE DEF h
  <2> QED BY <1>2, <1>7, <2>1, <2>2, <2>3, <2>4
<1> HIDE DEF h
<1>9. CaseAll(n) = ((((h \o c) \o s2) \o k) \o t) \o e
  BY <1>1 DEF h
<1>10. \A i \in 1..Len(h) : CaseAll(n)[i] = h[i]
  <2> DEFINE g == (h \o c) \o s2
             f == (g \o k) \o t
  <2>1. g \in Seq(Words) /\ Len(g) = Len(h) + Len(c) + Len(s2) /\ \A i \in 1..Len(h) : g[i] = h[i]
    BY <1>2, <1>5, <1>8, PrefixMore
  <2> HIDE DEF g
  <2>2. f \in Seq(Words) /\ Len(f) = Len(g) + Len(k) + Len(t) /\ \A i \in 1..Len(g) : f[i] = g[i]
    <3>1. g \in Seq(Words) /\ k \in Seq(Words) /\ t \in Seq(Words)
      BY <1>2, <1>3, <2>1
    <3>2. f \in Seq(Words) /\ Len(f) = Len(g) + Len(k) + Len(t)
      BY <3>1, PrefixMore
    <3>3. \A i \in 1..Len(g) : f[i] = g[i]
      BY <3>1, PrefixMore
    <3> QED BY <3>2, <3>3
  <2> HIDE DEF f
  <2>3. \A i \in 1..Len(f) : (f \o e)[i] = f[i]
    BY <1>2, <2>2, Prefix
  <2>4. \A i \in 1..Len(h) : i \in 1..Len(g) /\ i \in 1..Len(f)
    <3>1. /\ Len(h) \in Nat /\ Len(c) \in Nat /\ Len(s2) \in Nat /\ Len(k) \in Nat /\ Len(t) \in Nat
      BY <1>2, <1>3, <1>5, <1>8
    <3> QED BY <2>1, <2>2, <3>1
  <2> QED BY <1>9, <2>1, <2>2, <2>3, <2>4 DEF f, g
<1>11. 1 \in 1..Len(h) /\ 3 \in 1..Len(h) /\ 9 \in 1..Len(h)
  BY <1>8
<1> QED BY <1>6, <1>8, <1>10, <1>11 DEF case, when, update

\* Equal texts with an equal last word have equal words before it.
LEMMA LastOfTwo ==
  ASSUME NEW T, NEW s \in Seq(T), NEW t \in Seq(T), NEW a \in T, NEW b \in T, NEW c \in T,
         (s \o <<a>>) \o <<c>> = (t \o <<b>>) \o <<c>>
  PROVE  a = b
<1> DEFINE x == s \o <<a>>
           y == t \o <<b>>
<1>1. x \in Seq(T) /\ y \in Seq(T) /\ x \o <<c>> = y \o <<c>>
  BY Cat
<1>2. x = y
  <2> HIDE DEF x, y
  <2>1. Front(x \o <<c>>) = x /\ Front(y \o <<c>>) = y
    BY <1>1, FrontCat
  <2> QED BY <1>1, <2>1
<1> QED BY <1>2

\* A list of rows ends in a parenthesis.
LEMMA TuplesEnd ==
  ASSUME NEW n \in Nat \ {0}, NEW w \in Nat \ {0}
  PROVE  \E y \in Seq(Words) : Tuples(n, w) = y \o <<")">>
<1>1. PICK m \in Nat : n = m + 1
  BY OneMore
<1> DEFINE as == [i \in 1..m |-> Item(w) \o <<",">>]
           f == FlattenSeq(as)
           o == <<"(">> \o List(w, <<"value">>)
<1>2. Tuples(n, w) = f \o Item(w)
  <2>1. (m + 1) - 1 = m
    OBVIOUS
  <2> QED BY <1>1, <2>1 DEF Tuples, List, Separated, Concat, Item
<1>3. f \in Seq(Words)
  <2>1. Item(w) \o <<",">> \in Seq(Words)
    <3>1. <<",">> \in Seq(Words)
      BY DEF Words
    <3> QED BY <3>1, ItemType, Cat
  <2> DEFINE S == Seq(Words)
             p == Item(w) \o <<",">>
  <2>2. p \in S /\ IsListed(as, m) /\ \A i \in 1..m : as[i] = p
    BY <2>1 DEF IsListed
  <2> HIDE DEF as, p, S
  <2>3. \A i \in 1..m : as[i] \in S
    BY <2>2
  <2>4. as \in Seq(S)
    BY <2>2, <2>3, MakeSeq
  <2> QED BY <2>4, FlattenType DEF S
<1>4. o \in Seq(Words) /\ Item(w) = o \o <<")">>
  BY ItemType, SomeWords, Cat DEF Item
<1> HIDE DEF f, o
<1>5. f \o (o \o <<")">>) = (f \o o) \o <<")">> /\ f \o o \in Seq(Words)
  <2> DEFINE c == <<")">>
  <2>1. c \in Seq(Words)
    BY SomeWords
  <2> HIDE DEF c
  <2>2. f \o (o \o c) = (f \o o) \o c
    BY <1>3, <1>4, <2>1, WordsCat
  <2>3. f \o o \in Seq(Words)
    BY <1>3, <1>4, Cat
  <2> QED BY <2>2, <2>3 DEF c
<1> QED BY <1>2, <1>4, <1>5

\* The tail of an insertOrUpdate ends in VALUES.
LEMMA RenewalEnds ==
  /\ Renewal \in Seq(Words)
  /\ \E r \in Seq(Words) : Renewal = (r \o <<"VALUES">>) \o <<";">>
<1> DEFINE a == "ON DUPLICATE KEY UPDATE"
           b == "create_time"
           c == "VALUES"
           d == ","
           e == "update_time"
           g == ";"
           q == <<a, b, c, d, e>>
           r == (q \o <<c>>) \o <<g>>
           l == <<a, b, c, d, e, c, g>>
<1>0. a \in Words /\ b \in Words /\ c \in Words /\ d \in Words /\ e \in Words /\ g \in Words
  BY DEF Words
<1> HIDE DEF a, b, c, d, e, g
<1>1. r \in Seq(Words) /\ Len(r) = 7 /\ q \in Seq(Words)
  BY <1>0
<1>2. l \in Seq(Words) /\ Len(l) = 7
  BY <1>0
<1>3. \A i \in 1..7 : r[i] = l[i]
  BY <1>0
<1>5. l = Renewal
  BY DEF Renewal, a, b, c, d, e, g
<1>6. r = (q \o <<"VALUES">>) \o <<";">>
  BY DEF c, g
<1> HIDE DEF l, r
<1>4. l = r
  BY <1>1, <1>2, <1>3, SeqEqual
<1> QED BY <1>1, <1>2, <1>4, <1>5, <1>6

\* So an INSERT is never taken for an insertOrUpdate.
LEMMA InsertIsNoUpsert ==
  ASSUME NEW x \in Seq(Words), NEW n \in Nat \ {0}, NEW w \in Nat \ {0}
  PROVE  <<"INSERT">> \o Tuples(n, w) \o <<";">> # x \o Renewal
<1> DEFINE insert == <<"INSERT">>
           a == ")"
           b == "VALUES"
           c == ";"
           tuples == Tuples(n, w)
<1>1. insert \in Seq(Words) /\ a \in Words /\ b \in Words /\ c \in Words /\ a # b
  <2>1. insert \in Seq(Words)
    BY SomeWords
  <2>2. a \in Words /\ b \in Words /\ c \in Words /\ a # b
    BY DEF Words
  <2> QED BY <2>1, <2>2
<1>2. PICK y \in Seq(Words) : tuples = y \o <<a>>
  BY TuplesEnd
<1>3. Renewal \in Seq(Words)
  BY RenewalEnds
<1>4. PICK r \in Seq(Words) : Renewal = (r \o <<b>>) \o <<c>>
  BY RenewalEnds
<1> HIDE DEF insert, a, b, c, tuples
<1>5. insert \o (y \o <<a>>) = (insert \o y) \o <<a>> /\ insert \o y \in Seq(Words) /\ <<a>> \in Seq(Words)
  <2>1. <<a>> \in Seq(Words)
    BY <1>1
  <2> QED BY <1>1, <2>1, CatCat, Cat
<1>6. x \o ((r \o <<b>>) \o <<c>>) = ((x \o r) \o <<b>>) \o <<c>> /\ x \o r \in Seq(Words)
  <2> DEFINE d == <<b>>
             e == <<c>>
             s == r \o d
  <2>1. d \in Seq(Words) /\ e \in Seq(Words)
    BY <1>1
  <2> HIDE DEF d, e
  <2>2. x \o s = (x \o r) \o d
    BY <2>1, WordsCat
  <2>3. s \in Seq(Words) /\ x \o r \in Seq(Words)
    BY <2>1, Cat
  <2> HIDE DEF s
  <2>4. x \o (s \o e) = (x \o s) \o e
    BY <2>1, <2>3, WordsCat, SMTT(30)
  <2> QED BY <2>2, <2>3, <2>4 DEF d, e, s
<1>7. ASSUME (insert \o tuples) \o <<c>> = x \o Renewal PROVE FALSE
  <2> DEFINE s == insert \o y
             t == x \o r
  <2>1. s \in Seq(Words) /\ t \in Seq(Words) /\ (s \o <<a>>) \o <<c>> = (t \o <<b>>) \o <<c>>
    BY <1>2, <1>4, <1>5, <1>6, <1>7
  <2> HIDE DEF s, t
  <2>2. a = b
    BY <1>1, <2>1, LastOfTwo, ZenonT(30)
  <2> QED BY <1>1, <2>2
<1> QED BY <1>7 DEF insert, tuples, c

\* The words that tell a DELETE and the number of its columns.
LEMMA DeleteHead ==
  ASSUME NEW w \in Nat \ {0}, NEW n \in Nat \ {0}
  PROVE  /\ (<<"DELETE WHERE (">> \o List(w, <<"key">>) \o <<") IN (">> \o Tuples(n, w) \o <<") ;">>)[1]
              = "DELETE WHERE ("
         /\ (<<"DELETE WHERE (">> \o List(w, <<"key">>) \o <<") IN (">> \o Tuples(n, w) \o <<") ;">>)[2 * w + 1]
              = ") IN ("
<1>1. PICK m \in Nat : w = m + 1
  BY OneMore
<1> DEFINE as == [i \in 1..m |-> <<"key">> \o <<",">>]
           f == FlattenSeq(as)
           key == <<"key">>
           list == List(w, <<"key">>)
           d == <<"DELETE WHERE (">>
           in == <<") IN (">>
           t == Tuples(n, w)
           e == <<") ;">>
           delete == "DELETE WHERE ("
           inn == ") IN ("
<1>2. list = f \o key
  <2>1. (m + 1) - 1 = m
    OBVIOUS
  <2> QED BY <1>1, <2>1 DEF List, Separated, Concat
<1>3. /\ key \in Seq(Words) /\ Len(key) = 1 /\ d \in Seq(Words) /\ Len(d) = 1 /\ d[1] = delete
      /\ in \in Seq(Words) /\ Len(in) = 1 /\ in[1] = inn /\ e \in Seq(Words)
  BY DEF Words
<1>4. f \in Seq(Words) /\ Len(f) = 2 * m
  <2> DEFINE piece == <<"key">> \o <<",">>
             S == Seq(Words)
  <2>1. piece \in S /\ Len(piece) = 2
    BY DEF Words
  <2>2. IsListed(as, m) /\ \A i \in 1..m : as[i] = piece
    BY DEF IsListed
  <2> HIDE DEF as, piece, S
  <2>a. \A i \in 1..m : as[i] \in S
    BY <2>1, <2>2
  <2>3. as \in Seq(S) /\ Len(as) = m
    BY <2>2, <2>a, MakeSeq
  <2>4. PICK l \in Nat : l = 2
    OBVIOUS
  <2>5. \A i \in 1..Len(as) : Len(as[i]) = l
    BY <2>1, <2>2, <2>3, <2>4
  <2>6. as \in Seq(Seq(Words))
    BY <2>3 DEF S
  <2>7. Len(FlattenSeq(as)) = l * Len(as)
    BY <2>5, <2>6, FlattenUniform
  <2> QED BY <2>3, <2>4, <2>6, <2>7, FlattenType
<1>5. t \in Seq(Words)
  BY TuplesType
<1> HIDE DEF f, key, list, d, in, t, e, delete, inn
<1>6. list \in Seq(Words) /\ Len(list) = 2 * m + 1
  BY <1>2, <1>3, <1>4, Cat
<1> DEFINE g == d \o list
           h == g \o in
<1>7. g \in Seq(Words) /\ Len(g) = 2 * w /\ g[1] = delete
  <2>1. g \in Seq(Words) /\ Len(g) = Len(d) + Len(list)
    BY <1>3, <1>6, Cat
  <2>2. \A i \in 1..Len(d) : g[i] = d[i]
    BY <1>3, <1>6, Prefix
  <2> HIDE DEF g
  <2> QED BY <1>1, <1>3, <1>6, <2>1, <2>2
<1> HIDE DEF g
<1>8. h \in Seq(Words) /\ Len(h) = 2 * w + 1 /\ h[1] = delete /\ h[2 * w + 1] = inn
  <2>1. h \in Seq(Words) /\ Len(h) = Len(g) + Len(in)
    BY <1>3, <1>7, Cat
  <2>2. \A i \in 1..Len(g) : h[i] = g[i]
    BY <1>3, <1>7, Prefix
  <2>3. \A i \in 1..Len(in) : h[Len(g) + i] = in[i]
    <3>1. g \in Seq(Words) /\ in \in Seq(Words)
      BY <1>3, <1>7
    <3> QED BY <3>1, Suffix
  <2>4. 1 \in 1..Len(g) /\ 1 \in 1..Len(in)
    BY <1>3, <1>7
  <2> HIDE DEF h
  <2> QED BY <1>3, <1>7, <2>1, <2>2, <2>3, <2>4
<1> HIDE DEF h
<1>9. \A i \in 1..Len(h) : ((h \o t) \o e)[i] = h[i]
  BY <1>3, <1>5, <1>8, PrefixMore
<1>10. 1 \in 1..Len(h) /\ 2 * w + 1 \in 1..Len(h)
  BY <1>8
<1> QED BY <1>8, <1>9, <1>10 DEF g, h, d, list, in, t, e, delete, inn

\* A text is taken for one of five statements, by its words.
IsInsert(s, w) == \E n \in Counts : s = InsertShape[w][n]
IsUpsert(s, w) == \E n \in Counts : s = UpsertShape[w][n]
IsSingle(s, w) == \E l \in Assignable : s = SingleShape[w][l]
IsCase(s, w)   == \E n \in Counts : w = 1 /\ s = CaseShape[n]
IsDelete(s, w) == \E n \in Counts : s = DeleteShape[w][n]

\* The tables of shapes hold the shapes they are named for.
LEMMA ShapesAre ==
  ASSUME NEW w \in Widths, NEW n \in Counts
  PROVE  /\ InsertShape[w][n] = <<"INSERT">> \o Tuples(n, w + 2) \o <<";">>
         /\ UpsertShape[w][n] = <<"INSERT">> \o Tuples(n, w + 2) \o Renewal
         /\ CaseShape[n] = CaseAll(n)
         /\ DeleteShape[w][n]
              = <<"DELETE WHERE (">> \o List(w, <<"key">>) \o <<") IN (">> \o Tuples(n, w) \o <<") ;">>
<1>1. InsertShape[w][n] = <<"INSERT">> \o Tuples(n, w + 2) \o <<";">>
  BY DEF InsertShape
<1>2. UpsertShape[w][n] = <<"INSERT">> \o Tuples(n, w + 2) \o Renewal
  BY DEF UpsertShape, Renewal
<1>3. CaseShape[n] = CaseAll(n)
  BY DEF CaseShape, CaseAll, CaseSet, When
<1>4. DeleteShape[w][n]
        = <<"DELETE WHERE (">> \o List(w, <<"key">>) \o <<") IN (">> \o Tuples(n, w) \o <<") ;">>
  BY DEF DeleteShape
<1> QED BY <1>1, <1>2, <1>3, <1>4

\* The same for an UPDATE of one row.
LEMMA SingleIs ==
  ASSUME NEW w \in Widths, NEW l \in Assignable
  PROVE  SingleShape[w][l] = SingleWords(w, l)
  BY DEF SingleShape, SingleWords, AssignShape

\* The first words of a text tell which call it is.
LEMMA Kinds ==
  ASSUME NEW w \in Widths, NEW s
  PROVE  /\ IsInsert(s, w) => s[1] = "INSERT" /\ ~IsUpsert(s, w)
         /\ IsUpsert(s, w) => s[1] = "INSERT"
         /\ IsSingle(s, w) => s[1] = "UPDATE" /\ s[3] = "="
         /\ IsCase(s, w)   => s[1] = "UPDATE" /\ s[3] = "= CASE"
         /\ IsDelete(s, w) => s[1] = "DELETE WHERE (" /\ s[2 * w + 1] = ") IN ("
<1>1. w \in Nat \ {0} /\ w + 2 \in Nat \ {0} /\ \A n \in Counts : n \in Nat \ {0}
  BY SizesType
<1>2. ASSUME NEW n \in Counts, NEW e \in Seq(Words)
      PROVE  (<<"INSERT">> \o Tuples(n, w + 2) \o e)[1] = "INSERT"
  <2> DEFINE i == <<"INSERT">>
             t == Tuples(n, w + 2)
             insert == "INSERT"
  <2>1. i \in Seq(Words) /\ Len(i) = 1 /\ i[1] = insert
    BY SomeWords
  <2>2. t \in Seq(Words)
    BY <1>1, TuplesType
  <2> HIDE DEF i, t, insert
  <2>3. \A j \in 1..Len(i) : ((i \o t) \o e)[j] = i[j]
    <3>1. i \in Seq(Words)
      BY <2>1
    <3> QED BY <2>2, <3>1, PrefixMore
  <2>4. 1 \in 1..Len(i)
    BY <2>1
  <2>5. ((i \o t) \o e)[1] = insert
    BY <2>1, <2>3, <2>4
  <2> QED BY <2>5 DEF i, t, insert
<1>3. ASSUME IsInsert(s, w) PROVE s[1] = "INSERT" /\ ~IsUpsert(s, w)
  <2>1. PICK n \in Counts : s = <<"INSERT">> \o Tuples(n, w + 2) \o <<";">>
    BY <1>3, ShapesAre DEF IsInsert
  <2>2. s[1] = "INSERT"
    BY <1>2, <2>1, SomeWords
  <2>3. ASSUME IsUpsert(s, w) PROVE FALSE
    <3>1. PICK m \in Counts : s = <<"INSERT">> \o Tuples(m, w + 2) \o Renewal
      BY <2>3, ShapesAre DEF IsUpsert
    <3> DEFINE x == <<"INSERT">> \o Tuples(m, w + 2)
    <3>2. x \in Seq(Words) /\ s = x \o Renewal
      BY <1>1, <3>1, TuplesType, SomeWords, Cat
    <3> HIDE DEF x
    <3> QED BY <1>1, <2>1, <3>2, InsertIsNoUpsert
  <2> QED BY <2>2, <2>3
<1>4. ASSUME IsUpsert(s, w) PROVE s[1] = "INSERT"
  <2>1. PICK n \in Counts : s = <<"INSERT">> \o Tuples(n, w + 2) \o Renewal
    BY <1>4, ShapesAre DEF IsUpsert
  <2> QED BY <1>2, <2>1, RenewalEnds
<1>5. ASSUME IsSingle(s, w) PROVE s[1] = "UPDATE" /\ s[3] = "="
  <2>1. PICK l \in Assignable : s = SingleShape[w][l]
    BY <1>5 DEF IsSingle
  <2>2. s = SingleWords(w, l)
    BY <2>1, SingleIs
  <2> QED BY <1>1, <2>2, SingleHead
<1>6. ASSUME IsCase(s, w) PROVE s[1] = "UPDATE" /\ s[3] = "= CASE"
  <2>1. PICK n \in Counts : s = CaseShape[n]
    BY <1>6 DEF IsCase
  <2>2. s = CaseAll(n)
    BY <2>1, ShapesAre
  <2>3. n \in Nat \ {0}
    BY <1>1
  <2> QED BY <2>2, <2>3, CaseHead
<1>7. ASSUME IsDelete(s, w) PROVE s[1] = "DELETE WHERE (" /\ s[2 * w + 1] = ") IN ("
  <2>1. PICK n \in Counts :
          s = <<"DELETE WHERE (">> \o List(w, <<"key">>) \o <<") IN (">> \o Tuples(n, w) \o <<") ;">>
    BY <1>7, ShapesAre DEF IsDelete
  <2> QED BY <1>1, <2>1, DeleteHead
<1> QED BY <1>3, <1>4, <1>5, <1>6, <1>7

\* What the server reads, by the kind.
LEMMA ReadIs ==
  ASSUME NEW w \in Widths, NEW text, NEW s, NEW v, Reads(text, s, v)
  PROVE  /\ IsInsert(s, w) => Read(text, w) = [op |-> "insert", rows |-> InsertRows(v, w)]
         /\ IsUpsert(s, w) => Read(text, w) = [op |-> "upsert", rows |-> InsertRows(v, w)]
         /\ \A l \in Assignable : s = SingleShape[w][l] =>
              Read(text, w) = [op |-> "update", rows |-> SingleRow(v, l)]
         /\ s = CaseOne /\ w = 1 /\ 1 \in Counts =>
              Read(text, w) = [op |-> "update", rows |-> CaseRows(v, 1)]
         /\ ~IsInsert(s, w) /\ ~IsUpsert(s, w) /\ ~IsSingle(s, w) /\ ~IsCase(s, w) /\ ~IsDelete(s, w)
              => Read(text, w) = Refused
<1> DEFINE single == CHOOSE l \in Assignable : s = SingleShape[w][l]
           case   == CHOOSE n \in Counts : w = 1 /\ s = CaseShape[n]
<1>1. Read(text, w) =
        CASE IsInsert(s, w) -> [op |-> "insert", rows |-> InsertRows(v, w)]
          [] IsUpsert(s, w) -> [op |-> "upsert", rows |-> InsertRows(v, w)]
          [] IsSingle(s, w) -> [op |-> "update", rows |-> SingleRow(v, single)]
          [] IsCase(s, w) -> [op |-> "update", rows |-> CaseRows(v, case)]
          [] IsDelete(s, w) -> [op |-> "delete", rows |-> DeletedRows(v, w)]
          [] OTHER -> Refused
  BY Zenon DEF Reads, Read, IsInsert, IsUpsert, IsSingle, IsCase, IsDelete
<1> HIDE DEF single, case
<1>2. /\ "INSERT" # "UPDATE" /\ "INSERT" # "DELETE WHERE (" /\ "UPDATE" # "DELETE WHERE ("
      /\ "=" # "= CASE"
  OBVIOUS
<1> DEFINE a == IsInsert(s, w)
           b == IsUpsert(s, w)
           c == IsSingle(s, w)
           d == IsCase(s, w)
           e == IsDelete(s, w)
<1>3. (a => ~b /\ ~c /\ ~d /\ ~e) /\ (b => ~a /\ ~c /\ ~d /\ ~e) /\ (c => ~a /\ ~b /\ ~d /\ ~e) /\ (d => ~a /\ ~b /\ ~c /\ ~e)
  BY <1>2, Kinds
<1> HIDE DEF a, b, c, d, e
<1>4. Read(text, w) =
        CASE a -> [op |-> "insert", rows |-> InsertRows(v, w)]
          [] b -> [op |-> "upsert", rows |-> InsertRows(v, w)]
          [] c -> [op |-> "update", rows |-> SingleRow(v, single)]
          [] d -> [op |-> "update", rows |-> CaseRows(v, case)]
          [] e -> [op |-> "delete", rows |-> DeletedRows(v, w)]
          [] OTHER -> Refused
  BY <1>1 DEF a, b, c, d, e
<1>5. /\ a => Read(text, w) = [op |-> "insert", rows |-> InsertRows(v, w)]
      /\ b => Read(text, w) = [op |-> "upsert", rows |-> InsertRows(v, w)]
      /\ c => Read(text, w) = [op |-> "update", rows |-> SingleRow(v, single)]
      /\ d => Read(text, w) = [op |-> "update", rows |-> CaseRows(v, case)]
      /\ ~a /\ ~b /\ ~c /\ ~d /\ ~e => Read(text, w) = Refused
  BY <1>3, <1>4
<1>6. ASSUME NEW l \in Assignable, s = SingleShape[w][l]
      PROVE  c /\ single = l
  <2>1. \A k \in Assignable : s = SingleShape[w][k] => k = l
    <3>1. w \in Nat \ {0}
      BY SizesType
    <3>2. s = SingleWords(w, l)
      BY <1>6, SingleIs
    <3>3. ASSUME NEW k \in Assignable, s = SingleShape[w][k] PROVE k = l
      <4>1. SingleWords(w, l) = SingleWords(w, k)
        BY <3>2, <3>3, SingleIs
      <4> QED BY <3>1, <4>1, OneAssignable
    <3> QED BY <3>3
  <2> QED BY <1>6, <2>1 DEF c, IsSingle, single
<1>7. ASSUME s = CaseOne, w = 1, 1 \in Counts
      PROVE  d /\ case = 1
  <2>1. s = CaseShape[1]
    <3>1. CaseShape[1] = CaseAll(1)
      BY <1>7, ShapesAre
    <3>2. CaseAll(1) = CaseOne
      <4>1. 1 \in Nat \ {0}
        OBVIOUS
      <4> QED BY <4>1, CaseHead
    <3> QED BY <1>7, <3>1, <3>2
  <2>2. ASSUME NEW n \in Counts, s = CaseShape[n] PROVE n = 1
    <3>1. n \in Nat \ {0} /\ s = CaseAll(n)
      BY <2>2, SizesType, ShapesAre
    <3>2. n >= 2 => s[9] = "WHEN ("
      BY <3>1, CaseHead
    <3>3. s[9] = "END"
      <4> DEFINE u == <<"UPDATE">>
                 set == CaseWords("create_time")
                 c1 == <<",">>
                 s2 == CaseWords("update_time")
                 k == <<"WHERE (", "keys", ") IN (">>
                 t == Tuples(1, 1)
                 f == <<")">>
                 h == u \o set
                 g == (h \o c1) \o s2
                 i == (g \o k) \o t
                 end == "END"
      <4>1. s = i \o f
        BY <1>7 DEF CaseOne
      <4>2. /\ u \in Seq(Words) /\ Len(u) = 1 /\ c1 \in Seq(Words)
            /\ k \in Seq(Words) /\ f \in Seq(Words)
        BY DEF Words
      <4>3. set \in Seq(Words) /\ Len(set) = 8 /\ set[8] = end /\ s2 \in Seq(Words)
        BY SetWordsOne
      <4>4. t \in Seq(Words)
        BY TuplesType
      <4> HIDE DEF u, set, c1, s2, k, t, f, end
      <4>5. h \in Seq(Words) /\ Len(h) = 9 /\ h[9] = end
        <5>1. h \in Seq(Words) /\ Len(h) = Len(u) + Len(set)
          BY <4>2, <4>3, Cat
        <5>2. \A j \in 1..Len(set) : h[Len(u) + j] = set[j]
          <6>1. u \in Seq(Words) /\ set \in Seq(Words)
            BY <4>2, <4>3
          <6> QED BY <6>1, Suffix
        <5>3. 8 \in 1..Len(set) /\ Len(u) + 8 = 9
          BY <4>2, <4>3
        <5> HIDE DEF h
        <5> QED BY <4>2, <4>3, <5>1, <5>2, <5>3
      <4> HIDE DEF h
      <4>6. g \in Seq(Words) /\ Len(g) = Len(h) + Len(c1) + Len(s2) /\ \A j \in 1..Len(h) : g[j] = h[j]
        <5>1. h \in Seq(Words)
          BY <4>5
        <5> QED BY <4>2, <4>3, <5>1, PrefixMore
      <4> HIDE DEF g
      <4>7. i \in Seq(Words) /\ Len(i) = Len(g) + Len(k) + Len(t) /\ \A j \in 1..Len(g) : i[j] = g[j]
        <5>1. g \in Seq(Words)
          BY <4>6
        <5> QED BY <4>2, <4>4, <5>1, PrefixMore
      <4> HIDE DEF i
      <4>8. 9 \in 1..Len(h) /\ 9 \in 1..Len(g) /\ 9 \in 1..Len(i)
        <5>1. Len(c1) \in Nat /\ Len(s2) \in Nat /\ Len(k) \in Nat /\ Len(t) \in Nat
          BY <4>2, <4>3, <4>4
        <5> QED BY <4>5, <4>6, <4>7, <5>1
      <4>9. \A j \in 1..Len(i) : (i \o f)[j] = i[j]
        <5>1. i \in Seq(Words)
          BY <4>7
        <5> QED BY <4>2, <5>1, Prefix
      <4> QED BY <4>1, <4>5, <4>6, <4>7, <4>8, <4>9 DEF end
    <3>4. "END" # "WHEN ("
      OBVIOUS
    <3> QED BY <3>1, <3>2, <3>3, <3>4
  <2> QED BY <1>7, <2>1, <2>2 DEF d, IsCase, case
<1> QED BY <1>5, <1>6, <1>7 DEF a, b, c, d, e

\* Reading an INSERT or an insertOrUpdate gives the call that generated it.
LEMMA ReadInsert ==
  ASSUME NEW w \in Widths, NEW models, AreModels(models, w), Len(models) \in Counts
  PROVE  /\ Read(InsertModelSql(models), w)
              = [op |-> "insert", rows |-> InsertRows(AllFields(models), w)]
         /\ Read(InsertOrUpdateModelSql(models), w)
              = [op |-> "upsert", rows |-> InsertRows(AllFields(models), w)]
<1> DEFINE n == Len(models)
           s == <<"INSERT">> \o Tuples(n, w + 2) \o <<";">>
           t == <<"INSERT">> \o Tuples(n, w + 2) \o Renewal
<1>1. w \in Nat
  BY SizesType
<1>2. IsInsert(s, w) /\ IsUpsert(t, w)
  BY ShapesAre DEF IsInsert, IsUpsert
<1>3. Reads(InsertModelSql(models), s, AllFields(models))
  BY <1>1, ReadsInsert
<1>4. Reads(InsertOrUpdateModelSql(models), t, AllFields(models))
  BY <1>1, ReadsInsertOrUpdate
<1> HIDE DEF n, s, t
<1>5. Read(InsertModelSql(models), w) = [op |-> "insert", rows |-> InsertRows(AllFields(models), w)]
  BY <1>2, <1>3, ReadIs
<1>6. Read(InsertOrUpdateModelSql(models), w) = [op |-> "upsert", rows |-> InsertRows(AllFields(models), w)]
  BY <1>2, <1>4, ReadIs
<1> QED BY <1>5, <1>6

\* A text that starts with another.
Starts(x, s) == \E r \in Seq(Token) : x = s \o r

\* A text that starts with s still does with more after it.
LEMMA StartsMore ==
  ASSUME NEW x, NEW s \in Seq(Token), NEW t \in Seq(Token), Starts(x, s)
  PROVE  Starts(x \o t, s)
<1>1. PICK r \in Seq(Token) : x = s \o r
  BY DEF Starts
<1> DEFINE e == r \o t
<1>2. e \in Seq(Token)
  BY Cat
<1>3. (s \o r) \o t = s \o e
  BY CatCat
<1>4. x \o t = s \o e
  BY <1>1, <1>3
<1> HIDE DEF e
<1> QED BY <1>2, <1>4 DEF Starts

\* The same words before both keep one a start of the other.
LEMMA StartsFront ==
  ASSUME NEW x, NEW s \in Seq(Token), NEW u \in Seq(Token), Starts(x, s)
  PROVE  Starts(u \o x, u \o s)
<1>1. PICK r \in Seq(Token) : x = s \o r
  BY DEF Starts
<1>2. (u \o s) \o r = u \o (s \o r)
  BY CatCat
<1>3. u \o x = (u \o s) \o r
  BY <1>1, <1>2
<1> DEFINE y == u \o s
<1>4. u \o x = y \o r
  BY <1>3
<1> HIDE DEF y
<1>5. Starts(u \o x, y)
  BY <1>4 DEF Starts
<1> QED BY <1>5 DEF y

\* All pieces flattened start with the first of them flattened.
LEMMA StartsFirst ==
  ASSUME NEW m \in Nat, NEW n \in Nat, NEW ps \in Seq(Seq(Token)), Len(ps) = m + n
  PROVE  Starts(FlattenSeq(ps), FlattenSeq(First(m, ps)))
BY FlattenSplit DEF Starts

\* An UPDATE by DbManager's loops starts with the first model's creation time,
\* and with two models goes on with the second's.
LEMMA UpdateStarts ==
  ASSUME NEW w \in Nat \ {0}, NEW models, AreModels(models, w)
  PROVE  /\ Starts(UpdateModelSql(models), <<Word("UPDATE")>> \o SetCase(models[1], 1))
         /\ Len(models) > 1 => Starts(UpdateModelSql(models),
              <<Word("UPDATE")>> \o (SetCase(models[1], 1) \o SetCase(models[2], 1)))
<1> DEFINE n  == Len(models)
           s1 == <<Word("UPDATE")>>
           s2 == FlattenSeq(SetPieces(models))
           s3 == <<Word("WHERE ("), Word("keys"), Word(") IN (")>>
           s4 == FlattenSeq(BracketPieces(models))
           s5 == <<Word(")")>>
           ps == ColumnPieces(models, 1)
           qs == FlattenSeq(ColumnPieces(models, 2))
           x1 == SetCase(models[1], 1)
           x2 == SetCase(models[2], 1)
<1>1. n \in Nat \ {0}
  BY DEF AreModels
<1>2. UpdateModelSql(models) = (((s1 \o s2) \o s3) \o s4) \o s5
  BY UpdateIs
<1>3. s1 \in Seq(Token) /\ s3 \in Seq(Token) /\ s5 \in Seq(Token)
  BY ReadsBrackets, ReadsType
<1>4. /\ ps \in Seq(Seq(Token)) /\ Len(ps) = n /\ \A i \in 1..n : ps[i] = SetCase(models[i], 1)
      /\ ColumnPieces(models, 2) \in Seq(Seq(Token))
  <2>1. 1 \in 1..2 /\ 2 \in 1..2
    OBVIOUS
  <2> QED BY <2>1, UpdateTypes
<1>5. /\ SetPieces(models) \in Seq(Seq(Token)) /\ Len(SetPieces(models)) = 2
      /\ SetPieces(models)[1] = FlattenSeq(ps) /\ SetPieces(models)[2] = qs
      /\ BracketPieces(models) \in Seq(Seq(Token))
  <2>1. 1 \in 1..2 /\ 2 \in 1..2
    OBVIOUS
  <2> QED BY <2>1, UpdateTypes
<1>6. s2 = FlattenSeq(ps) \o qs
  BY <1>5, FlattenTwo
<1>7. qs \in Seq(Token) /\ s4 \in Seq(Token)
  BY <1>4, <1>5, FlattenType
<1>8. ASSUME NEW f \in Seq(Token), Starts(FlattenSeq(ps), f)
      PROVE  Starts(UpdateModelSql(models), s1 \o f)
  <2> HIDE DEF s1, s2, s3, s4, s5, qs, ps
  <2> DEFINE b == s1 \o f
  <2>1. b \in Seq(Token)
    BY <1>3, Cat
  <2>2. Starts(s2, f)
    BY <1>6, <1>7, <1>8, StartsMore
  <2>3. Starts(s1 \o s2, b)
    BY <1>3, <2>2, StartsFront
  <2> HIDE DEF b
  <2>4. Starts((s1 \o s2) \o s3, b)
    BY <1>3, <2>1, <2>3, StartsMore
  <2>5. Starts(((s1 \o s2) \o s3) \o s4, b)
    BY <1>7, <2>1, <2>4, StartsMore
  <2>6. Starts((((s1 \o s2) \o s3) \o s4) \o s5, b)
    BY <1>3, <2>1, <2>5, StartsMore
  <2> QED BY <1>2, <2>6 DEF b
<1>9. \A i \in 1..n : SetCase(models[i], 1) \in Seq(Token)
  <2>1. \A i \in 1..n : IsModel(models[i]) /\ 1 \in 1..2
    BY DEF AreModels
  <2> QED BY <2>1, ReadsSetCase, ReadsType
<1>10. x1 \in Seq(Token) /\ ps[1] = x1 /\ (n > 1 => x2 \in Seq(Token) /\ ps[2] = x2)
  <2>1. 1 \in 1..n /\ (n > 1 => 2 \in 1..n)
    BY <1>1
  <2> QED BY <1>4, <1>9, <2>1
<1>0. ps \in Seq(Seq(Token)) /\ Len(ps) = n
  BY <1>4
<1> HIDE DEF s1, s2, s3, s4, s5, qs, ps, n, x1, x2
<1>11. Starts(FlattenSeq(ps), x1)
  <2> DEFINE m == n - 1
             j == 1
             q == First(j, ps)
  <2>1. m \in Nat /\ j \in Nat /\ Len(ps) = j + m
    BY <1>0, <1>1
  <2>2. Len(q) = 1 /\ q[1] = ps[1]
    <3>1. IsListed(q, 1) /\ q[1] = ps[1]
      BY DEF First, IsListed
    <3> HIDE DEF q
    <3> QED BY <3>1, LenListed
  <2>3. FlattenSeq(q) = x1
    <3> HIDE DEF q
    <3> QED BY <1>10, <2>2, FlattenOne
  <2>4. ps \in Seq(Seq(Token))
    BY <1>0
  <2> HIDE DEF m, j
  <2>5. Starts(FlattenSeq(ps), FlattenSeq(q))
    BY <2>1, <2>4, StartsFirst
  <2> QED BY <2>3, <2>5
<1>12. ASSUME n > 1
       PROVE  Starts(FlattenSeq(ps), x1 \o x2)
  <2> DEFINE m == n - 2
             j == 2
             q == First(j, ps)
  <2>1. m \in Nat /\ j \in Nat /\ Len(ps) = j + m
    BY <1>0, <1>1, <1>12
  <2>3. IsListed(q, 2) /\ q[1] = x1 /\ q[2] = x2
    BY <1>10, <1>12 DEF First, IsListed
  <2>4. \A i \in 1..2 : i = 1 \/ i = 2
    OBVIOUS
  <2> DEFINE S == Seq(Token)
  <2>5. x1 \in S /\ x2 \in S
    BY <1>10, <1>12
  <2>9. ps \in Seq(Seq(Token))
    BY <1>0
  <2>7. q \in Seq(S) /\ Len(q) = 2
    <3> HIDE DEF S, q
    <3>1. \A i \in 1..2 : q[i] \in S
      BY <2>3, <2>4, <2>5
    <3>2. 2 \in Nat
      OBVIOUS
    <3> QED BY <2>3, <3>1, <3>2, MakeSeq
  <2>8. FlattenSeq(q) = x1 \o x2
    <3> HIDE DEF q
    <3> QED BY <2>3, <2>7, FlattenTwo DEF S
  <2> HIDE DEF m, j, S
  <2>10. Starts(FlattenSeq(ps), FlattenSeq(q))
    BY <2>1, <2>9, StartsFirst
  <2> QED BY <2>8, <2>10
<1>13. Starts(UpdateModelSql(models), s1 \o x1)
  BY <1>8, <1>10, <1>11
<1>14. ASSUME n > 1
       PROVE  Starts(UpdateModelSql(models), s1 \o (x1 \o x2))
  <2> DEFINE x == x1 \o x2
  <2>1. x \in Seq(Token)
    BY <1>10, <1>14, Cat
  <2>2. Starts(FlattenSeq(ps), x)
    BY <1>12, <1>14
  <2> HIDE DEF x
  <2>3. Starts(UpdateModelSql(models), s1 \o x)
    BY <1>8, <2>1, <2>2
  <2> QED BY <2>3 DEF x
<1> QED BY <1>13, <1>14 DEF n, s1, x1, x2

\* A text that starts with s has the shape of s at its start.
LEMMA StartsShape ==
  ASSUME NEW x, NEW s, NEW a, NEW v, Reads(s, a, v), Starts(x, s)
  PROVE  /\ Reads(x, Shape(x), Values(x))
         /\ \A i \in 1..Len(a) : Shape(x)[i] = a[i]
<1>1. PICK r \in Seq(Token) : x = s \o r
  BY DEF Starts
<1>2. s \in Seq(Token) /\ a \in Seq(Words) /\ Shape(s) = a
  BY DEF Reads
<1>3. x \in Seq(Token)
  BY <1>1, <1>2, Cat
<1>4. Shape(r) \in Seq(Words) /\ Shape(x) = a \o Shape(r)
  BY <1>1, <1>2, ShapeCat
<1>5. \A i \in 1..Len(a) : (a \o Shape(r))[i] = a[i]
  <2>1. a \in Seq(Words) /\ Shape(r) \in Seq(Words)
    BY <1>2, <1>4
  <2> HIDE DEF Shape
  <2> QED BY <2>1, Prefix
<1>6. Shape(x) \in Seq(Words)
  BY <1>3, ShapeCat
<1> QED BY <1>3, <1>4, <1>5, <1>6, ValuesType DEF Reads

\* Where it says that it is a CASE.
LEMMA SetWordsHead ==
  ASSUME NEW w \in Nat \ {0}
  PROVE  SetWords(w, 1) \in Seq(Words) /\ Len(SetWords(w, 1)) >= 3 /\ SetWords(w, 1)[2] = "= CASE"
<1> DEFINE case == "= CASE"
           h == <<"create_time", "= CASE", "WHEN (">>
           l == List(w, <<"key =", "value">>)
           e == <<") THEN", "value", "END">>
           c == <<",">>
<1>1. SetWords(w, 1) = ((h \o l) \o e) \o c
  BY ColumnsAre DEF SetWords
<1>2. /\ h \in Seq(Words) /\ Len(h) = 3 /\ h[2] = case
      /\ e \in Seq(Words) /\ c \in Seq(Words)
  BY DEF Words
<1>3. l \in Seq(Words)
  <2>1. PICK m \in Nat : w = m + 1
    BY OneMore
  <2>2. <<"key =", "value">> \in Seq(Words) /\ "," \in Words
    BY DEF Words
  <2> DEFINE k == <<"key =", "value">>
             d == ","
  <2>3. l = Separated(m + 1, k, d)
    BY <2>1 DEF List
  <2>4. k \in Seq(Words) /\ d \in Words
    BY <2>2
  <2> HIDE DEF k, d, l
  <2>5. Separated(m + 1, k, d) \in Seq(Words)
    BY <2>4, SeparatedType
  <2> QED BY <2>3, <2>5
<1> HIDE DEF case, h, l, e, c
<1> DEFINE x == (h \o l) \o e
<1>4. x \in Seq(Words) /\ Len(x) = Len(h) + Len(l) + Len(e) /\ \A i \in 1..Len(h) : x[i] = h[i]
  <2>1. h \in Seq(Words) /\ l \in Seq(Words) /\ e \in Seq(Words)
    BY <1>2, <1>3
  <2> QED BY <2>1, PrefixMore
<1> HIDE DEF x
<1>5. x \o c \in Seq(Words) /\ Len(x \o c) = Len(x) + Len(c)
  BY <1>2, <1>4, Cat
<1>6. \A i \in 1..Len(x) : (x \o c)[i] = x[i]
  <2>1. x \in Seq(Words) /\ c \in Seq(Words)
    BY <1>2, <1>4
  <2> QED BY <2>1, Prefix
<1>7. 2 \in 1..Len(h) /\ 2 \in 1..Len(x) /\ Len(x) + Len(c) >= 3
  BY <1>2, <1>3, <1>4
<1> QED BY <1>1, <1>2, <1>4, <1>5, <1>6, <1>7 DEF x, case

\* The eleventh word of an accepted CASE of one row.
LEMMA CaseOneMore == CaseOne[11] = "update_time"
<1> DEFINE u == <<"UPDATE">>
           a == CaseWords("create_time")
           c == <<",">>
           b == CaseWords("update_time")
           k == <<"WHERE (", "keys", ") IN (">>
           t == Tuples(1, 1)
           f == <<")">>
           name == "update_time"
<1>1. CaseOne = (((((u \o a) \o c) \o b) \o k) \o t) \o f
  BY DEF CaseOne
<1>2. /\ u \in Seq(Words) /\ Len(u) = 1 /\ c \in Seq(Words) /\ Len(c) = 1
      /\ k \in Seq(Words) /\ f \in Seq(Words)
  BY DEF Words
<1>3. a \in Seq(Words) /\ Len(a) = 8 /\ b \in Seq(Words) /\ Len(b) = 8 /\ b[1] = name
  BY SetWordsOne
<1>4. t \in Seq(Words)
  <2>1. 1 \in Nat \ {0}
    OBVIOUS
  <2> QED BY <2>1, TuplesType
<1> HIDE DEF u, a, c, b, k, t, f, name
<1> DEFINE g == (u \o a) \o c
           h == g \o b
           i == (h \o k) \o t
<1>5. g \in Seq(Words) /\ Len(g) = 10
  <2>a. u \in Seq(Words) /\ a \in Seq(Words) /\ c \in Seq(Words)
    BY <1>2, <1>3
  <2>1. g \in Seq(Words) /\ Len(g) = Len(u) + Len(a) + Len(c)
    BY <2>a, PrefixMore
  <2> QED BY <1>2, <1>3, <2>1
<1> HIDE DEF g
<1>6. h \in Seq(Words) /\ Len(h) = 18 /\ h[11] = name
  <2>1. h \in Seq(Words) /\ Len(h) = Len(g) + Len(b)
    BY <1>3, <1>5, Cat
  <2>2. \A j \in 1..Len(b) : h[Len(g) + j] = b[j]
    <3>1. g \in Seq(Words) /\ b \in Seq(Words)
      BY <1>3, <1>5
    <3> QED BY <3>1, Suffix
  <2>3. 1 \in 1..Len(b) /\ Len(g) + 1 = 11
    BY <1>3, <1>5
  <2> HIDE DEF h
  <2> QED BY <1>3, <1>5, <2>1, <2>2, <2>3
<1> HIDE DEF h
<1>7. i \in Seq(Words) /\ Len(i) = Len(h) + Len(k) + Len(t) /\ \A j \in 1..Len(h) : i[j] = h[j]
  <2>1. h \in Seq(Words)
    BY <1>6
  <2> QED BY <1>2, <1>4, <2>1, PrefixMore
<1> HIDE DEF i
<1>8. \A j \in 1..Len(i) : (i \o f)[j] = i[j]
  <2>1. i \in Seq(Words)
    BY <1>7
  <2> QED BY <1>2, <2>1, Prefix
<1>9. 11 \in 1..Len(h) /\ 11 \in 1..Len(i)
  <2>1. Len(k) \in Nat /\ Len(t) \in Nat
    BY <1>2, <1>4
  <2> QED BY <1>6, <1>7, <2>1
<1> QED BY <1>1, <1>6, <1>7, <1>8, <1>9 DEF g, h, i, name

\* That word where updateModelSql writes two models: the first column again.
LEMMA CaseTwice ==
  LET y == SetWords(1, 1) \o SetWords(1, 1) IN
  /\ y \in Seq(Words) /\ Len(<<"UPDATE">> \o y) = 19
  /\ (<<"UPDATE">> \o y)[9] = "END" /\ (<<"UPDATE">> \o y)[11] = "create_time"
<1> DEFINE u == <<"UPDATE">>
           a == CaseWords("create_time")
           c == <<",">>
           x == a \o c
           y == x \o x
           end == "END"
           name == "create_time"
<1>1. SetWords(1, 1) = x
  BY SetWordsOne
<1>2. u \in Seq(Words) /\ Len(u) = 1 /\ c \in Seq(Words) /\ Len(c) = 1
  BY DEF Words
<1>3. a \in Seq(Words) /\ Len(a) = 8 /\ a[1] = name /\ a[8] = end
  BY SetWordsOne
<1> HIDE DEF u, a, c, end, name
<1>4. x \in Seq(Words) /\ Len(x) = 9 /\ x[1] = name /\ x[8] = end
  <2>1. x \in Seq(Words) /\ Len(x) = Len(a) + Len(c)
    BY <1>2, <1>3, Cat
  <2>2. \A i \in 1..Len(a) : x[i] = a[i]
    <3>1. a \in Seq(Words) /\ c \in Seq(Words)
      BY <1>2, <1>3
    <3> QED BY <3>1, Prefix
  <2>3. 1 \in 1..Len(a) /\ 8 \in 1..Len(a)
    BY <1>3
  <2> HIDE DEF x
  <2> QED BY <1>2, <1>3, <2>1, <2>2, <2>3
<1> HIDE DEF x
<1>5. y \in Seq(Words) /\ Len(y) = 18 /\ y[8] = end /\ y[10] = name
  <2>1. y \in Seq(Words) /\ Len(y) = Len(x) + Len(x)
    BY <1>4, Cat
  <2>a. x \in Seq(Words)
    BY <1>4
  <2>2. \A i \in 1..Len(x) : y[i] = x[i]
    BY <2>a, Prefix
  <2>3. \A i \in 1..Len(x) : y[Len(x) + i] = x[i]
    BY <2>a, Suffix
  <2>4. 1 \in 1..Len(x) /\ 8 \in 1..Len(x) /\ Len(x) + 1 = 10
    BY <1>4
  <2> HIDE DEF y
  <2> QED BY <1>4, <2>1, <2>2, <2>3, <2>4
<1> HIDE DEF y
<1>6. u \o y \in Seq(Words) /\ Len(u \o y) = Len(u) + Len(y)
  BY <1>2, <1>5, Cat
<1>7. \A i \in 1..Len(y) : (u \o y)[Len(u) + i] = y[i]
  <2>1. u \in Seq(Words) /\ y \in Seq(Words)
    BY <1>2, <1>5
  <2> QED BY <2>1, Suffix
<1>8. 8 \in 1..Len(y) /\ 10 \in 1..Len(y) /\ Len(u) + 8 = 9 /\ Len(u) + 10 = 11
  BY <1>2, <1>5
<1>9. (u \o y)[9] = end /\ (u \o y)[11] = name
  BY <1>5, <1>7, <1>8
<1>10. y \in Seq(Words) /\ Len(u \o y) = 19
  BY <1>2, <1>5, <1>6
<1> QED BY <1>1, <1>9, <1>10 DEF u, end, name, y

\* An UPDATE by DbManager's loops of several models, or of a model with a key
\* of several columns, is no statement to the server: it names the column again
\* before every model, and compares a list of columns (db_manager.h:435, :471).
LEMMA UpdateRefused ==
  ASSUME NEW w \in Widths, NEW models, AreModels(models, w), Len(models) > 1 \/ w > 1
  PROVE  Read(UpdateModelSql(models), w) = Refused
<1> DEFINE text == UpdateModelSql(models)
           shape == Shape(text)
           u == <<Word("UPDATE")>>
           x1 == SetCase(models[1], 1)
           x2 == SetCase(models[2], 1)
<1>1. w \in Nat \ {0}
  BY SizesType
<1>2. Reads(u, <<"UPDATE">>, <<>>)
  BY ReadsBrackets
<1>3. \A i \in 1..Len(models) : \E v : Reads(SetCase(models[i], 1), SetWords(w, 1), v)
  <2>1. \A i \in 1..Len(models) : IsModel(models[i]) /\ Len(models[i].key) = w /\ 1 \in 1..2
    BY DEF AreModels
  <2> QED BY <2>1, ReadsSetCase
<1>4. Len(models) \in Nat \ {0}
  BY DEF AreModels
<1>5. \E v : Reads(x1, SetWords(w, 1), v)
  BY <1>3, <1>4
<1>6. Reads(text, shape, Values(text)) /\ shape[1] = "UPDATE" /\ shape[3] = "= CASE"
  <2> DEFINE y == SetWords(w, 1)
             up == "UPDATE"
             upp == <<"UPDATE">>
             case == "= CASE"
  <2>1. PICK v : Reads(x1, y, v)
    BY <1>5
  <2>2. Starts(text, u \o x1)
    BY <1>1, UpdateStarts
  <2> HIDE DEF text, u, x1
  <2>3. Reads(u \o x1, <<"UPDATE">> \o y, <<>> \o v)
    BY <1>2, <2>1, ReadsCat
  <2>4. y \in Seq(Words) /\ Len(y) >= 3 /\ y[2] = case
    BY <1>1, SetWordsHead
  <2>5. upp \in Seq(Words) /\ Len(upp) = 1 /\ upp[1] = up
    BY DEF Words
  <2> HIDE DEF y, upp, up, case
  <2>6. upp \o y \in Seq(Words) /\ Len(upp \o y) = Len(upp) + Len(y)
    BY <2>4, <2>5, Cat
  <2>a. upp \in Seq(Words) /\ y \in Seq(Words)
    BY <2>4, <2>5
  <2>7. \A i \in 1..Len(upp) : (upp \o y)[i] = upp[i]
    BY <2>a, Prefix
  <2>8. \A i \in 1..Len(y) : (upp \o y)[Len(upp) + i] = y[i]
    BY <2>a, Suffix
  <2>9. 1 \in 1..Len(upp) /\ 2 \in 1..Len(y) /\ Len(upp) + 2 = 3
    BY <2>4, <2>5
  <2> DEFINE z == upp \o y
  <2>10. z[1] = up /\ z[3] = case
    BY <2>4, <2>5, <2>7, <2>8, <2>9
  <2>11. 1 \in 1..Len(z) /\ 3 \in 1..Len(z)
    BY <2>4, <2>5, <2>6
  <2>12. Reads(u \o x1, z, <<>> \o v)
    BY <2>3 DEF upp
  <2> HIDE DEF z
  <2>13. /\ Reads(text, Shape(text), Values(text))
         /\ \A i \in 1..Len(z) : Shape(text)[i] = z[i]
    BY <2>2, <2>12, StartsShape
  <2> HIDE DEF shape
  <2> QED BY <2>10, <2>11, <2>13 DEF shape, up, case
<1> HIDE DEF text
<1>7. ASSUME w = 1, Len(models) > 1, NEW n \in Counts, shape = CaseShape[n]
      PROVE  FALSE
  <2> DEFINE y == SetWords(1, 1) \o SetWords(1, 1)
             z == <<"UPDATE">> \o y
             x == x1 \o x2
  <2>1. PICK v1 : Reads(x1, SetWords(1, 1), v1)
    BY <1>5, <1>7
  <2>2. PICK v2 : Reads(x2, SetWords(1, 1), v2)
    BY <1>3, <1>4, <1>7
  <2>3. Reads(x, y, v1 \o v2)
    BY <2>1, <2>2, ReadsCat
  <2> HIDE DEF y
  <2>4. Starts(text, u \o x)
    BY <1>1, <1>7, UpdateStarts DEF text
  <2> HIDE DEF x, u
  <2>5. Reads(u \o x, z, <<>> \o (v1 \o v2))
    BY <1>2, <2>3, ReadsCat
  <2>6. Len(z) = 19 /\ z[9] = "END" /\ z[11] = "create_time"
    BY CaseTwice DEF y
  <2> HIDE DEF z
  <2>7. \A i \in 1..Len(z) : Shape(text)[i] = z[i]
    BY <2>4, <2>5, StartsShape
  <2>8. 9 \in 1..Len(z) /\ 11 \in 1..Len(z)
    BY <2>6
  <2> DEFINE end == "END"
             name == "create_time"
  <2>9. shape[9] = end /\ shape[11] = name
    BY <2>6, <2>7, <2>8
  <2>10. n \in Nat \ {0}
    BY SizesType
  <2>11. shape = CaseAll(n)
    BY <1>7, ShapesAre
  <2> HIDE DEF shape
  <2>12. (n >= 2 => shape[9] = "WHEN (") /\ (n = 1 => shape[11] = "update_time")
    BY <2>10, <2>11, CaseHead, CaseOneMore
  <2>13. n >= 2 \/ n = 1
    BY <2>10
  <2>14. end # "WHEN (" /\ name # "update_time"
    OBVIOUS
  <2> QED BY <2>9, <2>12, <2>13, <2>14
<1>8. ~IsCase(shape, w)
  <2>1. CASE w # 1
    BY <2>1 DEF IsCase
  <2>2. CASE w = 1
    <3>1. Len(models) > 1
      BY <2>2
    <3> HIDE DEF shape
    <3> QED BY <1>7, <2>2, <3>1 DEF IsCase
  <2> QED BY <2>1, <2>2
<1> HIDE DEF shape
<1>9. /\ shape[1] # "INSERT" /\ shape[3] # "=" /\ shape[1] # "DELETE WHERE ("
  <2>1. "UPDATE" # "INSERT" /\ "= CASE" # "=" /\ "UPDATE" # "DELETE WHERE ("
    OBVIOUS
  <2> QED BY <1>6, <2>1
<1>10. ~IsInsert(shape, w) /\ ~IsUpsert(shape, w) /\ ~IsSingle(shape, w) /\ ~IsDelete(shape, w)
  BY <1>9, Kinds
<1>11. Read(text, w) = Refused
  BY <1>6, <1>8, <1>10, ReadIs
<1> QED BY <1>11 DEF text

AreKeys(keys, w) ==
  /\ Len(keys) \in Nat \ {0} /\ DOMAIN keys = 1..Len(keys)
  /\ \A i \in 1..Len(keys) : keys[i] \in Key /\ Len(keys[i]) = w

\* The tuples of a DELETE are a text.
LEMMA KeyTuplesType ==
  ASSUME NEW w \in Nat \ {0}, NEW keys, AreKeys(keys, w)
  PROVE  KeyTuples(keys) \in Seq(Token)
<1> DEFINE n == Len(keys)
           full == [m \in 1..n |->
             <<Word("(")>> \o Listed([k \in DOMAIN keys[m] |-> <<Value(keys[m][k])>>])
               \o <<Word(")"), Word(IF m = n THEN ") ;" ELSE ",")>>]
<1>1. n \in Nat /\ IsListed(full, n)
  BY DEF AreKeys, IsListed
<1>2. KeyTuples(keys) = FlattenSeq(full)
  BY DEF KeyTuples, Concat
<1>3. ASSUME NEW m \in 1..n PROVE full[m] \in Seq(Token)
  <2> DEFINE a == <<Word("(")>>
             l == Listed([k \in DOMAIN keys[m] |-> <<Value(keys[m][k])>>])
             e == <<Word(")"), Word(IF m = n THEN ") ;" ELSE ",")>>
  <2>1. full[m] = (a \o l) \o e
    OBVIOUS
  <2>2. a \in Seq(Token)
    BY SomeWords, TokenType, Pair
  <2>3. l \in Seq(Token)
    <3>1. keys[m] \in Key
      BY DEF AreKeys
    <3> DEFINE key == keys[m]
    <3>2. key \in Key /\ l = Listed([k \in DOMAIN key |-> <<Value(key[k])>>])
      BY <3>1
    <3> HIDE DEF key, l
    <3>3. Listed([k \in DOMAIN key |-> <<Value(key[k])>>]) \in Seq(Token)
      BY <3>2, ReadsTuple, ReadsType
    <3> QED BY <3>2, <3>3
  <2>4. e \in Seq(Token)
    <3>1. ")" \in Words /\ ") ;" \in Words /\ "," \in Words
      BY DEF Words
    <3>2. Word(")") \in Token /\ Word(") ;") \in Token /\ Word(",") \in Token
      BY <3>1, TokenType
    <3> DEFINE x == Word(")")
               y == Word(IF m = n THEN ") ;" ELSE ",")
    <3>3. x \in Token /\ y \in Token /\ e = <<x, y>>
      BY <3>2
    <3> HIDE DEF x, y, e
    <3> QED BY <3>3, Pair
  <2> HIDE DEF a, l, e, full
  <2>5. a \o l \in Seq(Token)
    BY <2>2, <2>3, Cat
  <2> DEFINE al == a \o l
  <2>6. al \in Seq(Token) /\ full[m] = al \o e
    BY <2>1, <2>5
  <2> HIDE DEF al
  <2> QED BY <2>4, <2>6, Cat
<1> DEFINE S == Seq(Token)
<1>4. \A i \in 1..n : full[i] \in S
  BY <1>3
<1> HIDE DEF full, n, S
<1>5. full \in Seq(S)
  BY <1>1, <1>4, MakeSeq
<1> QED BY <1>2, <1>5, FlattenType DEF S

\* n times "key ,", as the loop of a DELETE by key leaves it.
LEMMA ReadsKeyNames ==
  ASSUME NEW n \in Nat \ {0}
  PROVE  \E f : /\ Reads(Concat(n, LAMBDA k : <<Word("key"), Word(",")>>), f, <<>>)
                /\ Len(f) = 2 * n /\ f[2 * n] = ","
<1> DEFINE comma == ","
           p == <<Word("key"), Word(",")>>
           a == <<"key", ",">>
           z == <<>>
           ps == [i \in 1..n |-> p]
           as == [i \in 1..n |-> a]
           us == [i \in 1..n |-> z]
<1>1. "key" \in Words \ {"value"} /\ "," \in Words \ {"value"}
  BY DEF Words
<1>2. Reads(p, a, z)
  BY <1>1, ReadsTwoWords
<1>3. Concat(n, LAMBDA k : <<Word("key"), Word(",")>>) = FlattenSeq(ps)
  BY DEF Concat
<1>4. Len(a) = 2 /\ a[2] = comma /\ Len(z) = 0
  OBVIOUS
<1>5. /\ IsListed(ps, n) /\ IsListed(as, n) /\ IsListed(us, n)
      /\ \A i \in 1..n : ps[i] = p /\ as[i] = a /\ us[i] = z
  BY DEF IsListed
<1> DEFINE S == Seq(Token)
           W == Seq(Words)
           C == Seq(Content)
<1>6. p \in S /\ a \in W /\ z \in C
  BY <1>2, ReadsType
<1> HIDE DEF p, a, z, ps, as, us, S, W, C, comma
<1>7. \A i \in 1..n : ps[i] \in S
  BY <1>5, <1>6
<1>8. \A i \in 1..n : as[i] \in W
  BY <1>5, <1>6
<1>9. \A i \in 1..n : us[i] \in C
  BY <1>5, <1>6
<1>10. ps \in Seq(S) /\ Len(ps) = n
  <2>1. n \in Nat /\ IsListed(ps, n)
    BY <1>5
  <2> QED BY <1>7, <2>1, MakeSeq
<1>11. as \in Seq(W) /\ Len(as) = n
  <2>1. n \in Nat /\ IsListed(as, n)
    BY <1>5
  <2> QED BY <1>8, <2>1, MakeSeq
<1>12. us \in Seq(C) /\ Len(us) = n
  <2>1. n \in Nat /\ IsListed(us, n)
    BY <1>5
  <2> QED BY <1>9, <2>1, MakeSeq
<1> DEFINE f == FlattenSeq(as)
<1>13. Reads(FlattenSeq(ps), f, FlattenSeq(us))
  <2>1. ps \in Seq(Seq(Token)) /\ as \in Seq(Seq(Words)) /\ us \in Seq(Seq(Content))
    BY <1>10, <1>11, <1>12 DEF S, W, C
  <2>2. Len(as) = Len(ps) /\ Len(us) = Len(ps) /\ \A i \in 1..Len(ps) : Reads(ps[i], as[i], us[i])
    BY <1>2, <1>5, <1>10, <1>11, <1>12
  <2> QED BY <2>1, <2>2, ReadsFlatten
<1>14. FlattenSeq(us) = z
  <2>1. PICK l \in Nat : l = 0
    OBVIOUS
  <2>2. \A i \in 1..Len(us) : Len(us[i]) = l
    BY <1>4, <1>5, <1>12, <2>1
  <2>3. us \in Seq(Seq(Content))
    BY <1>12 DEF C
  <2>4. Len(FlattenSeq(us)) = l * Len(us) /\ FlattenSeq(us) \in Seq(Content)
    BY <2>2, <2>3, FlattenUniform, FlattenType
  <2>5. Len(FlattenSeq(us)) = 0
    BY <1>12, <2>1, <2>4
  <2> QED BY <2>4, <2>5, EmptySeq DEF z
<1>15. Len(f) = 2 * n /\ f[2 * n] = comma
  <2>1. PICK l \in Nat : l = 2
    OBVIOUS
  <2>2. \A i \in 1..Len(as) : Len(as[i]) = l
    BY <1>4, <1>5, <1>11, <2>1
  <2>3. as \in Seq(Seq(Words))
    BY <1>11 DEF W
  <2>4. Len(f) = l * Len(as) /\ Laid(f, as, l)
    BY <2>2, <2>3, FlattenUniform
  <2> HIDE DEF f
  <2>5. n \in 1..Len(as) /\ 2 \in 1..l /\ l * (n - 1) + 2 = 2 * n
    BY <1>11, <2>1
  <2>6. f[l * (n - 1) + 2] = as[n][2]
    BY <2>4, <2>5 DEF Laid
  <2> QED BY <1>4, <1>5, <1>11, <2>1, <2>4, <2>5, <2>6
<1> HIDE DEF f
<1> QED BY <1>3, <1>13, <1>14, <1>15 DEF z, comma

\* A DELETE by key is no statement to the server: the test for the last column
\* of the key never holds, and ") IN (" is never written (db_manager.h:669).
LEMMA DeleteRefused ==
  ASSUME NEW w \in Widths, NEW keys, AreKeys(keys, w)
  PROVE  Read(DelSqlByPkDoubleVector(keys), w) = Refused
<1> DEFINE text == DelSqlByPkDoubleVector(keys)
           shape == Shape(text)
           d == <<Word("DELETE WHERE (")>>
           c == Concat(w, LAMBDA k : <<Word("key"), Word(",")>>)
           t == KeyTuples(keys)
           u == <<"DELETE WHERE (">>
           delete == "DELETE WHERE ("
           comma == ","
<1>1. w \in Nat \ {0}
  BY SizesType
<1>2. text = (d \o c) \o t
  <2>1. Len(keys[1]) = w
    BY DEF AreKeys
  <2> QED BY <2>1 DEF DelSqlByPkDoubleVector
<1>3. Reads(d, u, <<>>)
  <2>1. "DELETE WHERE (" \in Words \ {"value"}
    BY DEF Words
  <2> QED BY <2>1, ReadsWord
<1>4. PICK f : Reads(c, f, <<>>) /\ Len(f) = 2 * w /\ f[2 * w] = comma
  BY <1>1, ReadsKeyNames
<1>5. t \in Seq(Token)
  BY <1>1, KeyTuplesType
<1>6. u \in Seq(Words) /\ Len(u) = 1 /\ u[1] = delete
  BY DEF Words
<1> HIDE DEF text, d, c, t, u, delete, comma
<1> DEFINE z == u \o f
<1>7. Reads(d \o c, z, <<>> \o <<>>)
  BY <1>3, <1>4, ReadsCat
<1>8. Starts(text, d \o c)
  BY <1>2, <1>5 DEF Starts
<1>9. f \in Seq(Words)
  BY <1>4, ReadsType
<1>10. z \in Seq(Words) /\ Len(z) = Len(u) + Len(f)
  BY <1>6, <1>9, Cat
<1>a. u \in Seq(Words)
  BY <1>6
<1>11. \A i \in 1..Len(u) : z[i] = u[i]
  BY <1>a, <1>9, Prefix
<1>12. \A i \in 1..Len(f) : z[Len(u) + i] = f[i]
  BY <1>a, <1>9, Suffix
<1> HIDE DEF z
<1> DEFINE j == 2 * w
<1>13. j \in Nat \ {0} /\ Len(f) = j /\ f[j] = comma
  BY <1>1, <1>4
<1> HIDE DEF j
<1>14. z[1] = delete /\ z[j + 1] = comma /\ 1 \in 1..Len(z) /\ j + 1 \in 1..Len(z)
  <2>1. 1 \in 1..Len(u) /\ j \in 1..Len(f) /\ Len(u) + j = j + 1
    BY <1>6, <1>13
  <2> QED BY <1>6, <1>10, <1>11, <1>12, <1>13, <2>1
<1>15. Reads(text, shape, Values(text)) /\ \A i \in 1..Len(z) : Shape(text)[i] = z[i]
  BY <1>7, <1>8, StartsShape
<1>16. shape[1] = delete /\ shape[j + 1] = comma
  BY <1>14, <1>15
<1> HIDE DEF shape
<1>17. shape[1] = "DELETE WHERE (" /\ shape[2 * w + 1] = ","
  BY <1>16 DEF delete, comma, j
<1>18. "DELETE WHERE (" # "INSERT" /\ "DELETE WHERE (" # "UPDATE" /\ "," # ") IN ("
  OBVIOUS
<1>19. /\ ~IsInsert(shape, w) /\ ~IsUpsert(shape, w) /\ ~IsSingle(shape, w)
       /\ ~IsCase(shape, w) /\ ~IsDelete(shape, w)
  BY <1>17, <1>18, Kinds
<1>20. Read(text, w) = Refused
  BY <1>15, <1>19, ReadIs
<1> QED BY <1>20 DEF text

\* A row a call names, with the times of its model.
Row(m) == [key |-> m.key, set |-> [create_time |-> m.create, update_time |-> m.renewed]]

\* l times n divided by l.
LEMMA Divides ==
  ASSUME NEW l \in Nat \ {0}, NEW n \in Nat
  PROVE  (l * n) \div l = n
OBVIOUS

\* The fields of model i lie after the first b values.
FieldsAt(models, w, i, b) ==
  /\ SubSeq(AllFields(models), b + 1, b + w) = models[i].key
  /\ AllFields(models)[b + w + 1] = models[i].create
  /\ AllFields(models)[b + w + 2] = models[i].renewed

\* The fields of one model among those of all.
LEMMA FieldsLaid ==
  ASSUME NEW w \in Nat \ {0}, NEW models, AreModels(models, w), NEW i \in 1..Len(models),
         NEW b, b = (w + 2) * (i - 1)
  PROVE  FieldsAt(models, w, i, b)
<1> DEFINE v == AllFields(models)
           m == models[i]
           key == m.key
           es == EachFields(models)
           l == w + 2
           cs == <<m.create, m.renewed>>
<1>1. IsModel(m) /\ Len(key) = w
  BY DEF AreModels
<1>2. /\ key \in Seq(Content) /\ Len(key) = w /\ cs \in Seq(Content) /\ Len(cs) = 2
      /\ cs[1] = m.create /\ cs[2] = m.renewed
      /\ Fields(m) = key \o cs
  BY <1>1, FieldsType DEF Fields
<1>3. es \in Seq(Seq(Content)) /\ Len(es) = Len(models) /\ es[i] = Fields(m)
      /\ \A k \in 1..Len(es) : Len(es[k]) = l
  <2>1. /\ es \in Seq(Seq(Content)) /\ Len(es) = Len(models)
        /\ \A k \in 1..Len(models) : es[k] = Fields(models[k]) /\ Len(es[k]) = w + 2
    BY FieldsPieces
  <2> HIDE DEF es
  <2> QED BY <2>1
<1>4. l \in Nat /\ v = FlattenSeq(es)
  BY DEF AllFields
<1> HIDE DEF l, es, v
<1>5. Laid(v, es, l)
  BY <1>3, <1>4, FlattenUniform
<1> HIDE DEF m, key, cs
<1>6. \A j \in 1..l : v[l * (i - 1) + j] = es[i][j]
  BY <1>3, <1>5 DEF Laid
<1>7. b = l * (i - 1) /\ b \in Nat
  <2>1. i - 1 \in Nat
    OBVIOUS
  <2> QED BY <2>1 DEF l
<1> DEFINE x == key \o cs
<1>8. \A j \in 1..(w + 2) : v[b + j] = x[j]
  BY <1>2, <1>3, <1>6, <1>7 DEF l
<1>9. \A j \in 1..Len(key) : x[j] = key[j]
  <2>1. key \in Seq(Content) /\ cs \in Seq(Content)
    BY <1>2
  <2> QED BY <2>1, Prefix
<1>10. \A j \in 1..Len(cs) : x[Len(key) + j] = cs[j]
  <2>1. key \in Seq(Content) /\ cs \in Seq(Content)
    BY <1>2
  <2> QED BY <2>1, Suffix
<1> HIDE DEF x
<1>11. v[b + w + 1] = cs[1] /\ v[b + w + 2] = cs[2]
  <2>1. 1 \in 1..Len(cs) /\ 2 \in 1..Len(cs) /\ w + 1 \in 1..(w + 2) /\ w + 2 \in 1..(w + 2)
    BY <1>2
  <2>2. x[w + 1] = cs[1] /\ x[w + 2] = cs[2]
    BY <1>2, <1>10, <2>1
  <2>3. v[b + (w + 1)] = x[w + 1] /\ v[b + (w + 2)] = x[w + 2]
    BY <1>8, <2>1
  <2>4. b + (w + 1) = b + w + 1 /\ b + (w + 2) = b + w + 2
    BY <1>7
  <2> QED BY <2>2, <2>3, <2>4
<1>12. SubSeq(v, b + 1, b + w) = key
  <2>1. SubSeq(v, b + 1, b + w) = [j \in 1..w |-> v[b + j]]
    <3>1. SubSeq(v, b + 1, b + w) = [j \in 1..(1 + (b + w) - (b + 1)) |-> v[j + (b + 1) - 1]]
      BY <1>7
    <3>2. 1 + (b + w) - (b + 1) = w /\ \A j \in 1..w : j + (b + 1) - 1 = b + j
      BY <1>7
    <3> QED BY <3>1, <3>2
  <2>2. key = [j \in 1..w |-> key[j]]
    BY <1>2
  <2>3. ASSUME NEW j \in 1..w PROVE v[b + j] = key[j]
    <3>1. j \in 1..(w + 2) /\ j \in 1..Len(key)
      BY <1>2
    <3> QED BY <1>8, <1>9, <3>1
  <2> QED BY <2>1, <2>2, <2>3
<1> QED BY <1>2, <1>11, <1>12 DEF v, key, m, FieldsAt

\* Cutting the values of an INSERT gives the rows of its models.
LEMMA InsertRowsAre ==
  ASSUME NEW w \in Nat \ {0}, NEW models, AreModels(models, w)
  PROVE  InsertRows(AllFields(models), w) = {Row(models[i]) : i \in 1..Len(models)}
<1> DEFINE v == AllFields(models)
           n == Len(models)
           l == w + 2
           At(b) == [key |-> SubSeq(v, b + 1, b + w),
                     set |-> [create_time |-> v[b + w + 1], update_time |-> v[b + w + 2]]]
<1>1. n \in Nat \ {0} /\ l \in Nat \ {0}
  BY DEF AreModels
<1>2. Len(v) \div l = n
  <2> DEFINE es == EachFields(models)
  <2>a. /\ es \in Seq(Seq(Content)) /\ Len(es) = Len(models)
        /\ \A k \in 1..Len(models) : Len(es[k]) = w + 2
    BY FieldsPieces
  <2>1. es \in Seq(Seq(Content)) /\ Len(es) = n /\ \A k \in 1..Len(es) : Len(es[k]) = l
    <3> HIDE DEF es
    <3> QED BY <2>a
  <2>2. v = FlattenSeq(es)
    BY DEF AllFields
  <2> HIDE DEF es, v, n, l
  <2>3. Len(v) = l * Len(es)
    BY <1>1, <2>1, <2>2, FlattenUniform
  <2> QED BY <1>1, <2>1, <2>3, Divides
<1>3. InsertRows(v, w) = {At(b) : b \in {l * i : i \in 0..(n - 1)}}
  BY <1>2 DEF InsertRows
<1>4. ASSUME NEW i \in 1..n PROVE At(l * (i - 1)) = Row(models[i])
  <2> DEFINE b == l * (i - 1)
  <2>1. b = (w + 2) * (i - 1)
    OBVIOUS
  <2> HIDE DEF v, b
  <2>2. /\ SubSeq(v, b + 1, b + w) = models[i].key
        /\ v[b + w + 1] = models[i].create
        /\ v[b + w + 2] = models[i].renewed
    <3>1. FieldsAt(models, w, i, b)
      <4>1. i \in 1..Len(models)
        OBVIOUS
      <4> HIDE DEF n, l, At
      <4> QED BY <2>1, <4>1, FieldsLaid
    <3> QED BY <3>1 DEF v, FieldsAt
  <2>3. At(b) = Row(models[i])
    BY <2>2 DEF Row
  <2> QED BY <2>3 DEF b
<1> HIDE DEF v, n, l, At
<1>5. \A i \in 0..(n - 1) : i + 1 \in 1..n /\ (i + 1) - 1 = i
  BY <1>1
<1>6. \A i \in 1..n : i - 1 \in 0..(n - 1)
  BY <1>1
<1>7. ASSUME NEW r \in InsertRows(v, w) PROVE r \in {Row(models[i]) : i \in 1..n}
  <2>1. PICK i \in 0..(n - 1) : r = At(l * i)
    BY <1>3
  <2>2. i + 1 \in 1..n /\ r = At(l * ((i + 1) - 1))
    BY <1>5, <2>1
  <2> QED BY <1>4, <2>2
<1>8. ASSUME NEW i \in 1..n PROVE Row(models[i]) \in InsertRows(v, w)
  BY <1>3, <1>4, <1>6
<1> QED BY <1>7, <1>8 DEF v, n

\* What is left after the first part is the second.
LEMMA SubSeqEnd ==
  ASSUME NEW T, NEW s \in Seq(T), NEW t \in Seq(T)
  PROVE  SubSeq(s \o t, Len(s) + 1, Len(s \o t)) = t
<1> DEFINE x == s \o t
           a == Len(s)
           n == Len(t)
<1>1. x \in Seq(T) /\ Len(x) = a + n /\ a \in Nat /\ n \in Nat
  BY Cat
<1>2. \A j \in 1..n : x[a + j] = t[j]
  BY Suffix
<1>3. t = [j \in 1..n |-> t[j]]
  OBVIOUS
<1> HIDE DEF x, a, n
<1>4. SubSeq(x, a + 1, a + n) = [j \in 1..(1 + (a + n) - (a + 1)) |-> x[j + (a + 1) - 1]]
  BY <1>1
<1>5. 1 + (a + n) - (a + 1) = n /\ \A j \in 1..n : j + (a + 1) - 1 = a + j
  BY <1>1
<1>6. SubSeq(x, a + 1, a + n) = [j \in 1..n |-> x[a + j]]
  BY <1>4, <1>5
<1>7. SubSeq(x, a + 1, a + n) = t
  BY <1>2, <1>3, <1>6
<1> QED BY <1>1, <1>7 DEF x, a

\* The values of an UPDATE of one row give the row of its model.
LEMMA SingleRowIs ==
  ASSUME NEW m, IsModel(m)
  PROVE  /\ SingleRow(ColumnValues(m) \o m.key, Columns) = {Row(m)}
         /\ SingleRow(<<m.renewed>> \o m.key, <<"update_time">>)
              = {[key |-> m.key, set |-> [c \in {"update_time"} |-> m.renewed]]}
<1> DEFINE key == m.key
           cs == ColumnValues(m)
           rs == <<m.renewed>>
           one == <<"update_time">>
<1>1. /\ key \in Seq(Content) /\ cs \in Seq(Content) /\ Len(cs) = 2
      /\ cs[1] = m.create /\ cs[2] = m.renewed
      /\ rs \in Seq(Content) /\ Len(rs) = 1 /\ rs[1] = m.renewed
  BY FieldsType
<1> HIDE DEF key, cs, rs
<1> DEFINE x == cs \o key
           y == rs \o key
<1>2. SubSeq(x, Len(cs) + 1, Len(x)) = key /\ SubSeq(y, Len(rs) + 1, Len(y)) = key
  <2>1. key \in Seq(Content) /\ cs \in Seq(Content) /\ rs \in Seq(Content)
    BY <1>1
  <2> QED BY <2>1, SubSeqEnd
<1>3. x[1] = m.create /\ x[2] = m.renewed /\ y[1] = m.renewed
  <2>1. key \in Seq(Content) /\ cs \in Seq(Content) /\ rs \in Seq(Content)
    BY <1>1
  <2>2. \A i \in 1..Len(cs) : x[i] = cs[i]
    BY <2>1, Prefix
  <2>3. \A i \in 1..Len(rs) : y[i] = rs[i]
    BY <2>1, Prefix
  <2>4. 1 \in 1..Len(cs) /\ 2 \in 1..Len(cs) /\ 1 \in 1..Len(rs)
    BY <1>1
  <2> QED BY <1>1, <2>2, <2>3, <2>4
<1> HIDE DEF x, y
<1>4. /\ Len(Columns) = 2 /\ Range(Columns) = {"create_time", "update_time"}
      /\ (CHOOSE i \in DOMAIN Columns : Columns[i] = "create_time") = 1
      /\ (CHOOSE i \in DOMAIN Columns : Columns[i] = "update_time") = 2
  <2>1. "create_time" # "update_time"
    OBVIOUS
  <2>2. Range(Columns) = {"create_time", "update_time"}
    BY ColumnsAre DEF Range
  <2>3. \A i \in 1..2 : (Columns[i] = "create_time" => i = 1) /\ (Columns[i] = "update_time" => i = 2)
    BY ColumnsAre, <2>1
  <2>4. 1 \in 1..2 /\ 2 \in 1..2
    OBVIOUS
  <2> QED BY ColumnsAre, <2>2, <2>3, <2>4
<1>5. /\ Len(one) = 1 /\ Range(one) = {"update_time"}
      /\ (CHOOSE i \in DOMAIN one : one[i] = "update_time") = 1
  BY DEF Range
<1>6. SingleRow(x, Columns) = {Row(m)}
  <2> DEFINE set == [c \in {"create_time", "update_time"} |->
                      x[CHOOSE i \in DOMAIN Columns : Columns[i] = c]]
  <2>1. SingleRow(x, Columns) = {[key |-> key, set |-> set]}
    BY <1>1, <1>2, <1>4 DEF SingleRow
  <2>2. set["create_time"] = m.create /\ set["update_time"] = m.renewed
    BY <1>3, <1>4
  <2>3. DOMAIN set = {"create_time", "update_time"}
    OBVIOUS
  <2>4. set = [c \in {"create_time", "update_time"} |-> set[c]]
    OBVIOUS
  <2> HIDE DEF set
  <2>5. set = [create_time |-> m.create, update_time |-> m.renewed]
    BY <2>2, <2>3, <2>4
  <2> QED BY <2>1, <2>5 DEF Row, key
<1>7. SingleRow(y, one) = {[key |-> key, set |-> [c \in {"update_time"} |-> m.renewed]]}
  <2> DEFINE set == [c \in {"update_time"} |-> y[CHOOSE i \in DOMAIN one : one[i] = c]]
  <2>1. SingleRow(y, one) = {[key |-> key, set |-> set]}
    <3> HIDE DEF one
    <3> QED BY <1>1, <1>2, <1>5 DEF SingleRow
  <2>2. set = [c \in {"update_time"} |-> m.renewed]
    <3> HIDE DEF one
    <3> QED BY <1>3, <1>5
  <2> QED BY <2>1, <2>2
<1> QED BY <1>6, <1>7 DEF x, y, key, cs, rs

\* An UPDATE of one row asks for the times of its model, or for the later of
\* them where the creation time is ignored.
LEMMA ReadSingle ==
  ASSUME NEW w \in Widths, NEW m, IsModel(m), Len(m.key) = w
  PROVE  /\ Read(UpdateSingleModelSql(m, {}), w) = [op |-> "update", rows |-> {Row(m)}]
         /\ Read(UpdateSingleModelSql(m, {"create_time"}), w)
              = [op |-> "update",
                 rows |-> {[key |-> m.key, set |-> [c \in {"update_time"} |-> m.renewed]]}]
<1> DEFINE one == <<"update_time">>
<1>1. Reads(UpdateSingleModelSql(m, {}), SingleWords(w, Columns), ColumnValues(m) \o m.key)
  BY ReadsBoth, ReadsSingle
<1>2. Reads(UpdateSingleModelSql(m, {"create_time"}), SingleWords(w, one), <<m.renewed>> \o m.key)
  BY ReadsRenewed, ReadsSingle
<1>3. Columns \in Assignable /\ one \in Assignable
  BY DEF Assignable
<1> DEFINE text1 == UpdateSingleModelSql(m, {})
           text2 == UpdateSingleModelSql(m, {"create_time"})
           v1 == ColumnValues(m) \o m.key
           v2 == <<m.renewed>> \o m.key
<1>4. SingleRow(v1, Columns) = {Row(m)}
  BY SingleRowIs
<1>5. SingleRow(v2, one) = {[key |-> m.key, set |-> [c \in {"update_time"} |-> m.renewed]]}
  BY SingleRowIs
<1> HIDE DEF one, text1, text2, v1, v2
<1>6. SingleWords(w, Columns) = SingleShape[w][Columns] /\ SingleWords(w, one) = SingleShape[w][one]
  BY <1>3, SingleIs
<1>7. Read(text1, w) = [op |-> "update", rows |-> SingleRow(v1, Columns)]
  BY <1>1, <1>3, <1>6, ReadIs DEF text1, v1
<1>8. Read(text2, w) = [op |-> "update", rows |-> SingleRow(v2, one)]
  BY <1>2, <1>3, <1>6, ReadIs DEF text2, v2
<1> QED BY <1>4, <1>5, <1>7, <1>8 DEF text1, text2

\* An UPDATE by the loops of one model with a key of one column.
LEMMA ReadOneUpdate ==
  ASSUME NEW models, AreModels(models, 1), Len(models) = 1
  PROVE  Read(UpdateModelSql(models), 1) = [op |-> "update", rows |-> {Row(models[1])}]
<1> DEFINE m == models[1]
           key == m.key
           v == ((key \o <<m.create>>) \o (key \o <<m.renewed>>)) \o key
           text == UpdateModelSql(models)
<1>1. IsModel(m) /\ Len(key) = 1
  <2>1. 1 \in 1..Len(models)
    OBVIOUS
  <2> QED BY <2>1 DEF AreModels
<1>2. 1 \in Widths /\ 1 \in Counts
  <2>1. key \in Key
    BY <1>1 DEF IsModel
  <2>2. 1 \in Widths
    BY <1>1, <2>1 DEF Widths
  <2>3. Cardinality(Key) \in Nat /\ Cardinality(Key) # 0
    BY <2>1, KeyAssumption, SizesType, FS_EmptySet
  <2> QED BY <2>2, <2>3 DEF Counts
<1>3. Reads(text, CaseOne, v)
  BY ReadsOneUpdate
<1>4. /\ key \in Seq(Content) /\ m.create \in Content /\ m.renewed \in Content
  BY <1>1, FieldsType
<1>5. /\ v[1] = key[1] /\ v[2] = m.create /\ v[4] = m.renewed
      /\ key = <<key[1]>>
  <2> DEFINE a == key[1]
             b == m.create
             c == m.renewed
             k == <<a>>
  <2>1. a \in Content
    <3>1. 1 \in 1..Len(key)
      BY <1>1
    <3> QED BY <1>4, <3>1
  <2>2. k \in Seq(Content) /\ Len(k) = 1 /\ k[1] = a
    BY <2>1
  <2>3. key = k
    <3>1. \A i \in 1..1 : i = 1
      OBVIOUS
    <3>2. key \in Seq(Content) /\ Len(key) = Len(k) /\ \A i \in 1..Len(key) : key[i] = k[i]
      BY <1>1, <1>4, <2>2, <3>1
    <3> HIDE DEF k, a, key
    <3> QED BY <2>2, <3>2, SeqEqual
  <2>4. v = ((<<a>> \o <<b>>) \o (<<a>> \o <<c>>)) \o <<a>>
    BY <2>3
  <2> DEFINE x == ((<<a>> \o <<b>>) \o (<<a>> \o <<c>>)) \o <<a>>
  <2>5. b \in Content /\ c \in Content
    BY <1>4
  <2> HIDE DEF a, b, c
  <2>6. x[1] = a /\ x[2] = b /\ x[4] = c
    BY <2>1, <2>5
  <2> QED BY <2>3, <2>4, <2>6 DEF a, b, c
<1>6. CaseRows(v, 1) = {Row(m)}
  <2> HIDE DEF v, key
  <2>1. CaseRows(v, 1) = {[key |-> <<v[1]>>, set |-> [create_time |-> v[2], update_time |-> v[4]]]}
    <3>1. \A i \in 1..1 : i = 1
      OBVIOUS
    <3>2. 1 \in 1..1 /\ 2 * 1 - 1 = 1 /\ 2 * 1 = 2 /\ 2 * 1 + 2 * 1 = 4
      OBVIOUS
    <3> QED BY <3>1, <3>2 DEF CaseRows
  <2> QED BY <1>5, <2>1 DEF Row, key
<1> HIDE DEF v, text
<1>7. Read(text, 1) = [op |-> "update", rows |-> CaseRows(v, 1)]
  BY <1>2, <1>3, ReadIs
<1> QED BY <1>6, <1>7 DEF text, m

=============================================================================
