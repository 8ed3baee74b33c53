---------------------------- MODULE RowTextProofs ----------------------------
(***************************************************************************)
(* Proofs about RowText, for every set of keys and handlers and every clock: *)
(* the decoder reads the times the server sends, and the handlers do to the  *)
(* rows what RowTimes says.                                                  *)
(***************************************************************************)
EXTENDS RowText, TextProofs

-----------------------------------------------------------------------------
(* The loop over the bytes of a time                                         *)

Start == [numbers |-> <<>>, more |-> FALSE, shift |-> 0, thrown |-> FALSE]

\* g is what the loop has after each of the n first bytes.
Takes(bytes, n, g) == g[0] = Start /\ \A i \in 1..n : g[i] = TakeByte(g[i - 1], bytes[i])

\* The recursive function TakeBytes folds with exists.
LEMMA TakesExists ==
  ASSUME NEW bytes, NEW n \in Nat
  PROVE  \E g : g = [i \in 0..n |-> IF i = 0 THEN Start ELSE TakeByte(g[i - 1], bytes[i])]
<1> DEFINE P(m) == \E g : g = [i \in 0..m |-> g[i]] /\ Takes(bytes, m, g)
           S == {m \in Nat : P(m)}
<1>1. 0 \in S
  <2> DEFINE g == [i \in 0..0 |-> Start]
  <2>1. g = [i \in 0..0 |-> g[i]] /\ g[0] = Start
    OBVIOUS
  <2> HIDE DEF g
  <2>2. Takes(bytes, 0, g)
    BY <2>1 DEF Takes
  <2> QED BY <2>1, <2>2
<1>2. ASSUME NEW m \in Nat, m \in S PROVE m + 1 \in S
  <2>1. PICK g : Takes(bytes, m, g)
    BY <1>2
  <2> DEFINE x == TakeByte(g[m], bytes[m + 1])
             h == [i \in 0..(m + 1) |-> IF i = m + 1 THEN x ELSE g[i]]
  <2>2. h = [i \in 0..(m + 1) |-> h[i]]
    OBVIOUS
  <2>3. h[m + 1] = x /\ \A i \in 0..m : h[i] = g[i]
    <3> HIDE DEF x
    <3> QED OBVIOUS
  <2> HIDE DEF h
  <2>4. h[m + 1] = TakeByte(h[m], bytes[m + 1])
    BY <2>3
  <2>5. ASSUME NEW i \in 1..m PROVE h[i] = TakeByte(h[i - 1], bytes[i])
    <3>1. i \in 0..m /\ i - 1 \in 0..m
      OBVIOUS
    <3>2. g[i] = TakeByte(g[i - 1], bytes[i])
      BY <2>1 DEF Takes
    <3>3. h[i] = g[i] /\ h[i - 1] = g[i - 1]
      BY <2>3, <3>1
    <3> QED BY <3>2, <3>3
  <2>6. h[0] = Start
    <3>1. 0 \in 0..m
      OBVIOUS
    <3> QED BY <2>1, <2>3, <3>1 DEF Takes
  <2>7. \A i \in 1..(m + 1) : i \in 1..m \/ (i = m + 1 /\ i - 1 = m)
    OBVIOUS
  <2>8. Takes(bytes, m + 1, h)
    BY <2>4, <2>5, <2>6, <2>7 DEF Takes
  <2>9. P(m + 1)
    BY <2>2, <2>8
  <2> QED BY <2>9
<1> HIDE DEF P
<1>3. Nat \subseteq S
  <2> HIDE DEF S
  <2> QED BY <1>1, <1>2, NatSet
<1>4. P(n)
  BY <1>3
<1>5. PICK g : g = [i \in 0..n |-> g[i]] /\ Takes(bytes, n, g)
  BY <1>4 DEF P
<1>6. \A i \in 0..n : g[i] = IF i = 0 THEN Start ELSE TakeByte(g[i - 1], bytes[i])
  <2>1. \A i \in 0..n : i = 0 \/ i \in 1..n
    OBVIOUS
  <2> QED BY <1>5, <2>1 DEF Takes
<1>7. g = [i \in 0..n |-> IF i = 0 THEN Start ELSE TakeByte(g[i - 1], bytes[i])]
  BY <1>5, <1>6
<1> QED BY <1>7

\* TakeBytes returns the last value of that function.
LEMMA TakesValues ==
  ASSUME NEW bytes, NEW n \in Nat, Len(bytes) = n
  PROVE  \E g : Takes(bytes, n, g) /\ TakeBytes(bytes) = g[n]
<1> DEFINE G == CHOOSE g : g = [i \in 0..n |-> IF i = 0 THEN Start ELSE TakeByte(g[i - 1], bytes[i])]
<1>1. G = [i \in 0..n |-> IF i = 0 THEN Start ELSE TakeByte(G[i - 1], bytes[i])]
  BY TakesExists
<1>2. TakeBytes(bytes) = G[n]
  BY DEF TakeBytes, Start
<1> HIDE DEF G
<1>3. G[0] = Start /\ \A i \in 1..n : G[i] = TakeByte(G[i - 1], bytes[i])
  <2>1. 0 \in 0..n /\ \A i \in 1..n : i \in 0..n /\ i # 0
    OBVIOUS
  <2> QED BY <1>1, <2>1
<1> QED BY <1>2, <1>3 DEF Takes

\* The loop goes on from where it was.
LEMMA TakeAppend ==
  ASSUME NEW T, NEW bytes \in Seq(T), NEW byte \in T
  PROVE  TakeBytes(bytes \o <<byte>>) = TakeByte(TakeBytes(bytes), byte)
<1> DEFINE n == Len(bytes)
           more == bytes \o <<byte>>
<1>1. n \in Nat /\ Len(more) = n + 1 /\ more[n + 1] = byte /\ \A i \in 1..n : more[i] = bytes[i]
  OBVIOUS
<1> HIDE DEF n, more
<1>2. PICK g : Takes(bytes, n, g) /\ TakeBytes(bytes) = g[n]
  BY <1>1, TakesValues DEF n
<1>3. PICK h : Takes(more, n + 1, h) /\ TakeBytes(more) = h[n + 1]
  BY <1>1, TakesValues
<1> DEFINE S == {i \in Nat : i <= n => h[i] = g[i]}
<1>4. Nat \subseteq S
  <2>1. 0 \in S
    BY <1>2, <1>3 DEF Takes
  <2>2. ASSUME NEW i \in Nat, i \in S PROVE i + 1 \in S
    <3>1. CASE i + 1 <= n
      <4>1. i + 1 \in 1..n /\ i + 1 \in 1..(n + 1) /\ (i + 1) - 1 = i
        BY <1>1, <3>1
      <4>2. g[i + 1] = TakeByte(g[i], bytes[i + 1]) /\ h[i + 1] = TakeByte(h[i], more[i + 1])
        BY <1>2, <1>3, <4>1 DEF Takes
      <4>3. h[i] = g[i] /\ more[i + 1] = bytes[i + 1]
        BY <1>1, <2>2, <3>1, <4>1
      <4> QED BY <4>2, <4>3
    <3>2. CASE ~(i + 1 <= n)
      BY <3>2
    <3> QED BY <3>1, <3>2
  <2> HIDE DEF S
  <2> QED BY <2>1, <2>2, NatSet
<1>5. h[n] = g[n]
  BY <1>1, <1>4
<1>6. h[n + 1] = TakeByte(h[n], more[n + 1])
  <2>1. n + 1 \in 1..(n + 1) /\ (n + 1) - 1 = n
    BY <1>1
  <2> QED BY <1>3, <2>1 DEF Takes
<1> QED BY <1>1, <1>2, <1>3, <1>5, <1>6 DEF more

\* No byte is the start.
LEMMA TakeNothing == TakeBytes(<<>>) = Start
<1>1. PICK n \in Nat : n = 0
  OBVIOUS
<1> DEFINE e == <<>>
<1>2. Len(e) = n
  BY <1>1
<1> HIDE DEF e
<1>3. PICK g : Takes(e, n, g) /\ TakeBytes(e) = g[n]
  BY <1>2, TakesValues
<1> QED BY <1>1, <1>3 DEF Takes, e

\* Whole numbers have been read, or the last one is still missing high bits.
Whole(acc, ns) == acc.numbers = ns /\ ~acc.more /\ ~acc.thrown

Partial(acc, ns, x, k) ==
  acc.numbers = Append(ns, x) /\ acc.more /\ ~acc.thrown /\ acc.shift = k

\* Concatenation is associative for numbers.
LEMMA NatsCat == \A s, t, u \in Seq(Nat) : (s \o t) \o u = s \o (t \o u)
  BY CatCat

\* The first byte of a number ends it below 128 and begins a longer one from 128 on.
LEMMA FirstByte ==
  ASSUME NEW acc, NEW ns \in Seq(Nat), Whole(acc, ns), NEW b \in Nat
  PROVE  /\ b < 128 => Whole(TakeByte(acc, b), Append(ns, b))
         /\ b >= 128 => Partial(TakeByte(acc, b), ns, b % 128, 7)
<1>1. ~acc.thrown /\ ~acc.more /\ acc.numbers = ns
  BY DEF Whole
<1>2. TakeByte(acc, b) = TakeByteAt(0, acc, b)
  BY <1>1 DEF TakeByte
<1>3. TakeByteAt(0, acc, b) = [numbers |-> Append(ns, b % 128), more |-> b >= 128,
                               shift |-> 7, thrown |-> FALSE]
  <2>1. 0 + (b % 128) * 2^0 = b % 128
    OBVIOUS
  <2> DEFINE x == b % 128
  <2>2. TakeByteAt(0, acc, b) = [numbers |-> Append(acc.numbers, 0 + (b % 128) * 2^0), more |-> b >= 128,
                                 shift |-> 0 + 7, thrown |-> FALSE]
    BY <1>1 DEF TakeByteAt
  <2> QED BY <1>1, <2>1, <2>2
<1>4. ASSUME b < 128 PROVE Whole(TakeByte(acc, b), Append(ns, b))
  <2>1. b % 128 = b /\ (b >= 128) = FALSE
    BY <1>4
  <2>2. TakeByte(acc, b) = [numbers |-> Append(ns, b), more |-> FALSE, shift |-> 7, thrown |-> FALSE]
    BY <1>2, <1>3, <2>1
  <2> QED BY <2>2 DEF Whole
<1>5. ASSUME b >= 128 PROVE Partial(TakeByte(acc, b), ns, b % 128, 7)
  <2>1. (b >= 128) = TRUE
    BY <1>5
  <2>2. TakeByte(acc, b) = [numbers |-> Append(ns, b % 128), more |-> TRUE, shift |-> 7, thrown |-> FALSE]
    BY <1>2, <1>3, <2>1
  <2> QED BY <2>2 DEF Partial
<1> QED BY <1>4, <1>5

\* Front and Last of an appended sequence.
LEMMA FrontLast ==
  ASSUME NEW ns \in Seq(Nat), NEW x \in Nat
  PROVE  Front(Append(ns, x)) = ns /\ Last(Append(ns, x)) = x
<1>1. Append(ns, x) = ns \o <<x>>
  OBVIOUS
<1>2. Front(ns \o <<x>>) = ns
  BY FrontCat
<1>3. Last(Append(ns, x)) = x
  BY DEF Last
<1> QED BY <1>1, <1>2, <1>3

\* A following byte adds its seven bits at the place reached.
LEMMA NextByte ==
  ASSUME NEW acc, NEW ns \in Seq(Nat), NEW x \in Nat, NEW k \in {7, 14}, Partial(acc, ns, x, k),
         NEW b \in Nat
  PROVE  LET y == x + (b % 128) * 2^k IN
         /\ b < 128 => Whole(TakeByte(acc, b), Append(ns, y))
         /\ b >= 128 => Partial(TakeByte(acc, b), ns, y, k + 7)
<1> DEFINE y == x + (b % 128) * 2^k
<1>1. ~acc.thrown /\ acc.more /\ acc.numbers = Append(ns, x) /\ acc.shift = k
  BY DEF Partial
<1>2. TakeByte(acc, b) = TakeByteAt(k, acc, b)
  <2>1. ~(k > 32 - 7)
    OBVIOUS
  <2> QED BY <1>1, <2>1 DEF TakeByte
<1>3. Front(acc.numbers) = ns /\ Last(acc.numbers) = x
  BY <1>1, FrontLast
<1>4. TakeByteAt(k, acc, b) = [numbers |-> Append(ns, y), more |-> b >= 128,
                               shift |-> k + 7, thrown |-> FALSE]
  BY <1>1, <1>3 DEF TakeByteAt
<1> HIDE DEF y
<1>5. ASSUME b < 128 PROVE Whole(TakeByte(acc, b), Append(ns, y))
  <2>1. (b >= 128) = FALSE
    BY <1>5
  <2>2. TakeByte(acc, b) = [numbers |-> Append(ns, y), more |-> FALSE, shift |-> k + 7, thrown |-> FALSE]
    BY <1>2, <1>4, <2>1
  <2> QED BY <2>2 DEF Whole
<1>6. ASSUME b >= 128 PROVE Partial(TakeByte(acc, b), ns, y, k + 7)
  <2>1. (b >= 128) = TRUE
    BY <1>6
  <2>2. TakeByte(acc, b) = [numbers |-> Append(ns, y), more |-> TRUE, shift |-> k + 7, thrown |-> FALSE]
    BY <1>2, <1>4, <2>1
  <2> QED BY <2>2 DEF Partial
<1> QED BY <1>5, <1>6 DEF y

\* Up to three bytes for a number under a million.
LEMMA VarintBytes ==
  ASSUME NEW n \in Nat
  PROVE  /\ n < 128 => Varint(n) = <<n>>
         /\ n >= 128 /\ n < 16384 => Varint(n) = <<(n % 128) + 128, n \div 128>>
         /\ n >= 16384 /\ n < 2 * Second
              => Varint(n) = <<(n % 128) + 128, ((n \div 128) % 128) + 128, n \div 16384>>
<1>0. 128^0 = 1 /\ 128^1 = 128 /\ 128^2 = 16384 /\ n \div 1 = n
  OBVIOUS
<1>1. ASSUME n < 128 PROVE Varint(n) = <<n>>
  <2>1. Varint(n) = [i \in 1..1 |-> ((n \div 128^(i - 1)) % 128) + (IF i < 1 THEN 128 ELSE 0)]
    BY <1>1 DEF Varint
  <2>2. \A i \in 1..1 : ((n \div 128^(i - 1)) % 128) + (IF i < 1 THEN 128 ELSE 0) = n
    <3>1. \A i \in 1..1 : i = 1 /\ i - 1 = 0
      OBVIOUS
    <3>2. n % 128 = n
      BY <1>1
    <3> QED BY <1>0, <3>1, <3>2
  <2> QED BY <2>1, <2>2
<1>2. ASSUME n >= 128, n < 16384 PROVE Varint(n) = <<(n % 128) + 128, n \div 128>>
  <2> DEFINE F(i) == ((n \div 128^(i - 1)) % 128) + (IF i < 2 THEN 128 ELSE 0)
             r == <<(n % 128) + 128, n \div 128>>
  <2>1. Varint(n) = [i \in 1..2 |-> F(i)]
    BY <1>0, <1>2 DEF Varint
  <2>2. F(1) = (n % 128) + 128
    BY <1>0
  <2>3. F(2) = n \div 128
    <3>1. (n \div 128) % 128 = n \div 128
      BY <1>2
    <3>2. 2 - 1 = 1 /\ n \div 128 \in Nat
      OBVIOUS
    <3> QED BY <1>0, <3>1, <3>2
  <2> HIDE DEF F
  <2>4. \A i \in 1..2 : i = 1 \/ i = 2
    OBVIOUS
  <2>5. r = [i \in 1..2 |-> r[i]]
    OBVIOUS
  <2>6. r[1] = (n % 128) + 128 /\ r[2] = n \div 128
    OBVIOUS
  <2> HIDE DEF r
  <2>7. \A i \in 1..2 : F(i) = r[i]
    BY <2>2, <2>3, <2>4, <2>6
  <2>8. Varint(n) = r
    BY <2>1, <2>5, <2>7
  <2> QED BY <2>8 DEF r
<1>3. ASSUME n >= 16384, n < 2 * Second
      PROVE  Varint(n) = <<(n % 128) + 128, ((n \div 128) % 128) + 128, n \div 16384>>
  <2> DEFINE F(i) == ((n \div 128^(i - 1)) % 128) + (IF i < 3 THEN 128 ELSE 0)
             r == <<(n % 128) + 128, ((n \div 128) % 128) + 128, n \div 16384>>
  <2>1. Varint(n) = [i \in 1..3 |-> F(i)]
    BY <1>0, <1>3, SMT DEF Varint
  <2>2. F(1) = (n % 128) + 128
    BY <1>0
  <2>3. F(2) = ((n \div 128) % 128) + 128
    <3>1. 2 - 1 = 1
      OBVIOUS
    <3> QED BY <1>0, <3>1
  <2>9. F(3) = n \div 16384
    <3>1. (n \div 16384) % 128 = n \div 16384
      BY <1>3, SMT DEF Second
    <3>2. 3 - 1 = 2 /\ n \div 16384 \in Nat
      OBVIOUS
    <3> QED BY <1>0, <3>1, <3>2
  <2> HIDE DEF F
  <2>4. \A i \in 1..3 : i = 1 \/ i = 2 \/ i = 3
    OBVIOUS
  <2>5. r = [i \in 1..3 |-> r[i]]
    OBVIOUS
  <2>6. r[1] = (n % 128) + 128 /\ r[2] = ((n \div 128) % 128) + 128 /\ r[3] = n \div 16384
    OBVIOUS
  <2> HIDE DEF r
  <2>7. \A i \in 1..3 : F(i) = r[i]
    BY <2>2, <2>3, <2>4, <2>6, <2>9
  <2>8. Varint(n) = r
    BY <2>1, <2>5, <2>7
  <2> QED BY <2>8 DEF r
<1> QED BY <1>1, <1>2, <1>3

Small == {n \in Nat : n < 2 * Second}

\* A small number is written in bytes.
LEMMA VarintType ==
  ASSUME NEW n \in Small
  PROVE  Varint(n) \in Seq(Nat)
<1>1. n \in Nat /\ n % 128 \in Nat /\ n \div 128 \in Nat /\ (n \div 128) % 128 \in Nat /\ n \div 16384 \in Nat
  BY DEF Small
<1>3. CASE n < 128
  <2>1. Varint(n) = <<n>>
    BY <1>1, <1>3, VarintBytes
  <2> QED BY <1>1, <2>1
<1>4. CASE n >= 128 /\ n < 16384
  <2> DEFINE a == (n % 128) + 128
             b == n \div 128
  <2>1. a \in Nat /\ b \in Nat
    BY <1>1
  <2>2. Varint(n) = <<a, b>>
    BY <1>1, <1>4, VarintBytes
  <2> HIDE DEF a, b
  <2> QED BY <2>1, <2>2
<1>5. CASE n >= 16384 /\ n < 2 * Second
  <2> DEFINE a == (n % 128) + 128
             b == ((n \div 128) % 128) + 128
             c == n \div 16384
  <2>1. a \in Nat /\ b \in Nat /\ c \in Nat
    BY <1>1
  <2>2. Varint(n) = <<a, b, c>>
    BY <1>1, <1>5, VarintBytes
  <2> HIDE DEF a, b, c
  <2> QED BY <2>1, <2>2
<1> QED BY <1>1, <1>3, <1>4, <1>5 DEF Small

\* The loop reads back the number Varint wrote.
LEMMA TakeVarint ==
  ASSUME NEW bytes \in Seq(Nat), NEW ns \in Seq(Nat), Whole(TakeBytes(bytes), ns), NEW n \in Small
  PROVE  Whole(TakeBytes(bytes \o Varint(n)), Append(ns, n))
<1>0. n \in Nat
  BY DEF Small
<1>1. CASE n < 128
  <2>1. Varint(n) = <<n>>
    BY <1>0, <1>1, VarintBytes
  <2>2. TakeBytes(bytes \o <<n>>) = TakeByte(TakeBytes(bytes), n)
    BY <1>0, TakeAppend
  <2> QED BY <1>0, <1>1, <2>1, <2>2, FirstByte
<1>2. CASE n >= 128 /\ n < 16384
  <2> DEFINE a == (n % 128) + 128
             b == n \div 128
             bytes1 == bytes \o <<a>>
  <2>1. a \in Nat /\ b \in Nat /\ a >= 128 /\ a % 128 = n % 128 /\ b < 128 /\ n % 128 \in Nat
    BY <1>0, <1>2
  <2>2. Varint(n) = <<a, b>>
    BY <1>0, <1>2, VarintBytes
  <2>3. (n % 128) + (b % 128) * 2^7 = n
    BY <1>0, <1>2
  <2> HIDE DEF a, b
  <2>4. bytes1 \in Seq(Nat) /\ bytes \o <<a, b>> = bytes1 \o <<b>>
    <3>1. <<a, b>> = <<a>> \o <<b>> /\ <<a>> \in Seq(Nat) /\ <<b>> \in Seq(Nat)
      BY <2>1, Pair
    <3> DEFINE sa == <<a>>
               sb == <<b>>
    <3>2. sa \in Seq(Nat) /\ sb \in Seq(Nat)
      BY <3>1
    <3> HIDE DEF sa, sb
    <3>3. (bytes \o sa) \o sb = bytes \o (sa \o sb)
      BY <3>2, CatCat
    <3>4. bytes \o sa \in Seq(Nat)
      BY <3>2, Cat
    <3> QED BY <3>1, <3>3, <3>4 DEF sa, sb
  <2>5. TakeBytes(bytes1) = TakeByte(TakeBytes(bytes), a)
    BY <2>1, TakeAppend
  <2> HIDE DEF bytes1
  <2>6. TakeBytes(bytes1 \o <<b>>) = TakeByte(TakeBytes(bytes1), b)
    BY <2>1, <2>4, TakeAppend
  <2>7. Partial(TakeBytes(bytes1), ns, n % 128, 7)
    BY <2>1, <2>5, FirstByte
  <2> DEFINE x == n % 128
  <2>8. x \in Nat /\ 7 \in {7, 14} /\ Partial(TakeBytes(bytes1), ns, x, 7) /\ x + (b % 128) * 2^7 = n
    BY <2>1, <2>3, <2>7
  <2> HIDE DEF x
  <2>9. Whole(TakeByte(TakeBytes(bytes1), b), Append(ns, x + (b % 128) * 2^7))
    BY <2>1, <2>8, NextByte, ZenonT(30)
  <2> QED BY <2>2, <2>4, <2>6, <2>8, <2>9
<1>3. CASE n >= 16384 /\ n < 2 * Second
  <2> DEFINE a == (n % 128) + 128
             b == ((n \div 128) % 128) + 128
             c == n \div 16384
             bytes1 == bytes \o <<a>>
             bytes2 == bytes1 \o <<b>>
             x == n % 128
             y == x + (b % 128) * 2^7
  <2>1. a \in Nat /\ a >= 128 /\ a % 128 = x /\ x \in Nat
    BY <1>0, <1>3
  <2>2. b \in Nat /\ b >= 128 /\ b % 128 = (n \div 128) % 128 /\ c \in Nat /\ c < 128
    <3>1. n \div 128 \in Nat
      BY <1>0
    <3> QED BY <1>0, <1>3, <3>1, SMT DEF Second
  <2>3. Varint(n) = <<a, b, c>>
    BY <1>0, <1>3, VarintBytes
  <2>4. y \in Nat /\ y + (c % 128) * 2^14 = n
    <3>1. (n \div 128) \div 128 = n \div 16384
      BY <1>0
    <3> DEFINE q == n \div 128
    <3>2. q \in Nat /\ n = 128 * q + x
      BY <1>0
    <3>6. b % 128 = q % 128 /\ c % 128 = c /\ c = q \div 128
      <4>1. b % 128 = q % 128
        BY <2>2
      <4>2. c = q \div 128
        BY <3>1
      <4>3. c % 128 = c
        <5>1. c \in Nat /\ c < 128
          BY <2>2
        <5> HIDE DEF c
        <5> QED BY <5>1
      <4> QED BY <4>1, <4>2, <4>3
    <3>7. 2^7 = 128
      OBVIOUS
    <3>3. y = x + (q % 128) * 128 /\ c % 128 = c /\ c = q \div 128
      <4> HIDE DEF q, b, c, x
      <4> QED BY <3>6, <3>7
    <3> HIDE DEF q, y, c, x
    <3>4. q = 128 * (q \div 128) + (q % 128) /\ q % 128 \in Nat
      BY <3>2
    <3>5. 2^14 = 16384
      OBVIOUS
    <3> QED BY <2>1, <2>2, <3>2, <3>3, <3>4, <3>5
  <2> HIDE DEF a, b, c
  <2>5. bytes1 \in Seq(Nat) /\ bytes2 \in Seq(Nat) /\ bytes \o <<a, b, c>> = bytes2 \o <<c>>
    <3>1. <<a, b, c>> = (<<a>> \o <<b>>) \o <<c>>
      <4>1. a \in Nat /\ b \in Nat /\ c \in Nat
        BY <2>1, <2>2
      <4>2. <<a, b, c>> = <<a, b>> \o <<c>>
        BY <4>1, ThreeIsTwo
      <4>3. <<a, b>> = <<a>> \o <<b>>
        BY <4>1, Pair
      <4> QED BY <4>2, <4>3
    <3> DEFINE sa == <<a>>
               sb == <<b>>
               sc == <<c>>
               sab == sa \o sb
    <3>2. sa \in Seq(Nat) /\ sb \in Seq(Nat) /\ sc \in Seq(Nat)
      BY <2>1, <2>2
    <3> HIDE DEF sa, sb, sc
    <3>3. sab \in Seq(Nat)
      BY <3>2, Cat
    <3>4. (bytes \o sa) \o sb = bytes \o sab
      BY <3>2, NatsCat
    <3> HIDE DEF sab
    <3>5. (bytes \o sab) \o sc = bytes \o (sab \o sc)
      BY <3>2, <3>3, NatsCat, ZenonT(30)
    <3>6. bytes \o sa \in Seq(Nat) /\ bytes \o sab \in Seq(Nat)
      BY <3>2, <3>3, Cat
    <3>7. bytes1 = bytes \o sa /\ bytes2 = bytes \o sab
      BY <3>4 DEF sa, sb
    <3>8. <<a, b, c>> = sab \o sc
      BY <3>1 DEF sab, sa, sb, sc
    <3> QED BY <3>5, <3>6, <3>7, <3>8 DEF sc
  <2>6. TakeBytes(bytes1) = TakeByte(TakeBytes(bytes), a)
    BY <2>1, TakeAppend
  <2> HIDE DEF bytes1
  <2>7. TakeBytes(bytes2) = TakeByte(TakeBytes(bytes1), b)
    BY <2>2, <2>5, TakeAppend
  <2> HIDE DEF bytes2
  <2>8. TakeBytes(bytes2 \o <<c>>) = TakeByte(TakeBytes(bytes2), c)
    BY <2>2, <2>5, TakeAppend
  <2>9. Partial(TakeBytes(bytes1), ns, x, 7)
    BY <2>1, <2>6, FirstByte
  <2> HIDE DEF x
  <2>10. Partial(TakeBytes(bytes2), ns, y, 14)
    <3>1. 7 \in {7, 14} /\ 7 + 7 = 14
      OBVIOUS
    <3>2. Partial(TakeByte(TakeBytes(bytes1), b), ns, x + (b % 128) * 2^7, 7 + 7)
      BY <2>1, <2>2, <2>9, <3>1, NextByte
    <3> QED BY <2>7, <3>1, <3>2
  <2> HIDE DEF y
  <2>11. Whole(TakeByte(TakeBytes(bytes2), c), Append(ns, y + (c % 128) * 2^14))
    <3>1. 14 \in {7, 14}
      OBVIOUS
    <3> QED BY <2>2, <2>4, <2>10, <3>1, NextByte, ZenonT(30)
  <2> QED BY <2>3, <2>4, <2>5, <2>8, <2>11
<1> QED BY <1>1, <1>2, <1>3, <1>0 DEF Small

\* All numbers of a time, one after the other.
Bytes(numbers, k) == FlattenSeq([i \in 1..k |-> Varint(numbers[i])])

\* The bytes of the first k numbers read as these k numbers.
LEMMA TakeNumbers ==
  ASSUME NEW numbers \in Seq(Small), NEW k \in 1..Len(numbers)
  PROVE  Whole(TakeBytes(Bytes(numbers, k)), First(k, numbers))
<1> DEFINE n == Len(numbers)
           P(j) == /\ Bytes(numbers, j) \in Seq(Nat)
                   /\ Whole(TakeBytes(Bytes(numbers, j)), First(j, numbers))
           S == {j \in Nat : j <= n => P(j)}
<1>1. n \in Nat
  OBVIOUS
<1>2. 0 \in S
  <2> DEFINE e == [i \in 1..0 |-> Varint(numbers[i])]
             f == [i \in 1..0 |-> numbers[i]]
  <2>1. e = <<>> /\ f = <<>>
    OBVIOUS
  <2>2. Bytes(numbers, 0) = <<>> /\ First(0, numbers) = <<>>
    <3> HIDE DEF e, f
    <3> QED BY <2>1, FlattenEmpty DEF Bytes, First, e, f
  <2>3. Whole(Start, <<>>)
    BY DEF Whole, Start
  <2>4. <<>> \in Seq(Nat)
    OBVIOUS
  <2>5. P(0)
    BY <2>2, <2>3, <2>4, TakeNothing
  <2> HIDE DEF P
  <2> QED BY <2>5
<1>3. ASSUME NEW j \in Nat, j \in S PROVE j + 1 \in S
  <2>1. CASE j + 1 <= n
    <3> DEFINE ps == [i \in 1..(j + 1) |-> Varint(numbers[i])]
               v  == Varint(numbers[j + 1])
               T  == Seq(Nat)
               b  == Bytes(numbers, j)
    <3>1. P(j)
      BY <1>1, <1>3, <2>1
    <3>2. \A i \in 1..(j + 1) : numbers[i] \in Small
      BY <1>1, <2>1
    <3>3. \A i \in 1..(j + 1) : Varint(numbers[i]) \in T
      BY <3>2, VarintType
    <3>4. \A i \in 1..(j + 1) : ps[i] \in T
      BY <3>3
    <3>5. IsListed(ps, j + 1) /\ j + 1 \in Nat
      BY DEF IsListed
    <3>6. ps \in Seq(Seq(Nat)) /\ Len(ps) = j + 1
      <4> HIDE DEF ps, T
      <4>1. ps \in Seq(T) /\ Len(ps) = j + 1
        BY <3>4, <3>5, MakeSeq
      <4> QED BY <4>1 DEF T
    <3>7. First(j, ps) = [i \in 1..j |-> Varint(numbers[i])] /\ ps[j + 1] = v
      BY DEF First
    <3>8. Bytes(numbers, j + 1) = FlattenSeq(ps)
      BY DEF Bytes
    <3>9. FlattenSeq(ps) = b \o v
      <4> HIDE DEF ps, v
      <4>1. FlattenSeq(ps) = FlattenSeq(First(j, ps)) \o ps[j + 1]
        BY <3>6, FlattenPieces
      <4> QED BY <3>7, <4>1 DEF Bytes
    <3>10. v \in Seq(Nat) /\ numbers[j + 1] \in Small
      BY <3>2, <3>3
    <3>11. First(j, numbers) \in Seq(Nat) /\ First(j + 1, numbers) = Append(First(j, numbers), numbers[j + 1])
      <4> DEFINE f == First(j, numbers)
                 g == First(j + 1, numbers)
                 h == Append(f, numbers[j + 1])
      <4>1. \A i \in 1..j : i \in 1..(j + 1) /\ numbers[i] \in Nat
        BY <3>2 DEF Small
      <4>2. f \in Seq(Nat) /\ Len(f) = j /\ \A i \in 1..j : f[i] = numbers[i]
        BY <4>1 DEF First
      <4>3. numbers[j + 1] \in Nat
        BY <3>10 DEF Small
      <4>4. g \in Seq(Nat) /\ Len(g) = j + 1 /\ \A i \in 1..(j + 1) : g[i] = numbers[i]
        BY <3>2 DEF First, Small
      <4> HIDE DEF f, g
      <4>5. h \in Seq(Nat) /\ Len(h) = j + 1 /\ \A i \in 1..(j + 1) : h[i] = numbers[i]
        BY <4>2, <4>3
      <4> HIDE DEF h
      <4>6. g = h
        BY <4>4, <4>5, SeqEqual
      <4> QED BY <4>2, <4>6 DEF f, g, h
    <3>12. b \in Seq(Nat) /\ Whole(TakeBytes(b), First(j, numbers))
      BY <3>1
    <3> HIDE DEF b, P, ps
    <3>13. Whole(TakeBytes(b \o v), Append(First(j, numbers), numbers[j + 1]))
      BY <3>10, <3>11, <3>12, TakeVarint
    <3> HIDE DEF v
    <3>14. b \o v \in Seq(Nat)
      BY <3>10, <3>12, Cat
    <3>15. P(j + 1)
      BY <3>8, <3>9, <3>11, <3>13, <3>14 DEF P
    <3> QED BY <3>15
  <2>2. CASE ~(j + 1 <= n)
    BY <2>2
  <2> QED BY <2>1, <2>2
<1>4. Nat \subseteq S
  <2> HIDE DEF S
  <2> QED BY <1>2, <1>3, NatSet
<1>5. k \in Nat /\ k <= n
  BY <1>1
<1> HIDE DEF n, P
<1>6. P(k)
  BY <1>4, <1>5
<1> QED BY <1>6 DEF P

\* The number of digits printed is the one the scale undoes.
Fits(n, d) == n < 10^d /\ (d = 1 \/ n >= 10^(d - 1))

\* The powers of ten up to a second.
LEMMA Powers ==
  /\ 10^0 = 1 /\ 10^1 = 10 /\ 10^2 = 100 /\ 10^3 = 1000
  /\ 10^4 = 10000 /\ 10^5 = 100000 /\ 10^6 = Second
  BY SMT DEF Second

\* The one number of digits that fits is Digits.
LEMMA FitsOnce ==
  ASSUME NEW n \in Nat, NEW k \in 1..6, \A d \in 1..6 : Fits(n, d) <=> d = k
  PROVE  Digits(n) = k
<1>1. Digits(n) = CHOOSE d \in 1..6 : Fits(n, d)
  BY DEF Digits, Fits
<1> QED BY <1>1

\* The power of ten a fraction of n is scaled by.
LEMMA DigitsScale ==
  ASSUME NEW n \in Nat, n < Second
  PROVE  Digits(n) \in 1..6 /\ 10^(6 - Digits(n)) = Scale(n)
<1>1. \A d \in 1..6 : d = 1 \/ d = 2 \/ d = 3 \/ d = 4 \/ d = 5 \/ d = 6
  BY SMT
<1> DEFINE F(d) == Fits(n, d)
<1>2. /\ F(1) <=> n < 10
      /\ F(2) <=> n < 100 /\ n >= 10
      /\ F(3) <=> n < 1000 /\ n >= 100
      /\ F(4) <=> n < 10000 /\ n >= 1000
      /\ F(5) <=> n < 100000 /\ n >= 10000
      /\ F(6) <=> n < Second /\ n >= 100000
  BY Powers, SMT DEF Fits
<1> HIDE DEF F
<1>3. CASE n < 10
  <2>1. \A d \in 1..6 : F(d) <=> d = 1
    BY <1>1, <1>2, <1>3, SMT
  <2>2. Digits(n) = 1
    BY <2>1, FitsOnce, SMT DEF F
  <2>3. Scale(n) = 100000
    BY <1>3, SMT DEF Scale
  <2> QED BY <2>2, <2>3, SMT
<1>4. CASE 10 <= n /\ n < 100
  <2>1. \A d \in 1..6 : F(d) <=> d = 2
    BY <1>1, <1>2, <1>4, SMT
  <2>2. Digits(n) = 2
    BY <2>1, FitsOnce, SMT DEF F
  <2>3. Scale(n) = 10000
    BY <1>4, SMT DEF Scale
  <2> QED BY <2>2, <2>3, SMT
<1>5. CASE 100 <= n /\ n < 1000
  <2>1. \A d \in 1..6 : F(d) <=> d = 3
    BY <1>1, <1>2, <1>5, SMT
  <2>2. Digits(n) = 3
    BY <2>1, FitsOnce, SMT DEF F
  <2>3. Scale(n) = 1000
    BY <1>5, SMT DEF Scale
  <2> QED BY <2>2, <2>3, SMT
<1>6. CASE 1000 <= n /\ n < 10000
  <2>1. \A d \in 1..6 : F(d) <=> d = 4
    BY <1>1, <1>2, <1>6, SMT
  <2>2. Digits(n) = 4
    BY <2>1, FitsOnce, SMT DEF F
  <2>3. Scale(n) = 100
    BY <1>6, SMT DEF Scale
  <2> QED BY <2>2, <2>3, SMT
<1>7. CASE 10000 <= n /\ n < 100000
  <2>1. \A d \in 1..6 : F(d) <=> d = 5
    BY <1>1, <1>2, <1>7, SMT
  <2>2. Digits(n) = 5
    BY <2>1, FitsOnce, SMT DEF F
  <2>3. Scale(n) = 10
    BY <1>7, SMT DEF Scale
  <2> QED BY <2>2, <2>3, SMT
<1>8. CASE 100000 <= n /\ n < Second
  <2>1. \A d \in 1..6 : F(d) <=> d = 6
    BY <1>1, <1>2, <1>8, SMT
  <2>2. Digits(n) = 6
    BY <2>1, FitsOnce, SMT DEF F
  <2>3. Scale(n) = 1
    BY <1>8, SMT DEF Scale
  <2> QED BY <2>2, <2>3, SMT
<1> QED BY <1>3, <1>4, <1>5, <1>6, <1>7, <1>8, SMT

-----------------------------------------------------------------------------
(* The times the server sends                                                *)

\* The times of the one minute.
Stored == {t \in Nat : t < 60 * Second}

\* Seconds and fraction of a stored time.
LEMMA StoredParts ==
  ASSUME NEW t \in Stored
  PROVE  /\ t \div Second \in 0..59
         /\ t % Second \in Nat /\ t % Second < Second
         /\ t = (t \div Second) * Second + (t % Second)
  BY SMT DEF Second, Stored

\* What is sent, and what the loop over its bytes makes of it: the numbers that
\* were not left out.
LEMMA WireTaken ==
  ASSUME NEW t \in Stored
  PROVE  LET numbers == Minute \o <<t \div Second, t % Second>>
             sent    == IF t = 0 THEN 3 ELSE IF t % Second = 0 THEN 6 ELSE 7 IN
         Whole(TakeBytes(Wire(t)), First(sent, numbers))
<1> DEFINE s == t \div Second
           u == t % Second
           numbers == Minute \o <<s, u>>
           sent == IF t = 0 THEN 3 ELSE IF u = 0 THEN 6 ELSE 7
<1>1. Wire(t) = Bytes(numbers, sent)
  BY DEF Wire, Bytes
<1>2. s \in Small /\ u \in Small
  <2>1. s \in 0..59 /\ u \in Nat /\ u < Second
    BY StoredParts
  <2> HIDE DEF s, u
  <2> QED BY <2>1, SMT DEF Small, Second
<1>3. 2023 \in Small /\ 1 \in Small /\ 0 \in Small
  BY SMT DEF Small, Second
<1> HIDE DEF s, u
<1> DEFINE a == 2023
<1>4. a \in Small
  BY <1>3
<1>5. Minute = <<a, 1, 1, 0, 0>>
  BY DEF Minute
<1> HIDE DEF a
<1>6. numbers \in Seq(Small) /\ Len(numbers) = 7
  BY <1>2, <1>3, <1>4, <1>5
<1>7. sent \in 1..7
  OBVIOUS
<1> HIDE DEF numbers, sent
<1>8. Whole(TakeBytes(Bytes(numbers, sent)), First(sent, numbers))
  BY <1>6, <1>7, TakeNumbers
<1> QED BY <1>1, <1>8 DEF numbers, sent, s, u

\* Every field is set from the number that was written, sent or not.
LEMMA WireFields ==
  ASSUME NEW t \in Stored
  PROVE  LET end == TakeBytes(Wire(t)) IN
         /\ ~end.thrown /\ Len(end.numbers) >= 3
         /\ \A i \in 1..5 : Field(end.numbers, i) = Minute[i]
         /\ Field(end.numbers, 6) = t \div Second
         /\ Field(end.numbers, 7) = t % Second
<1> DEFINE s == t \div Second
           u == t % Second
           a == 2023
           numbers == <<a, 1, 1, 0, 0, s, u>>
           sent == IF t = 0 THEN 3 ELSE IF u = 0 THEN 6 ELSE 7
           end == TakeBytes(Wire(t))
           got == First(sent, numbers)
<1>0. s \in Nat /\ u \in Nat /\ a \in Nat
  BY StoredParts
<1>1. t = 0 => s = 0 /\ u = 0
  BY SMT DEF Second
<1>2. Minute = <<a, 1, 1, 0, 0>>
  BY DEF Minute
<1>3. Whole(end, First(sent, Minute \o <<s, u>>))
  BY WireTaken
<1> HIDE DEF s, u, a, end
<1>4. Minute \o <<s, u>> = numbers
  <2> DEFINE l == <<a, 1, 1, 0, 0>> \o <<s, u>>
  <2>1. l \in Seq(Nat) /\ Len(l) = 7
    BY <1>0
  <2>2. numbers \in Seq(Nat) /\ Len(numbers) = 7
    BY <1>0
  <2>3. \A i \in 1..7 : l[i] = numbers[i]
    BY <1>0
  <2>4. Minute \o <<s, u>> = l
    BY <1>2
  <2> HIDE DEF l, numbers
  <2> QED BY <2>1, <2>2, <2>3, <2>4, SeqEqual
<1>5. Whole(end, got)
  BY <1>3, <1>4
<1>6. IsListed(got, sent) /\ \A i \in 1..sent : got[i] = numbers[i]
  <2> HIDE DEF numbers, sent
  <2> QED BY DEF First, IsListed
<1>7. sent \in Nat /\ sent >= 3 /\ sent <= 7
  OBVIOUS
<1>8. Len(got) = sent
  <2> HIDE DEF got, sent
  <2> QED BY <1>6, <1>7, LenListed
<1>9. \A i \in 1..7 : ~(i <= sent) => numbers[i] = 0
  <2>1. \A i \in 1..7 : i = 1 \/ i = 2 \/ i = 3 \/ i = 4 \/ i = 5 \/ i = 6 \/ i = 7
    OBVIOUS
  <2>2. /\ numbers[4] = 0 /\ numbers[5] = 0 /\ numbers[6] = s /\ numbers[7] = u
    OBVIOUS
  <2> HIDE DEF numbers
  <2>3. CASE t = 0
    BY <1>1, <2>1, <2>2, <2>3
  <2>4. CASE t # 0
    BY <2>1, <2>2, <2>4
  <2> QED BY <2>3, <2>4
<1>10. numbers[1] = Minute[1] /\ numbers[2] = Minute[2] /\ numbers[3] = Minute[3]
       /\ numbers[4] = Minute[4] /\ numbers[5] = Minute[5] /\ numbers[6] = s /\ numbers[7] = u
  BY <1>2
<1> HIDE DEF numbers, sent, got
<1>11. ASSUME NEW i \in 1..7 PROVE Field(end.numbers, i) = numbers[i]
  <2>1. end.numbers = got
    BY <1>5 DEF Whole
  <2>2. CASE i <= sent
    <3>1. i \in 1..sent
      BY <1>7, <2>2
    <3> QED BY <1>6, <1>8, <2>1, <2>2, <3>1 DEF Field
  <2>3. CASE ~(i <= sent)
    BY <1>8, <1>9, <2>1, <2>3 DEF Field
  <2> QED BY <2>2, <2>3
<1>12. ~end.thrown /\ Len(end.numbers) >= 3
  BY <1>5, <1>7, <1>8 DEF Whole
<1>13. \A i \in 1..5 : Field(end.numbers, i) = Minute[i]
  <2>1. \A i \in 1..5 : i \in 1..7 /\ (i = 1 \/ i = 2 \/ i = 3 \/ i = 4 \/ i = 5)
    OBVIOUS
  <2> QED BY <1>10, <1>11, <2>1
<1>14. Field(end.numbers, 6) = s /\ Field(end.numbers, 7) = u
  <2>1. 6 \in 1..7 /\ 7 \in 1..7
    OBVIOUS
  <2> QED BY <1>10, <1>11, <2>1
<1> QED BY <1>12, <1>13, <1>14 DEF end, s, u

\* The decoder reads every time of the minute, and loses the zeros in front of
\* the microseconds.
LEMMA TimeIsRead ==
  ASSUME NEW t \in Stored
  PROVE  /\ ~ReadTime(Wire(t)).thrown
         /\ ReadTime(Wire(t)).text \in TimeText
         /\ Parse(ReadTime(Wire(t)).text) = Moved(t)
<1> DEFINE end == TakeBytes(Wire(t))
           F(i) == Field(end.numbers, i)
           s == t \div Second
           u == t % Second
           text == [minute |-> [i \in 1..5 |-> F(i)], second |-> F(6),
                    fraction |-> F(7), width |-> Digits(F(7))]
           refused == \/ end.thrown \/ Len(end.numbers) < 3
                      \/ F(1) >= 2^16 \/ \E i \in 2..6 : F(i) >= 2^8
<1>1. /\ ~end.thrown /\ Len(end.numbers) >= 3
      /\ \A i \in 1..5 : F(i) = Minute[i]
      /\ F(6) = s /\ F(7) = u
  BY WireFields
<1>2. s \in 0..59 /\ u \in Nat /\ u < Second
  BY StoredParts
<1>3. /\ Minute[1] < 2^16 /\ \A i \in 2..5 : Minute[i] < 2^8
      /\ Minute = [i \in 1..5 |-> Minute[i]]
      /\ \A i \in 1..5 : Minute[i] \in Nat
  <2>1. 2^16 = 65536 /\ 2^8 = 256
    BY SMT
  <2> QED BY <2>1, SMT DEF Minute
<1>4. ReadTime(Wire(t)) = [thrown |-> refused, text |-> IF refused THEN FormatStr(0) ELSE text]
  BY DEF ReadTime
<1> HIDE DEF end, F, s, u
<1>5. Len(end.numbers) \in Nat => ~refused
  <2>1. 2^16 = 65536 /\ 2^8 = 256
    BY SMT
  <2>2. \A i \in 2..6 : ~(F(i) >= 2^8)
    <3>1. \A i \in 2..6 : i = 6 \/ i \in 2..5
      OBVIOUS
    <3>2. \A i \in 2..5 : i \in 1..5
      OBVIOUS
    <3>3. ~(F(6) >= 2^8)
      BY <1>1, <1>2, <2>1, SMT
    <3>4. ASSUME NEW i \in 2..5 PROVE ~(F(i) >= 2^8)
      BY <1>1, <1>3, <2>1, <3>2, SMT
    <3> QED BY <3>1, <3>3, <3>4
  <2>3. ~(F(1) >= 2^16)
    <3>1. 1 \in 1..5
      OBVIOUS
    <3> QED BY <1>1, <1>3, <2>1, <3>1, SMT
  <2> QED BY <1>1, <2>2, <2>3, SMT
<1>6. Len(end.numbers) \in Nat
  <2> DEFINE numbers == Minute \o <<s, u>>
             sent == IF t = 0 THEN 3 ELSE IF u = 0 THEN 6 ELSE 7
  <2>1. end.numbers = First(sent, numbers)
    BY WireTaken DEF Whole, end, s, u
  <2>2. IsListed(First(sent, numbers), sent)
    <3> HIDE DEF sent, numbers
    <3> QED BY DEF IsListed, First
  <2>3. sent \in Nat
    OBVIOUS
  <2> HIDE DEF numbers, sent
  <2> QED BY <2>1, <2>2, <2>3, LenListed
<1>7. refused = FALSE
  BY <1>5, <1>6
<1> HIDE DEF refused
<1>8. ReadTime(Wire(t)) = [thrown |-> FALSE, text |-> text]
  BY <1>4, <1>7
<1>9. text = [minute |-> Minute, second |-> s, fraction |-> u, width |-> Digits(u)]
  <2>1. [i \in 1..5 |-> F(i)] = Minute
    BY <1>1, <1>3
  <2> QED BY <1>1, <2>1
<1> HIDE DEF text
<1>10. Digits(u) \in 1..6 /\ 10^(6 - Digits(u)) = Scale(u)
  BY <1>2, DigitsScale
<1>11. text \in TimeText
  BY <1>2, <1>9, <1>10 DEF TimeText
<1>12. Parse(text) = s * Second + u * Scale(u)
  BY <1>9, <1>10 DEF Parse
<1> QED BY <1>8, <1>11, <1>12 DEF Moved, s, u

-----------------------------------------------------------------------------
(* The clock: what one trip to the program and back does to a time           *)

\* Printing microseconds without leading zeros multiplies them by a power of
\* ten, and leaves them under a second.
LEMMA ScaleBounds ==
  ASSUME NEW m \in Nat, m < Second
  PROVE  /\ m * Scale(m) \in Nat /\ m * Scale(m) < Second
         /\ m <= m * Scale(m)
         /\ (m * Scale(m)) * Scale(m * Scale(m)) = m * Scale(m)
<1>0. \A n \in Nat : n = 0 \/ (100000 <= n /\ n < Second) => n * Scale(n) = n
  <2>1. \A n \in Nat : 100000 <= n => Scale(n) = 1
    BY SMT DEF Scale, Second
  <2>2. Scale(0) = 100000
    BY SMT DEF Scale
  <2> QED
    BY <2>1, <2>2, SMT DEF Second
<1>1. CASE m = 0 \/ 100000 <= m
  BY <1>0, <1>1, SMT DEF Second
<1>2. CASE 1 <= m /\ m < 10
  <2>1. Scale(m) = 100000
    BY <1>2, SMT DEF Scale, Second
  <2>2. m * 100000 \in Nat /\ m * 100000 < Second /\ m <= m * 100000 /\ 100000 <= m * 100000
    BY <1>2, SMT DEF Second
  <2> QED
    BY <1>0, <2>1, <2>2
<1>3. CASE 10 <= m /\ m < 100
  <2>1. Scale(m) = 10000
    BY <1>3, SMT DEF Scale, Second
  <2>2. m * 10000 \in Nat /\ m * 10000 < Second /\ m <= m * 10000 /\ 100000 <= m * 10000
    BY <1>3, SMT DEF Second
  <2> QED
    BY <1>0, <2>1, <2>2
<1>4. CASE 100 <= m /\ m < 1000
  <2>1. Scale(m) = 1000
    BY <1>4, SMT DEF Scale, Second
  <2>2. m * 1000 \in Nat /\ m * 1000 < Second /\ m <= m * 1000 /\ 100000 <= m * 1000
    BY <1>4, SMT DEF Second
  <2> QED
    BY <1>0, <2>1, <2>2
<1>5. CASE 1000 <= m /\ m < 10000
  <2>1. Scale(m) = 100
    BY <1>5, SMT DEF Scale, Second
  <2>2. m * 100 \in Nat /\ m * 100 < Second /\ m <= m * 100 /\ 100000 <= m * 100
    BY <1>5, SMT DEF Second
  <2> QED
    BY <1>0, <2>1, <2>2
<1>6. CASE 10000 <= m /\ m < 100000
  <2>1. Scale(m) = 10
    BY <1>6, SMT DEF Scale, Second
  <2>2. m * 10 \in Nat /\ m * 10 < Second /\ m <= m * 10 /\ 100000 <= m * 10
    BY <1>6, SMT DEF Second
  <2> QED
    BY <1>0, <2>1, <2>2
<1> QED
  BY <1>1, <1>2, <1>3, <1>4, <1>5, <1>6, SMT DEF Second

\* A time of s seconds and m microseconds.
LEMMA Parts ==
  ASSUME NEW s \in Nat, NEW m \in Nat, m < Second
  PROVE  (s * Second + m) \div Second = s /\ (s * Second + m) % Second = m
  BY SMT DEF Second

\* Seconds and fraction of any time.
LEMMA Divided ==
  ASSUME NEW t \in Nat
  PROVE  /\ t \div Second \in Nat
         /\ t % Second \in Nat /\ t % Second < Second
         /\ t = (t \div Second) * Second + (t % Second)
  BY SMT DEF Second

\* The decoder moves a time to the future, within its second, and once.
LEMMA MovedBounds ==
  ASSUME NEW t \in Nat
  PROVE  /\ Moved(t) \in Nat
         /\ t <= Moved(t)
         /\ Moved(t) < t + Second
         /\ Moved(t) \div Second = t \div Second
         /\ Moved(Moved(t)) = Moved(t)
<1> DEFINE s == t \div Second
           m == t % Second
           n == m * Scale(m)
<1>1. s \in Nat /\ m \in Nat /\ m < Second /\ t = s * Second + m
  BY Divided
<1>2. n \in Nat /\ n < Second /\ m <= n /\ n * Scale(n) = n
  BY <1>1, ScaleBounds
<1>3. Moved(t) = s * Second + n
  BY DEF Moved
<1> HIDE DEF s, m, n
<1>4. Moved(t) \div Second = s /\ Moved(t) % Second = n
  BY <1>1, <1>2, <1>3, Parts
<1>5. Moved(Moved(t)) = s * Second + n * Scale(n)
  BY <1>4 DEF Moved
<1>6. s * Second \in Nat
  BY <1>1, SMT DEF Second
<1>7. Moved(t) \div Second = t \div Second
  BY <1>4 DEF s
<1> QED
  BY <1>1, <1>2, <1>3, <1>5, <1>6, <1>7, SMT DEF Second

-----------------------------------------------------------------------------
(* RowTimes, of the rows and copies as the texts have them                   *)

\* RowTimes has the same clock.
LEMMA SameClock == Times!Second = Second /\ \A t : Times!Moved(t) = Moved(t)
  BY SMT DEF Times!Second, Second, Times!Moved, Moved, Times!Scale, Scale

\* A time that moves moves forward within its second, and only once.
LEMMA TimesMovedBounds ==
  ASSUME NEW t \in Nat
  PROVE  /\ Times!Moved(t) \in Nat
         /\ t <= Times!Moved(t)
         /\ Times!Moved(t) < t + Times!Second
         /\ Times!Moved(t) \div Times!Second = t \div Times!Second
         /\ Times!Moved(Times!Moved(t)) = Times!Moved(t)
<1>1. /\ Moved(t) \in Nat /\ t <= Moved(t) /\ Moved(t) < t + Second
      /\ Moved(t) \div Second = t \div Second /\ Moved(Moved(t)) = Moved(t)
  BY MovedBounds
<1> QED BY <1>1, SameClock

\* The clocks are natural numbers.
LEMMA NowIsNat ==
  ASSUME Times!TypeOK
  PROVE  real \in Nat /\ late \in Nat /\ Times!Now \in Nat /\ Back <= real
  BY ClockAssumption DEF Times!TypeOK, Times!Now

\* The clock model's invariant holds at the start.
LEMMA InitHolds == Times!Init => Times!IInv
  BY ClockAssumption DEF Times!Init, Times!IInv, Times!TypeOK

\* Only the clock moves.
LEMMA ClockKeeps ==
  ASSUME Times!IInv, real' \in Instants, real' >= real, late' \in {0, Back}, late' >= late,
         UNCHANGED <<Rows, Copies>>
  PROVE  Times!IInv'
<1>1. Times!TypeOK'
  BY DEF Times!IInv, Times!TypeOK
<1>2. real \in Nat /\ real' \in Nat /\ late \in Nat /\ late' \in Nat /\ Back \in Nat
  BY ClockAssumption DEF Times!IInv, Times!TypeOK
<1>3. ASSUME NEW t, NEW since, Times!ClockShowed(t, since)
      PROVE  \E l \in {0, Back} : l <= late' /\ t = since - l
  <2>1. PICK l \in {0, Back} : l <= late /\ t = since - l
    BY <1>3 DEF Times!ClockShowed
  <2>2. l <= late'
    BY <1>2, <2>1
  <2> QED
    BY <2>1, <2>2
<1>4. ASSUME NEW k \in DOMAIN Rows
      PROVE  Times!RowInv(Rows[k])'
  <2>1. Rows[k] \in Times!Row /\ Times!RowInv(Rows[k])
    BY <1>4 DEF Times!IInv, Times!TypeOK
  <2> QED
    BY <1>2, <1>3, <2>1 DEF Times!RowInv, Times!Row, Times!ClockShowed
<1>5. ASSUME NEW p \in Process, NEW c \in Copies[p]
      PROVE  Times!CopyInv(c)'
  <2>1. c \in Times!Copy /\ Times!CopyInv(c)
    BY <1>5 DEF Times!IInv, Times!TypeOK
  <2> QED
    BY <1>2, <1>3, <2>1 DEF Times!CopyInv, Times!Copy, Times!ClockShowed
<1> QED
  BY <1>1, <1>4, <1>5 DEF Times!IInv

\* A query keeps it.
LEMMA QueryKeeps ==
  ASSUME NEW p \in Process, Times!IInv, Times!Query(p)
  PROVE  Times!IInv'
<1>1. PICK K \in SUBSET DOMAIN Rows :
        Copies' = [Copies EXCEPT ![p] =
          {[key |-> k, create |-> Times!Moved(Rows[k].create),
            renewed |-> Times!Moved(Rows[k].renewed), since |-> Rows[k].since] : k \in K}]
  BY DEF Times!Query
<1>2. UNCHANGED <<real, late, Rows>>
  BY DEF Times!Query
<1>3. ASSUME NEW k \in K
      PROVE  /\ Rows[k] \in Times!Row /\ Times!RowInv(Rows[k]) /\ k \in DOMAIN Rows /\ k \in Key
             /\ Times!Moved(Rows[k].create) = Times!Moved(Rows[k].born)
             /\ Times!Moved(Rows[k].create) \in Nat /\ Times!Moved(Rows[k].renewed) \in Nat
  <2>1. Rows[k] \in Times!Row /\ Times!RowInv(Rows[k]) /\ k \in DOMAIN Rows /\ k \in Key
    BY <1>3 DEF Times!IInv, Times!TypeOK
  <2>2. Rows[k].create \in Nat /\ Rows[k].renewed \in Nat /\ Rows[k].born \in Nat
    BY <2>1 DEF Times!Row
  <2> QED
    BY <2>1, <2>2, TimesMovedBounds DEF Times!RowInv
<1>4. ASSUME NEW q \in Process, NEW c \in Copies'[q]
      PROVE  c \in Times!Copy /\ Times!CopyInv(c)'
  <2>1. CASE c \in Copies[q]
    BY <1>2, <2>1 DEF Times!IInv, Times!TypeOK, Times!CopyInv, Times!ClockShowed
  <2>2. CASE c \notin Copies[q]
    <3>1. q = p /\ p \in DOMAIN Copies
      BY <1>1, <2>2, <1>4
    <3>2. PICK k \in K : c = [key |-> k, create |-> Times!Moved(Rows[k].create),
                              renewed |-> Times!Moved(Rows[k].renewed), since |-> Rows[k].since]
      BY <1>1, <1>4, <3>1
    <3>3. c.key = k /\ c.create = Times!Moved(Rows[k].create)
          /\ c.renewed = Times!Moved(Rows[k].renewed) /\ c.since = Rows[k].since
      BY <3>2
    <3>4. Rows[k].since \in Nat /\ Rows[k].renewed \in Nat
      BY <1>3 DEF Times!Row
    <3>5. c \in Times!Copy
      BY <1>3, <3>2, <3>4 DEF Times!Copy
    <3>6. Times!CopyInv(c)
      BY <1>3, <3>3, <3>4 DEF Times!CopyInv, Times!RowInv
    <3> QED
      BY <1>2, <3>5, <3>6 DEF Times!CopyInv, Times!ClockShowed
  <2> QED
    BY <2>1, <2>2
<1>5. Times!TypeOK'
  BY <1>2, <1>4 DEF Times!IInv, Times!TypeOK
<1>6. \A k \in DOMAIN Rows : Times!RowInv(Rows[k])'
  BY <1>2 DEF Times!IInv, Times!RowInv, Times!ClockShowed
<1> QED
  BY <1>2, <1>4, <1>5, <1>6 DEF Times!IInv

\* Rows change, and some copies are forgotten: what has to hold of the rows.
LEMMA RowsKeep ==
  ASSUME Times!IInv, UNCHANGED <<real, late>>,
         DOMAIN Rows \subseteq DOMAIN Rows', DOMAIN Rows' \subseteq Key,
         Rows' \in [DOMAIN Rows' -> Times!Row],
         \A p \in Process : Copies'[p] \subseteq Copies[p],
         \A k \in DOMAIN Rows' : Times!RowInv(Rows'[k]),
         \A k \in DOMAIN Rows : Rows'[k].born = Rows[k].born
  PROVE  Times!IInv'
<1>1. Times!TypeOK'
  BY DEF Times!IInv, Times!TypeOK
<1>2. ASSUME NEW k \in DOMAIN Rows'
      PROVE  Times!RowInv(Rows[k])'
  BY <1>2 DEF Times!RowInv, Times!ClockShowed
<1>3. ASSUME NEW p \in Process, NEW c \in Copies'[p]
      PROVE  Times!CopyInv(c)'
  <2>1. c \in Times!Copy /\ Times!CopyInv(c)
    BY <1>3 DEF Times!IInv, Times!TypeOK
  <2>2. c.key \in DOMAIN Rows' /\ Rows'[c.key].born = Rows[c.key].born
    BY <2>1 DEF Times!CopyInv, Times!Copy
  <2> QED
    BY <2>1, <2>2 DEF Times!CopyInv, Times!ClockShowed
<1> QED
  BY <1>1, <1>2, <1>3 DEF Times!IInv

\* A row inserted or renewed now.
LEMMA InsertKeeps ==
  ASSUME Times!IInv, Times!Insert
  PROVE  Times!IInv'
<1>1. PICK K \in SUBSET (Key \ DOMAIN Rows) :
        Rows' = [k \in DOMAIN Rows \cup K |-> IF k \in K
                 THEN [create |-> Times!Now, renewed |-> Times!Now, born |-> Times!Now, since |-> real]
                 ELSE Rows[k]]
  BY DEF Times!Insert
<1> DEFINE new == [create |-> Times!Now, renewed |-> Times!Now, born |-> Times!Now, since |-> real]
<1>2. real \in Nat /\ late \in Nat /\ Times!Now \in Nat /\ Back <= real /\ UNCHANGED <<real, late, Copies>>
  BY NowIsNat DEF Times!IInv, Times!Insert
<1>3. new \in Times!Row
  BY <1>2 DEF Times!Row
<1>4. Times!RowInv(new)
  BY <1>2 DEF Times!RowInv, Times!ClockShowed, Times!IInv, Times!TypeOK, Times!Now
<1>5. DOMAIN Rows' = DOMAIN Rows \cup K /\ Rows' \in [DOMAIN Rows' -> Times!Row] /\ DOMAIN Rows' \subseteq Key
  BY <1>1, <1>3 DEF Times!IInv, Times!TypeOK
<1>6. \A k \in DOMAIN Rows' : Times!RowInv(Rows'[k])
  <2>1. \A k \in DOMAIN Rows' : Rows'[k] = new \/ (k \in DOMAIN Rows /\ Rows'[k] = Rows[k])
    BY <1>1
  <2> HIDE DEF new
  <2> QED
    BY <1>4, <2>1 DEF Times!IInv
<1>7. \A k \in DOMAIN Rows : Rows'[k] = Rows[k]
  BY <1>1
<1> QED
  BY <1>2, <1>5, <1>6, <1>7, RowsKeep

\* A row renewed from a copy keeps to the invariant of a row.
LEMMA RenewedHolds ==
  ASSUME Times!IInv, NEW p \in Process, NEW c \in Copies[p], NEW kept \in BOOLEAN
  PROVE  /\ Times!Renewed(Rows[c.key], c, kept) \in Times!Row
         /\ Times!RowInv(Times!Renewed(Rows[c.key], c, kept))
         /\ Times!Renewed(Rows[c.key], c, kept).born = Rows[c.key].born
<1> DEFINE row == Rows[c.key]
           new == Times!Renewed(row, c, kept)
<1>1. c \in Times!Copy /\ Times!CopyInv(c) /\ c.key \in Key
  BY DEF Times!IInv, Times!TypeOK, Times!Copy
<1>2. row \in Times!Row /\ Times!RowInv(row) /\ c.create = Times!Moved(row.born) /\ c.create \in Nat
  BY <1>1 DEF Times!IInv, Times!TypeOK, Times!CopyInv, Times!Copy
<1>3. real \in Nat /\ late \in Nat /\ Times!Now \in Nat /\ Back <= real /\ late \in {0, Back}
  BY NowIsNat DEF Times!IInv, Times!TypeOK
<1> HIDE DEF row
<1>4. /\ new.create \in {row.create, c.create} /\ new.renewed = Times!Now
      /\ new.born = row.born /\ new.since = real
  BY <1>2 DEF Times!Renewed, Times!Row
<1>5. new \in Times!Row
  BY <1>2, <1>3 DEF Times!Renewed, Times!Row
<1> HIDE DEF new
<1>6. Times!RowInv(new)
  <2>1. new.create \in {new.born, Times!Moved(new.born)}
    BY <1>2, <1>4 DEF Times!RowInv
  <2>2. Times!ClockShowed(new.renewed, new.since)
    BY <1>3, <1>4 DEF Times!ClockShowed, Times!Now
  <2> QED
    BY <1>3, <1>4, <2>1, <2>2 DEF Times!RowInv
<1> QED
  BY <1>4, <1>5, <1>6 DEF new, row

\* An update keeps it.
LEMMA UpdateKeeps ==
  ASSUME NEW p \in Process, Times!IInv, Times!Update(p)
  PROVE  Times!IInv'
<1>1. PICK c \in Copies[p], kept \in BOOLEAN :
        Rows' = [Rows EXCEPT ![c.key] = Times!Renewed(@, c, kept)]
  BY DEF Times!Update
<1> DEFINE new == Times!Renewed(Rows[c.key], c, kept)
<1>2. new \in Times!Row /\ Times!RowInv(new) /\ new.born = Rows[c.key].born
  BY RenewedHolds
<1>3. c.key \in Key /\ UNCHANGED <<real, late>> /\ \A q \in Process : Copies'[q] \subseteq Copies[q]
  BY DEF Times!IInv, Times!TypeOK, Times!Copy, Times!Update, Times!Forget
<1> HIDE DEF new
<1>4. Rows' = [Rows EXCEPT ![c.key] = new]
  BY <1>1 DEF new
<1>5. DOMAIN Rows' = DOMAIN Rows /\ Rows' \in [DOMAIN Rows' -> Times!Row] /\ DOMAIN Rows' \subseteq Key
  BY <1>2, <1>3, <1>4 DEF Times!IInv, Times!TypeOK
<1>6. \A k \in DOMAIN Rows : Rows'[k] = IF k = c.key THEN new ELSE Rows[k]
  BY <1>4 DEF Times!IInv, Times!TypeOK
<1> QED
  BY <1>2, <1>3, <1>5, <1>6, RowsKeep DEF Times!IInv

\* So does an insert-or-update.
LEMMA UpsertKeeps ==
  ASSUME NEW p \in Process, Times!IInv, Times!Upsert(p)
  PROVE  Times!IInv'
<1> DEFINE copied(k) == \E c \in Copies[p] : c.key = k
           copy(k)   == CHOOSE c \in Copies[p] : c.key = k
           new(k)    == Times!Renewed(Rows[k], copy(k), FALSE)
<1>1. Rows' = [k \in DOMAIN Rows |-> IF copied(k) THEN new(k) ELSE Rows[k]]
  BY DEF Times!Upsert
<1>2. UNCHANGED <<real, late>> /\ \A q \in Process : Copies'[q] \subseteq Copies[q]
  BY DEF Times!IInv, Times!TypeOK, Times!Upsert, Times!Forget
<1>3. ASSUME NEW k \in DOMAIN Rows, copied(k)
      PROVE  new(k) \in Times!Row /\ Times!RowInv(new(k)) /\ new(k).born = Rows[k].born
  <2>1. copy(k) \in Copies[p] /\ copy(k).key = k
    BY <1>3
  <2> QED
    BY <2>1, RenewedHolds
<1> HIDE DEF copied, new
<1>4. ASSUME NEW k \in DOMAIN Rows
      PROVE  Rows'[k] \in Times!Row /\ Times!RowInv(Rows'[k]) /\ Rows'[k].born = Rows[k].born
  BY <1>1, <1>3 DEF Times!IInv, Times!TypeOK
<1>5. DOMAIN Rows' = DOMAIN Rows /\ Rows' \in [DOMAIN Rows' -> Times!Row] /\ DOMAIN Rows' \subseteq Key
  BY <1>1, <1>4 DEF Times!IInv, Times!TypeOK
<1> QED
  BY <1>2, <1>4, <1>5, RowsKeep

\* Every step of the clock model keeps it.
LEMMA NextKeeps == Times!IInv /\ [Times!Next]_Times!vars => Times!IInv'
<1> SUFFICES ASSUME Times!IInv, [Times!Next]_Times!vars PROVE Times!IInv'
  OBVIOUS
<1>0. real \in Nat /\ late \in Nat /\ Back \in Nat /\ late \in {0, Back}
  BY NowIsNat, ClockAssumption DEF Times!IInv, Times!TypeOK
<1>1. CASE Times!Advance
  <2>1. real' \in Nat
    BY <1>1, ClockAssumption DEF Times!Advance
  <2> QED
    BY <1>0, <1>1, <2>1, ClockKeeps DEF Times!Advance
<1>2. CASE Times!SetClockBack
  BY <1>0, <1>2, ClockKeeps DEF Times!SetClockBack, Times!IInv, Times!TypeOK
<1>3. ASSUME NEW p \in Process, Times!GiveUp(p) PROVE Times!IInv'
  <2>1. \A q \in Process : Copies'[q] \subseteq Copies[q]
    BY <1>3 DEF Times!IInv, Times!TypeOK, Times!GiveUp, Times!Forget
  <2> QED
    BY <1>3, <2>1, RowsKeep DEF Times!GiveUp, Times!IInv, Times!TypeOK
<1>4. CASE UNCHANGED Times!vars
  BY <1>4, RowsKeep DEF Times!vars, Times!IInv, Times!TypeOK
<1> QED
  BY <1>1, <1>2, <1>3, <1>4, InsertKeeps, QueryKeeps, UpdateKeeps, UpsertKeeps DEF Times!Next

\* IInv holds in every reachable state.
THEOREM RowInvariant == Times!Spec => []Times!IInv
  BY InitHolds, NextKeeps, PTL DEF Times!Spec

\* A creation time moves at most once, and stays within its second.
THEOREM MovesOnce == Times!Spec => []Times!TimesMoveAtMostOnce
<1>1. ASSUME Times!IInv, NEW k \in DOMAIN Rows
      PROVE  /\ Rows[k].create \in {Rows[k].born, Times!Moved(Rows[k].born)}
             /\ Rows[k].create \div Times!Second = Rows[k].born \div Times!Second
  <2>1. Rows[k] \in Times!Row /\ Times!RowInv(Rows[k])
    BY <1>1 DEF Times!IInv, Times!TypeOK
  <2>2. Rows[k].born \in Nat
    BY <2>1 DEF Times!Row
  <2> QED
    BY <2>1, <2>2, TimesMovedBounds DEF Times!RowInv
<1>2. Times!IInv => Times!TimesMoveAtMostOnce
  BY <1>1 DEF Times!TimesMoveAtMostOnce
<1> QED
  BY <1>2, RowInvariant, PTL

\* Nothing expires early, and nothing lives on for more than a second and what
\* the clock was set back.
THEOREM BarelyLate == Times!Spec => []Times!ExpiryIsBarelyLate
<1>1. ASSUME Times!IInv, NEW p \in Process, NEW c \in Copies[p]
      PROVE  /\ Times!Expired(c) => real - c.since > Life
             /\ real - c.since >= Life + Times!Second + Back => Times!Expired(c)
  <2>1. c \in Times!Copy /\ Times!CopyInv(c)
    BY <1>1 DEF Times!IInv, Times!TypeOK
  <2>2. PICK t \in Nat : c.renewed = Times!Moved(t) /\ Times!ClockShowed(t, c.since)
    BY <2>1 DEF Times!CopyInv
  <2>3. PICK l \in {0, Back} : l <= late /\ t = c.since - l
    BY <2>2 DEF Times!ClockShowed
  <2>4. c.since \in Nat /\ c.renewed \in Nat /\ t <= c.renewed /\ c.renewed < t + Times!Second
    BY <2>1, <2>2, TimesMovedBounds DEF Times!Copy
  <2>5. real \in Nat /\ late \in Nat /\ late <= Back /\ l \in Nat /\ Life \in Nat /\ Back \in Nat
    BY <1>1, <2>3, NowIsNat, ClockAssumption DEF Times!IInv, Times!TypeOK
  <2> QED
    BY <2>3, <2>4, <2>5, SMT DEF Times!Expired, Times!Now, Times!Second
<1>2. Times!IInv => Times!ExpiryIsBarelyLate
  BY <1>1 DEF Times!ExpiryIsBarelyLate
<1> QED
  BY <1>2, RowInvariant, PTL

-----------------------------------------------------------------------------
(* The invariant of RowText, and the times it is about                       *)

\* Texts of times of the minute.
Moment == {text \in TimeText : Parse(text) \in Stored}
Model  == [key : Key, create : Moment, renewed : Moment, since : Nat]

TableInv ==
  /\ DOMAIN table \subseteq Key
  /\ table \in [DOMAIN table -> [Range(Columns) -> Stored]]
  /\ history \in [DOMAIN table -> [born : Nat, since : Nat]]

\* What a handler has read are rows of one table, each once.
ModelsInv(M) ==
  /\ M \subseteq Model
  /\ \A m \in M : m.key \in DOMAIN table
  /\ \A m, n \in M : Len(m.key) = Len(n.key) /\ (m.key = n.key => m = n)

Inv ==
  /\ real \in Instants /\ late \in {0, Back}
  /\ TableInv
  /\ models = [p \in Process |-> models[p]]
  /\ \A p \in Process : ModelsInv(models[p])

\* The columns as a set.
LEMMA ColumnsSet == Range(Columns) = {"create_time", "update_time"}
  BY ColumnsAre DEF Range

\* The clock never leaves the minute.
LEMMA NowStored ==
  ASSUME Inv
  PROVE  /\ Now \in Stored /\ Now \in Nat /\ real \in Nat /\ late \in Nat
         /\ Back \in Nat /\ Back <= real
<1>1. real \in Nat /\ Back <= real /\ Back \in Nat /\ real < 60 * Second
  BY ClockAssumption, MinuteAssumption DEF Inv
<1>2. late \in Nat /\ late <= Back
  BY <1>1 DEF Inv
<1>3. 60 * Second \in Nat
  BY SMT DEF Second
<1> QED BY <1>1, <1>2, <1>3 DEF Now, Stored

\* A time that is formatted is taken for itself.
LEMMA Printed ==
  ASSUME NEW t \in Stored
  PROVE  FormatStr(t) \in Moment /\ FormatStr(t) \in TimeText /\ Parse(FormatStr(t)) = t
<1>1. /\ t \div Second \in 0..59 /\ t % Second \in Nat
      /\ t = (t \div Second) * Second + (t % Second)
  BY StoredParts
<1> DEFINE s == t \div Second
           u == t % Second
<1> HIDE DEF s, u
<1>2. FormatStr(t) = [minute |-> Minute, second |-> s, fraction |-> u, width |-> 6]
  BY DEF FormatStr, s, u
<1>3. FormatStr(t) \in TimeText
  BY <1>1, <1>2 DEF TimeText, s, u
<1>4. Parse(FormatStr(t)) = t
  <2>1. 6 - 6 = 0
    OBVIOUS
  <2>2. Parse(FormatStr(t)) = s * Second + u * 10^0
    BY <1>2, <2>1 DEF Parse
  <2>3. 10^0 = 1
    BY Powers
  <2>4. u * 1 = u
    BY <1>1 DEF u
  <2> QED BY <1>1, <2>2, <2>3, <2>4 DEF s, u
<1> QED BY <1>3, <1>4 DEF Moment

\* The decoder keeps a time in its second, and so in the minute.
LEMMA MovedStored ==
  ASSUME NEW t \in Stored
  PROVE  Moved(t) \in Stored
<1> DEFINE n == Moved(t)
<1>1. t \in Nat /\ t \div Second \in 0..59
  BY StoredParts DEF Stored
<1>2. n \in Nat /\ n \div Second = t \div Second
  BY <1>1, MovedBounds
<1> HIDE DEF n
<1>3. n \div Second \in 0..59
  BY <1>1, <1>2
<1>4. n < 60 * Second
  BY <1>2, <1>3, SMT DEF Second
<1> QED BY <1>2, <1>4 DEF Stored, n

\* inflate fills a model with the times the decoder moves.
LEMMA InflatedIs ==
  ASSUME Inv, NEW k \in DOMAIN table
  PROVE  /\ \A c \in Range(Columns) : ~ReadTime(Wire(table[k][c])).thrown
         /\ Inflated(k) \in Model
         /\ Inflated(k).key = k /\ Inflated(k).since = history[k].since
         /\ Parse(Inflated(k).create) = Moved(table[k]["create_time"])
         /\ Parse(Inflated(k).renewed) = Moved(table[k]["update_time"])
<1>1. /\ k \in Key /\ table[k] \in [Range(Columns) -> Stored]
      /\ history[k] \in [born : Nat, since : Nat]
  BY DEF Inv, TableInv
<1> DEFINE a == table[k]["create_time"]
           b == table[k]["update_time"]
<1>2. a \in Stored /\ b \in Stored /\ \A c \in Range(Columns) : table[k][c] \in Stored
  BY <1>1, ColumnsSet
<1>3. \A c \in Range(Columns) : ~ReadTime(Wire(table[k][c])).thrown
  BY <1>2, TimeIsRead
<1> HIDE DEF a, b
<1> DEFINE x == ReadTime(Wire(a)).text
           y == ReadTime(Wire(b)).text
<1>4. x \in Moment /\ y \in Moment /\ Parse(x) = Moved(a) /\ Parse(y) = Moved(b)
  BY <1>2, TimeIsRead, MovedStored DEF Moment
<1>5. Inflated(k) = [key |-> k, create |-> x, renewed |-> y, since |-> history[k].since]
  BY DEF Inflated, a, b
<1> HIDE DEF x, y
<1>6. history[k].since \in Nat
  BY <1>1
<1> QED BY <1>1, <1>3, <1>4, <1>5, <1>6 DEF Model, a, b

-----------------------------------------------------------------------------
(* The models of a call, as a set and as the sequence DbManager is given     *)

\* Models of one table, each row once.
Batch(T) ==
  /\ T # {}
  /\ \A m \in T : IsModel(m)
  /\ \A m, n \in T : Len(m.key) = Len(n.key) /\ (m.key = n.key => m = n)

\* SetToSeq lists the members of a finite set, each once.
LEMMA Listing ==
  ASSUME NEW S, IsFiniteSet(S)
  PROVE  LET s == SetToSeq(S) IN
         /\ s \in [1..Cardinality(S) -> S] /\ Cardinality(S) \in Nat
         /\ \A x \in S : \E i \in 1..Cardinality(S) : s[i] = x
<1> DEFINE n == Cardinality(S)
           s == SetToSeq(S)
<1>1. n \in Nat /\ ExistsBijection(1..n, S)
  BY FS_CardinalityType
<1>2. PICK f : f \in [1..n -> S] /\ IsInjective(f)
  BY <1>1 DEF ExistsBijection, Bijection, Injection
<1>3. s \in [1..n -> S] /\ IsInjective(s)
  BY <1>2 DEF SetToSeq
<1> HIDE DEF s
<1>4. s \in Injection(1..n, S)
  BY <1>3 DEF Injection
<1>5. Cardinality(1..n) = n
  BY <1>1, FS_Interval
<1>6. s \in Surjection(1..n, S)
  BY <1>4, <1>5, FS_Injection
<1> QED BY <1>1, <1>3, <1>6 DEF Surjection, s

\* Members told apart by their keys are no more than there are keys.
LEMMA BatchFinite ==
  ASSUME NEW T, T # {}, \A m \in T : m.key \in Key, \A m, n \in T : m.key = n.key => m = n
  PROVE  IsFiniteSet(T) /\ Cardinality(T) \in Counts
<1> DEFINE f == [m \in T |-> m.key]
<1>1. f \in [T -> Key] /\ \A m, n \in T : f[m] = f[n] => m = n
  OBVIOUS
<1> HIDE DEF f
<1>2. f \in Injection(T, Key)
  BY <1>1 DEF Injection, IsInjective
<1>3. IsFiniteSet(T) /\ Cardinality(T) <= Cardinality(Key)
  BY <1>2, KeyAssumption, FS_Injection
<1>4. Cardinality(T) \in Nat /\ Cardinality(T) # 0
  BY <1>3, FS_CardinalityType, FS_EmptySet
<1>5. Cardinality(Key) \in Nat
  BY SizesType
<1> QED BY <1>3, <1>4, <1>5 DEF Counts

\* SetToSeq lists a batch of models: models of one width, each once.
LEMMA BatchListed ==
  ASSUME NEW T, Batch(T)
  PROVE  LET s == SetToSeq(T)
             w == Width(T) IN
         /\ w \in Widths /\ w \in Nat \ {0}
         /\ AreModels(s, w) /\ Len(s) = Cardinality(T) /\ Len(s) \in Counts
         /\ T = {s[i] : i \in 1..Len(s)}
         /\ \A m \in T : Len(m.key) = w
         /\ Len(s) = 1 => T = {s[1]}
<1> DEFINE s == SetToSeq(T)
           w == Width(T)
           n == Cardinality(T)
<1>1. IsFiniteSet(T) /\ n \in Counts
  <2>1. T # {} /\ (\A m \in T : m.key \in Key) /\ \A m, l \in T : m.key = l.key => m = l
    BY DEF Batch, IsModel
  <2> QED BY <2>1, BatchFinite
<1>2. s \in [1..n -> T] /\ n \in Nat \ {0} /\ \A x \in T : \E i \in 1..n : s[i] = x
  BY <1>1, Listing, SizesType
<1>3. /\ \A m \in T : Len(m.key) = w
      /\ w \in Widths
  <2>1. (CHOOSE m \in T : TRUE) \in T
    BY DEF Batch
  <2> QED BY <2>1 DEF Batch, Width, Widths, IsModel
<1> HIDE DEF s, w, n
<1>4. Len(s) = n /\ DOMAIN s = 1..n
  <2>1. s \in Seq(T)
    BY <1>2
  <2> QED BY <1>2, <2>1
<1>5. AreModels(s, w)
  <2>1. \A i \in 1..n : s[i] \in T
    BY <1>2
  <2> QED BY <1>2, <1>3, <1>4, <2>1 DEF AreModels, Batch
<1>6. T = {s[i] : i \in 1..n}
  BY <1>2
<1>7. n = 1 => T = {s[1]}
  BY <1>6
<1> QED BY <1>1, <1>2, <1>3, <1>4, <1>5, <1>6, <1>7, SizesType DEF s, w, n

-----------------------------------------------------------------------------
(* What the server reads in a call's text                                    *)

\* The call asks for the rows of its models, with both columns.
LEMMA AskedAll ==
  ASSUME NEW T, NEW op
  PROVE  [op |-> op, rows |-> {Row(m) : m \in T}] = Asked(op, T, Range(Columns))
<1>1. ASSUME NEW m
      PROVE  Row(m) = [key |-> m.key, set |-> [c \in Range(Columns) |->
                         IF c = "create_time" THEN m.create ELSE m.renewed]]
  <2> DEFINE a == "create_time"
             b == "update_time"
             f == [c \in {a, b} |-> IF c = a THEN m.create ELSE m.renewed]
             r == [create_time |-> m.create, update_time |-> m.renewed]
  <2>1. r = [c \in {a, b} |-> r[c]] /\ r[a] = m.create /\ r[b] = m.renewed
    OBVIOUS
  <2>2. a # b
    OBVIOUS
  <2> HIDE DEF r, a, b
  <2>3. r = f
    BY <2>1, <2>2
  <2> QED BY <2>3, ColumnsSet DEF Row, r, a, b
<1> DEFINE A(m) == [key |-> m.key, set |-> [c \in Range(Columns) |->
                      IF c = "create_time" THEN m.create ELSE m.renewed]]
<1>2. Asked(op, T, Range(Columns)) = [op |-> op, rows |-> {A(m) : m \in T}]
  BY DEF Asked
<1>3. \A m : Row(m) = A(m)
  BY <1>1
<1> HIDE DEF A
<1>4. {Row(m) : m \in T} = {A(m) : m \in T}
  BY <1>3
<1> QED BY <1>2, <1>4

\* One row, with the column that is not ignored.
LEMMA AskedRenewed ==
  ASSUME NEW m
  PROVE  [op |-> "update", rows |-> {[key |-> m.key, set |-> [c \in {"update_time"} |-> m.renewed]]}]
           = Asked("update", {m}, {"update_time"})
<1>1. [c \in {"update_time"} |-> m.renewed]
        = [c \in {"update_time"} |-> IF c = "create_time" THEN m.create ELSE m.renewed]
  <2>1. \A c \in {"update_time"} : c # "create_time"
    OBVIOUS
  <2> QED BY <2>1
<1> DEFINE A(l) == [key |-> l.key, set |-> [c \in {"update_time"} |->
                      IF c = "create_time" THEN l.create ELSE l.renewed]]
<1>2. Asked("update", {m}, {"update_time"}) = [op |-> "update", rows |-> {A(l) : l \in {m}}]
  BY DEF Asked
<1>3. A(m) = [key |-> m.key, set |-> [c \in {"update_time"} |-> m.renewed]]
  BY <1>1
<1> HIDE DEF A
<1> QED BY <1>2, <1>3

\* What the server reads in each of DbManager's texts about some models.
LEMMA CallsAreRead ==
  ASSUME NEW T, Batch(T)
  PROVE  LET s == SetToSeq(T)
             w == Width(T) IN
         /\ Read(InsertModelSql(s), w) = Asked("insert", T, Range(Columns))
         /\ Read(InsertOrUpdateModelSql(s), w) = Asked("upsert", T, Range(Columns))
         /\ Len(s) = 1 /\ w = 1 => Read(UpdateModelSql(s), w) = Asked("update", T, Range(Columns))
         /\ Len(s) > 1 \/ w > 1 => Read(UpdateModelSql(s), w) = Refused
<1> DEFINE s == SetToSeq(T)
           w == Width(T)
<1>1. /\ w \in Widths /\ w \in Nat \ {0}
      /\ AreModels(s, w) /\ Len(s) \in Counts
      /\ T = {s[i] : i \in 1..Len(s)}
      /\ Len(s) = 1 => T = {s[1]}
  BY BatchListed
<1> HIDE DEF s, w
<1>2. {Row(s[i]) : i \in 1..Len(s)} = {Row(m) : m \in T}
  BY <1>1
<1>3. InsertRows(AllFields(s), w) = {Row(m) : m \in T}
  <2>1. InsertRows(AllFields(s), w) = {Row(s[i]) : i \in 1..Len(s)}
    BY <1>1, InsertRowsAre
  <2> QED BY <1>2, <2>1
<1>4. /\ Read(InsertModelSql(s), w) = [op |-> "insert", rows |-> {Row(m) : m \in T}]
      /\ Read(InsertOrUpdateModelSql(s), w) = [op |-> "upsert", rows |-> {Row(m) : m \in T}]
  BY <1>1, <1>3, ReadInsert
<1>5. ASSUME Len(s) = 1, w = 1
      PROVE  Read(UpdateModelSql(s), w) = Asked("update", T, Range(Columns))
  <2>1. Read(UpdateModelSql(s), w) = [op |-> "update", rows |-> {Row(s[1])}]
    BY <1>1, <1>5, ReadOneUpdate
  <2>2. {Row(s[1])} = {Row(m) : m \in T}
    BY <1>1, <1>5
  <2> QED BY <2>1, <2>2, AskedAll
<1>6. ASSUME Len(s) > 1 \/ w > 1
      PROVE  Read(UpdateModelSql(s), w) = Refused
  BY <1>1, <1>6, UpdateRefused
<1> QED BY <1>4, <1>5, <1>6, AskedAll DEF s, w

\* An UPDATE of one model is read as that update.
LEMMA SingleIsRead ==
  ASSUME NEW m, IsModel(m)
  PROVE  /\ Read(UpdateSingleModelSql(m, {}), Len(m.key)) = Asked("update", {m}, Range(Columns))
         /\ Read(UpdateSingleModelSql(m, {"create_time"}), Len(m.key))
              = Asked("update", {m}, {"update_time"})
<1>1. Len(m.key) \in Widths
  BY DEF IsModel, Widths
<1>2. /\ Read(UpdateSingleModelSql(m, {}), Len(m.key)) = [op |-> "update", rows |-> {Row(m)}]
      /\ Read(UpdateSingleModelSql(m, {"create_time"}), Len(m.key))
           = [op |-> "update",
              rows |-> {[key |-> m.key, set |-> [c \in {"update_time"} |-> m.renewed]]}]
  BY <1>1, ReadSingle
<1>3. {Row(m)} = {Row(l) : l \in {m}}
  OBVIOUS
<1>4. [op |-> "update", rows |-> {Row(m)}] = Asked("update", {m}, Range(Columns))
  BY <1>3, AskedAll
<1>5. [op |-> "update", rows |-> {[key |-> m.key, set |-> [c \in {"update_time"} |-> m.renewed]]}]
        = Asked("update", {m}, {"update_time"})
  BY AskedRenewed
<1> QED BY <1>2, <1>4, <1>5

\* Keys of one table, in whatever order, are deleted by no statement.
LEMMA KeysRefused ==
  ASSUME NEW T, Batch(T)
  PROVE  /\ Read(DelSqlByPkDoubleVector(SetToSeq({m.key : m \in T})), Width(T)) = Refused
         /\ LET s == SetToSeq(T) IN
            Read(DelSqlByPkDoubleVector([i \in DOMAIN s |-> s[i].key]), Width(T)) = Refused
<1> DEFINE s == SetToSeq(T)
           K == {m.key : m \in T}
           q == SetToSeq(K)
           r == [i \in DOMAIN s |-> s[i].key]
           w == Width(T)
<1>1. /\ w \in Widths /\ w \in Nat \ {0}
      /\ AreModels(s, w)
      /\ \A m \in T : Len(m.key) = w
  BY BatchListed
<1>2. K # {} /\ K \subseteq Key /\ \A k \in K : Len(k) = w
  BY <1>1 DEF Batch, IsModel
<1> HIDE DEF s, w, K
<1>3. IsFiniteSet(K) /\ Cardinality(K) \in Nat /\ Cardinality(K) # 0
  BY <1>2, KeyAssumption, FS_Subset, FS_CardinalityType, FS_EmptySet
<1>4. q \in [1..Cardinality(K) -> K]
  BY <1>3, Listing
<1> HIDE DEF q
<1>5. AreKeys(q, w)
  <2>1. Len(q) = Cardinality(K)
    <3>1. q \in Seq(K)
      BY <1>3, <1>4
    <3> QED BY <1>3, <1>4, <3>1
  <2> QED BY <1>2, <1>3, <1>4, <2>1 DEF AreKeys
<1>6. AreKeys(r, w)
  <2>1. DOMAIN s = 1..Len(s) /\ Len(s) \in Nat \ {0}
        /\ \A i \in 1..Len(s) : s[i].key \in Key /\ Len(s[i].key) = w
    BY <1>1 DEF AreModels, IsModel
  <2> DEFINE n == Len(s)
  <2>2. r = [i \in 1..n |-> s[i].key]
    BY <2>1
  <2>3. n \in Nat \ {0} /\ \A i \in 1..n : s[i].key \in Key /\ Len(s[i].key) = w
    BY <2>1
  <2> HIDE DEF n, r
  <2>4. r \in Seq(Key) /\ Len(r) = n
    BY <2>2, <2>3
  <2> QED BY <2>2, <2>3, <2>4 DEF AreKeys
<1> HIDE DEF r
<1>7. Read(DelSqlByPkDoubleVector(q), w) = Refused /\ Read(DelSqlByPkDoubleVector(r), w) = Refused
  BY <1>1, <1>5, <1>6, DeleteRefused
<1> QED BY <1>7 DEF q, r, w, K, s

-----------------------------------------------------------------------------
(* What a text that is executed does to the rows                             *)

Named(T) == {m.key : m \in T}
Cell(m, c) == IF c = "create_time" THEN m.create ELSE m.renewed

\* These columns of the rows of T are written, and nothing else.
Written(T, columns) ==
  /\ table' = [k \in DOMAIN table \cup Named(T) |-> table'[k]]
  /\ history' = [k \in DOMAIN table \cup Named(T) |-> history'[k]]
  /\ \A k \in DOMAIN table \ Named(T) : table'[k] = table[k] /\ history'[k] = history[k]
  /\ \A m \in T :
       /\ table'[m.key] = [c \in Range(Columns) |->
            IF c \in columns THEN Parse(Cell(m, c)) ELSE table[m.key][c]]
       /\ history'[m.key] =
            IF m.key \in DOMAIN table THEN [history[m.key] EXCEPT !.since = real]
            ELSE [born |-> Now, since |-> real]
  /\ UNCHANGED <<real, late>>

Forgets(p) == models' = [models EXCEPT ![p] = {}]

\* A text read as a call, and not refused by a key, writes that call's columns to the rows named.
LEMMA ExecuteWrites ==
  ASSUME Inv, NEW p \in Process, NEW text, NEW w, NEW T, NEW op \in {"insert", "upsert", "update"},
         NEW columns \in SUBSET Range(Columns),
         \A m, n \in T : m.key = n.key => m = n,
         Read(text, w) = Asked(op, T, columns),
         op = "insert" => Named(T) \cap DOMAIN table = {},
         op = "update" => Named(T) \subseteq DOMAIN table,
         Execute(p, text, w)
  PROVE  Written(T, columns) /\ Forgets(p)
<1> DEFINE call    == Read(text, w)
           named   == {row.key : row \in call.rows}
           New(k)  == (CHOOSE row \in call.rows : row.key = k).set
           kept    == IF call.op = "delete" THEN DOMAIN table \ named
                      ELSE IF call.op \in {"insert", "upsert"} THEN DOMAIN table \cup named
                      ELSE DOMAIN table
           accepted == call.op = "insert" => named \cap DOMAIN table = {}
           A(m) == [key |-> m.key, set |-> [c \in columns |-> Cell(m, c)]]
           R == {A(m) : m \in T}
<1>1. /\ table' = IF ~accepted THEN table ELSE
           [k \in kept |-> [c \in Range(Columns) |->
              IF k \in named /\ c \in DOMAIN New(k) THEN Parse(New(k)[c])
              ELSE table[k][c]]]
      /\ history' = IF ~accepted THEN history ELSE
           [k \in kept |->
              IF k \notin DOMAIN table THEN [born |-> Now, since |-> real]
              ELSE IF k \in named THEN [history[k] EXCEPT !.since = real]
              ELSE history[k]]
      /\ Forgets(p) /\ UNCHANGED <<real, late>>
  BY DEF Execute, Forgets
<1>2. call.op = op /\ call.rows = R
  BY DEF Asked, Cell
<1>3. /\ \A m : A(m).key = m.key /\ A(m).set = [c \in columns |-> Cell(m, c)]
      /\ \A m : DOMAIN A(m).set = columns /\ \A c \in columns : A(m).set[c] = Cell(m, c)
  OBVIOUS
<1> HIDE DEF call, A
<1>4. named = Named(T)
  BY <1>2, <1>3 DEF Named
<1>5. ASSUME NEW m \in T
      PROVE  New(m.key) = A(m).set
  <2>1. A(m) \in R /\ A(m).key = m.key
    BY <1>3
  <2>2. \A row \in R : row.key = m.key => row = A(m)
    BY <1>3
  <2>3. (CHOOSE row \in R : row.key = m.key) = A(m)
    BY <2>1, <2>2
  <2> QED BY <1>2, <2>3
<1>6. accepted
  BY <1>2, <1>4
<1>7. kept = DOMAIN table \cup Named(T)
  BY <1>2, <1>4
<1> HIDE DEF named, kept, accepted, New, R
<1> DEFINE D == DOMAIN table \cup Named(T)
<1>8. /\ table' = [k \in D |-> [c \in Range(Columns) |->
              IF k \in Named(T) /\ c \in DOMAIN New(k) THEN Parse(New(k)[c])
              ELSE table[k][c]]]
      /\ history' = [k \in D |->
              IF k \notin DOMAIN table THEN [born |-> Now, since |-> real]
              ELSE IF k \in Named(T) THEN [history[k] EXCEPT !.since = real]
              ELSE history[k]]
  BY <1>1, <1>4, <1>6, <1>7
<1>9. table' = [k \in D |-> table'[k]] /\ history' = [k \in D |-> history'[k]]
  BY <1>8
<1>10. ASSUME NEW k \in DOMAIN table \ Named(T)
       PROVE  table'[k] = table[k] /\ history'[k] = history[k]
  <2>1. table'[k] = [c \in Range(Columns) |-> table[k][c]]
    BY <1>8
  <2>2. table[k] = [c \in Range(Columns) |-> table[k][c]]
    BY DEF Inv, TableInv
  <2> QED BY <1>8, <2>1, <2>2
<1>11. ASSUME NEW m \in T
       PROVE  /\ table'[m.key] = [c \in Range(Columns) |->
                   IF c \in columns THEN Parse(Cell(m, c)) ELSE table[m.key][c]]
              /\ history'[m.key] =
                   IF m.key \in DOMAIN table THEN [history[m.key] EXCEPT !.since = real]
                   ELSE [born |-> Now, since |-> real]
  <2>1. m.key \in Named(T) /\ m.key \in D
    BY DEF Named
  <2>2. DOMAIN New(m.key) = columns /\ \A c \in columns : New(m.key)[c] = Cell(m, c)
    BY <1>3, <1>5
  <2>3. table'[m.key] = [c \in Range(Columns) |->
          IF c \in DOMAIN New(m.key) THEN Parse(New(m.key)[c]) ELSE table[m.key][c]]
    BY <1>8, <2>1
  <2>4. table'[m.key] = [c \in Range(Columns) |->
          IF c \in columns THEN Parse(Cell(m, c)) ELSE table[m.key][c]]
    BY <2>2, <2>3
  <2>5. history'[m.key] =
          IF m.key \in DOMAIN table THEN [history[m.key] EXCEPT !.since = real]
          ELSE [born |-> Now, since |-> real]
    BY <1>8, <2>1
  <2> QED BY <2>4, <2>5
<1> QED BY <1>1, <1>9, <1>10, <1>11 DEF Written

\* A text nothing reads changes no row.
LEMMA ExecuteRefused ==
  ASSUME Inv, NEW p \in Process, NEW text, NEW w, Read(text, w) = Refused, Execute(p, text, w)
  PROVE  UNCHANGED <<real, late, table, history>> /\ Forgets(p)
<1>1. Refused.op = "refused" /\ Refused.rows = {}
  BY DEF Refused
<1>2. /\ table' = [k \in DOMAIN table |-> [c \in Range(Columns) |-> table[k][c]]]
      /\ history' = [k \in DOMAIN table |-> history[k]]
      /\ Forgets(p) /\ UNCHANGED <<real, late>>
  BY <1>1 DEF Execute, Forgets
<1>3. \A k \in DOMAIN table : table[k] = [c \in Range(Columns) |-> table[k][c]]
  BY DEF Inv, TableInv
<1>4. table = [k \in DOMAIN table |-> table[k]] /\ history = [k \in DOMAIN table |-> history[k]]
  BY DEF Inv, TableInv
<1> QED BY <1>2, <1>3, <1>4

\* Rows that are written keep the invariant, and the others do.
LEMMA WrittenKeeps ==
  ASSUME Inv, NEW p \in Process, NEW T, NEW columns \in SUBSET Range(Columns),
         Written(T, columns), Forgets(p),
         \A m \in T : m.key \in Key /\ m.create \in Moment /\ m.renewed \in Moment,
         Named(T) \subseteq DOMAIN table \/ columns = Range(Columns)
  PROVE  Inv'
<1> DEFINE D == DOMAIN table \cup Named(T)
<1>1. /\ DOMAIN table' = D /\ DOMAIN history' = D
      /\ table' = [k \in D |-> table'[k]] /\ history' = [k \in D |-> history'[k]]
  BY DEF Written
<1>2. D \subseteq Key
  BY DEF Inv, TableInv, Named
<1>3. ASSUME NEW k \in D
      PROVE  table'[k] \in [Range(Columns) -> Stored] /\ history'[k] \in [born : Nat, since : Nat]
  <2>1. CASE k \in DOMAIN table \ Named(T)
    BY <2>1 DEF Written, Inv, TableInv
  <2>2. CASE k \in Named(T)
    <3>1. PICK m \in T : m.key = k
      BY <2>2 DEF Named
    <3>2. ASSUME NEW c \in Range(Columns)
          PROVE  (IF c \in columns THEN Parse(Cell(m, c)) ELSE table[k][c]) \in Stored
      <4>1. Parse(Cell(m, c)) \in Stored
        BY DEF Cell, Moment
      <4>2. c \notin columns => table[k][c] \in Stored
        BY <2>2 DEF Inv, TableInv
      <4> QED BY <4>1, <4>2
    <3>3. table'[k] \in [Range(Columns) -> Stored]
      <4> DEFINE E(c) == IF c \in columns THEN Parse(Cell(m, c)) ELSE table[k][c]
      <4>1. table'[k] = [c \in Range(Columns) |-> E(c)]
        BY <3>1 DEF Written
      <4>2. \A c \in Range(Columns) : E(c) \in Stored
        BY <3>2
      <4> HIDE DEF E
      <4> QED BY <4>1, <4>2
    <3>4. real \in Nat /\ Now \in Nat
      BY NowStored
    <3>5. k \in DOMAIN table => history[k] \in [born : Nat, since : Nat]
      BY DEF Inv, TableInv
    <3>6. history'[k] = IF k \in DOMAIN table THEN [history[k] EXCEPT !.since = real]
                        ELSE [born |-> Now, since |-> real]
      BY <3>1 DEF Written
    <3>7. history'[k] \in [born : Nat, since : Nat]
      BY <3>4, <3>5, <3>6
    <3> QED BY <3>3, <3>7
  <2> QED BY <2>1, <2>2
<1>4. TableInv'
  <2> HIDE DEF D
  <2>1. table' \in [D -> [Range(Columns) -> Stored]]
    BY <1>1, <1>3
  <2>2. history' \in [D -> [born : Nat, since : Nat]]
    BY <1>1, <1>3
  <2> QED BY <1>1, <1>2, <2>1, <2>2 DEF TableInv
<1>5. models' = [q \in Process |-> models'[q]]
      /\ \A q \in Process : models'[q] \subseteq models[q]
  BY DEF Inv, Forgets
<1>6. ASSUME NEW q \in Process
      PROVE  ModelsInv(models[q])'
  <2>1. ModelsInv(models[q]) /\ DOMAIN table \subseteq DOMAIN table'
    BY <1>1 DEF Inv
  <2> QED BY <1>5, <2>1 DEF ModelsInv
<1>7. real' \in Instants /\ late' \in {0, Back}
  BY DEF Inv, Written
<1> QED BY <1>4, <1>5, <1>6, <1>7 DEF Inv

\* Nothing but the clock and the models of a handler changes.
LEMMA ModelsKeep ==
  ASSUME Inv, real' \in Instants, late' \in {0, Back}, UNCHANGED <<table, history>>,
         models' = [q \in Process |-> models'[q]],
         \A q \in Process : ModelsInv(models'[q])
  PROVE  Inv'
<1>1. TableInv'
  BY DEF Inv, TableInv
<1>2. \A q \in Process : ModelsInv(models[q])'
  BY DEF ModelsInv
<1> QED BY <1>1, <1>2 DEF Inv

\* A process that forgets its models keeps the invariant.
LEMMA ForgetKeeps ==
  ASSUME Inv, NEW p \in Process, Forgets(p), UNCHANGED <<real, late, table, history>>
  PROVE  Inv'
<1>1. models' = [q \in Process |-> models'[q]]
  BY DEF Inv, Forgets
<1>2. \A q \in Process : models'[q] = models[q] \/ models'[q] = {}
  BY DEF Inv, Forgets
<1>3. \A q \in Process : ModelsInv(models'[q])
  BY <1>2 DEF Inv, ModelsInv
<1>4. real' \in Instants /\ late' \in {0, Back}
  BY DEF Inv
<1> QED BY <1>1, <1>3, <1>4, ModelsKeep

\* A query keeps it.
LEMMA QueryInv ==
  ASSUME Inv, NEW p \in Process, Query(p)
  PROVE  Inv'
<1>1. PICK K \in SUBSET DOMAIN table :
        /\ \A k, l \in K : Len(k) = Len(l)
        /\ models' = [models EXCEPT ![p] =
             IF \E k \in K : \E c \in Range(Columns) : ReadTime(Wire(table[k][c])).thrown THEN {}
             ELSE {Inflated(k) : k \in K}]
  BY DEF Query
<1> DEFINE M == IF \E k \in K : \E c \in Range(Columns) : ReadTime(Wire(table[k][c])).thrown THEN {}
                ELSE {Inflated(k) : k \in K}
<1>2. \A m \in M : \E k \in K : m = Inflated(k)
  OBVIOUS
<1> HIDE DEF M
<1>3. ASSUME NEW m \in M
      PROVE  m \in Model /\ m.key \in K /\ m = Inflated(m.key)
  <2>1. PICK k \in K : m = Inflated(k)
    BY <1>2
  <2> QED BY <2>1, InflatedIs
<1>4. ModelsInv(M)
  <2>1. \A m, n \in M : Len(m.key) = Len(n.key) /\ (m.key = n.key => m = n)
    <3>1. SUFFICES ASSUME NEW m \in M, NEW n \in M
                   PROVE  Len(m.key) = Len(n.key) /\ (m.key = n.key => m = n)
      OBVIOUS
    <3>2. m.key \in K /\ n.key \in K /\ m = Inflated(m.key) /\ n = Inflated(n.key)
      BY <1>3
    <3> QED BY <1>1, <3>2
  <2> QED BY <1>3, <2>1 DEF ModelsInv
<1>5. models' = [models EXCEPT ![p] = M]
  BY <1>1 DEF M
<1>6. models' = [q \in Process |-> models'[q]] /\ \A q \in Process : models'[q] \in {models[q], M}
  BY <1>5 DEF Inv
<1>7. \A q \in Process : ModelsInv(models'[q])
  BY <1>4, <1>6 DEF Inv
<1>8. real' \in Instants /\ late' \in {0, Back} /\ UNCHANGED <<table, history>>
  BY DEF Inv, Query
<1> QED BY <1>6, <1>7, <1>8, ModelsKeep

-----------------------------------------------------------------------------
(* The models of the calls                                                   *)

\* The members of a model.
LEMMA ModelMembers ==
  ASSUME NEW m \in Model
  PROVE  IsModel(m) /\ m.key \in Key /\ m.create \in Moment /\ m.renewed \in Moment /\ m.since \in Nat
  BY DEF Model, Moment, IsModel

\* A new model carries the clock's time twice.
LEMMA NewModelIs ==
  ASSUME Inv, NEW k \in Key
  PROVE  /\ NewModel(k).key = k /\ IsModel(NewModel(k))
         /\ NewModel(k).create = FormatStr(Now) /\ NewModel(k).renewed = FormatStr(Now)
         /\ NewModel(k).create \in Moment /\ NewModel(k).renewed \in Moment
<1>1. FormatStr(Now) \in Moment /\ FormatStr(Now) \in TimeText
  BY NowStored, Printed
<1> DEFINE t == FormatStr(Now)
<1> HIDE DEF t
<1>2. NewModel(k) = [key |-> k, create |-> t, renewed |-> t]
  BY DEF NewModel, t
<1> QED BY <1>1, <1>2 DEF IsModel, t

\* A renewed model carries it once.
LEMMA RenewedIs ==
  ASSUME Inv, NEW m \in Model
  PROVE  LET n == RenewUpdateTime(m) IN
         /\ n \in Model /\ n.key = m.key /\ n.create = m.create /\ n.since = m.since
         /\ n.renewed = FormatStr(Now) /\ Parse(n.renewed) = Now
<1> DEFINE t == FormatStr(Now)
<1>1. t \in Moment /\ Parse(t) = Now
  BY NowStored, Printed
<1> HIDE DEF t
<1>2. RenewUpdateTime(m) = [m EXCEPT !.renewed = t]
  BY DEF RenewUpdateTime, t
<1> QED BY <1>1, <1>2 DEF Model, t

\* The models given to a call, renewed, are models of one table.
LEMMA RenewedBatch ==
  ASSUME Inv, NEW p \in Process, NEW T, T \subseteq models[p], T # {}
  PROVE  LET U == {RenewUpdateTime(m) : m \in T} IN
         /\ Batch(U) /\ Width(U) = Width(T)
         /\ U \subseteq Model /\ Named(U) \subseteq DOMAIN table
         /\ \A m \in T : RenewUpdateTime(m) \in U
         /\ \A n \in U : \E m \in T : n = RenewUpdateTime(m)
<1> DEFINE R(m) == RenewUpdateTime(m)
           U == {R(m) : m \in T}
<1>1. /\ \A m \in T : m \in Model /\ m.key \in DOMAIN table
      /\ \A m, n \in T : Len(m.key) = Len(n.key) /\ (m.key = n.key => m = n)
  BY DEF Inv, ModelsInv
<1>2. \A m \in T : R(m) \in Model /\ R(m).key = m.key
  BY <1>1, RenewedIs
<1> HIDE DEF R
<1>3. \A n \in U : \E m \in T : n = R(m) /\ n \in Model /\ n.key = m.key
  BY <1>2
<1>4. \A m, n \in U : Len(m.key) = Len(n.key) /\ (m.key = n.key => m = n)
  <2>1. SUFFICES ASSUME NEW m \in U, NEW n \in U
                 PROVE  Len(m.key) = Len(n.key) /\ (m.key = n.key => m = n)
    OBVIOUS
  <2>2. PICK i \in T : m = R(i) /\ m.key = i.key
    BY <1>3
  <2>3. PICK j \in T : n = R(j) /\ n.key = j.key
    BY <1>3
  <2> QED BY <1>1, <2>2, <2>3
<1>5. Batch(U)
  <2>1. \A n \in U : IsModel(n)
    BY <1>3, ModelMembers
  <2>2. U # {}
    OBVIOUS
  <2> QED BY <1>4, <2>1, <2>2 DEF Batch
<1>6. Width(U) = Width(T)
  <2>1. PICK m \in T : m = CHOOSE n \in T : TRUE
    OBVIOUS
  <2>2. PICK n \in U : n = CHOOSE l \in U : TRUE
    OBVIOUS
  <2>3. PICK j \in T : n.key = j.key
    BY <1>3
  <2>4. Len(m.key) = Len(n.key)
    BY <1>1, <2>3
  <2> QED BY <2>1, <2>2, <2>4 DEF Width
<1>7. U \subseteq Model /\ Named(U) \subseteq DOMAIN table
  BY <1>1, <1>3 DEF Named
<1> QED BY <1>3, <1>5, <1>6, <1>7 DEF R

\* Some of the models a process holds are a batch.
LEMMA CopyBatch ==
  ASSUME Inv, NEW p \in Process, NEW T, T \subseteq models[p], T # {}
  PROVE  Batch(T)
<1>1. \A m \in T : m \in Model
  BY DEF Inv, ModelsInv
<1>2. \A m, n \in T : Len(m.key) = Len(n.key) /\ (m.key = n.key => m = n)
  BY DEF Inv, ModelsInv
<1> QED BY <1>1, <1>2, ModelMembers DEF Batch

-----------------------------------------------------------------------------
(* Each step, as what it writes                                              *)

\* An insert of rows whose keys are free.
Inserts(p, T) ==
  /\ T \subseteq {NewModel(k) : k \in Key \ DOMAIN table}
  /\ Written(T, Range(Columns))

\* What Insert does, its text read.
LEMMA InsertIs ==
  ASSUME Inv, NEW p \in Process, Insert(p)
  PROVE  models[p] = {} /\ Forgets(p) /\ \E T : Inserts(p, T)
<1> DEFINE N == {NewModel(k) : k \in Key \ DOMAIN table}
<1>1. PICK T \in Tables(N) : Execute(p, InsertModelSql(SetToSeq(T)), Width(T))
  BY DEF Insert
<1>2. T \subseteq N /\ T # {} /\ \A m, n \in T : Len(m.key) = Len(n.key)
  BY <1>1 DEF Tables
<1>3. \A m \in N : m.key \in Key \ DOMAIN table /\ m = NewModel(m.key) /\ IsModel(m)
  BY NewModelIs
<1> HIDE DEF N
<1>4. \A m, n \in T : m.key = n.key => m = n
  BY <1>2, <1>3
<1>5. Batch(T)
  BY <1>2, <1>3, <1>4 DEF Batch
<1>6. Read(InsertModelSql(SetToSeq(T)), Width(T)) = Asked("insert", T, Range(Columns))
  BY <1>5, CallsAreRead
<1>7. Named(T) \cap DOMAIN table = {}
  BY <1>2, <1>3 DEF Named
<1>8. Written(T, Range(Columns)) /\ Forgets(p)
  BY <1>1, <1>4, <1>6, <1>7, ExecuteWrites
<1>9. Inserts(p, T)
  BY <1>2, <1>8 DEF Inserts, N
<1> QED BY <1>8, <1>9 DEF Insert

\* One model is written back, all of it or all but the creation time.
Updates(p, m, columns) ==
  /\ m \in models[p] /\ columns \in {Range(Columns), {"update_time"}}
  /\ Written({RenewUpdateTime(m)}, columns)

\* What UpdateSingle does, its text read.
LEMMA UpdateSingleIs ==
  ASSUME Inv, NEW p \in Process, UpdateSingle(p)
  PROVE  Forgets(p) /\ \E m, columns : Updates(p, m, columns)
<1>1. PICK m \in models[p], ignoreColumn \in {{"create_time"}, {}} :
        Execute(p, UpdateSingleModelSql(RenewUpdateTime(m), ignoreColumn), Len(m.key))
  BY DEF UpdateSingle
<1> DEFINE n == RenewUpdateTime(m)
           columns == IF ignoreColumn = {} THEN Range(Columns) ELSE {"update_time"}
<1>2. m \in Model /\ m.key \in DOMAIN table
  BY DEF Inv, ModelsInv
<1>3. n \in Model /\ n.key = m.key
  BY <1>2, RenewedIs
<1> HIDE DEF n
<1>4. Read(UpdateSingleModelSql(n, ignoreColumn), Len(m.key)) = Asked("update", {n}, columns)
  <2>1. /\ Read(UpdateSingleModelSql(n, {}), Len(m.key)) = Asked("update", {n}, Range(Columns))
        /\ Read(UpdateSingleModelSql(n, {"create_time"}), Len(m.key))
             = Asked("update", {n}, {"update_time"})
    BY <1>3, ModelMembers, SingleIsRead
  <2>2. {"create_time"} # {}
    OBVIOUS
  <2> QED BY <1>1, <2>1, <2>2
<1>5. columns \in {Range(Columns), {"update_time"}} /\ columns \in SUBSET Range(Columns)
  BY ColumnsSet
<1> HIDE DEF columns
<1>6. Named({n}) \subseteq DOMAIN table
  BY <1>2, <1>3 DEF Named
<1>7. Written({n}, columns) /\ Forgets(p)
  <2>1. Execute(p, UpdateSingleModelSql(n, ignoreColumn), Len(m.key))
    BY <1>1 DEF n
  <2>2. \A i, j \in {n} : i.key = j.key => i = j
    OBVIOUS
  <2> QED BY <1>4, <1>5, <1>6, <2>1, <2>2, ExecuteWrites
<1> QED BY <1>5, <1>7 DEF Updates, n

\* What Update does: a text of one model is an update of it, a text of more is refused.
LEMMA UpdateIsOne ==
  ASSUME Inv, NEW p \in Process, Update(p)
  PROVE  /\ models[p] # {} /\ Forgets(p)
         /\ \/ UNCHANGED <<real, late, table, history>>
            \/ \E m, columns : Updates(p, m, columns)
<1>1. PICK T \in Tables(models[p]) :
        Execute(p, UpdateModelSql(SetToSeq({RenewUpdateTime(m) : m \in T})), Width(T))
  BY DEF Update
<1> DEFINE U == {RenewUpdateTime(m) : m \in T}
           s == SetToSeq(U)
           w == Width(T)
<1>2. T \subseteq models[p] /\ T # {}
  BY <1>1 DEF Tables
<1>3. /\ Batch(U) /\ Width(U) = w /\ U \subseteq Model /\ Named(U) \subseteq DOMAIN table
      /\ \A n \in U : \E m \in T : n = RenewUpdateTime(m)
  BY <1>2, RenewedBatch
<1>4. Execute(p, UpdateModelSql(s), w)
  BY <1>1
<1> HIDE DEF U, w
<1>5. /\ w \in Nat \ {0} /\ Len(s) \in Counts /\ Len(s) \in Nat \ {0}
      /\ Len(s) = 1 => U = {s[1]}
  BY <1>3, BatchListed, SizesType
<1>6. /\ Len(s) = 1 /\ w = 1 => Read(UpdateModelSql(s), w) = Asked("update", U, Range(Columns))
      /\ Len(s) > 1 \/ w > 1 => Read(UpdateModelSql(s), w) = Refused
  BY <1>3, CallsAreRead
<1> HIDE DEF s
<1>7. CASE Len(s) > 1 \/ w > 1
  BY <1>2, <1>4, <1>6, <1>7, ExecuteRefused
<1>8. CASE Len(s) = 1 /\ w = 1
  <2>1. \A m, n \in U : m.key = n.key => m = n
    BY <1>3 DEF Batch
  <2>2. Written(U, Range(Columns)) /\ Forgets(p)
    BY <1>3, <1>4, <1>6, <1>8, <2>1, ExecuteWrites
  <2>3. PICK m \in T : U = {RenewUpdateTime(m)}
    BY <1>3, <1>5, <1>8
  <2>4. Updates(p, m, Range(Columns))
    BY <1>2, <2>2, <2>3 DEF Updates
  <2> QED BY <1>2, <2>2, <2>4
<1>9. (Len(s) > 1 \/ w > 1) \/ (Len(s) = 1 /\ w = 1)
  BY <1>5
<1> QED BY <1>7, <1>8, <1>9

\* Every model that was read is written back.
LEMMA UpsertIs ==
  ASSUME Inv, NEW p \in Process, InsertOrUpdate(p)
  PROVE  /\ models[p] # {} /\ Forgets(p)
         /\ Written({RenewUpdateTime(m) : m \in models[p]}, Range(Columns))
<1> DEFINE T == models[p]
           U == {RenewUpdateTime(m) : m \in T}
<1>1. T # {} /\ Execute(p, InsertOrUpdateModelSql(SetToSeq(U)), Width(T))
  BY DEF InsertOrUpdate
<1>2. Batch(U) /\ Width(U) = Width(T) /\ Named(U) \subseteq DOMAIN table
  BY <1>1, RenewedBatch
<1> HIDE DEF U
<1>3. Read(InsertOrUpdateModelSql(SetToSeq(U)), Width(T)) = Asked("upsert", U, Range(Columns))
  BY <1>2, CallsAreRead
<1>4. \A m, n \in U : m.key = n.key => m = n
  BY <1>2 DEF Batch
<1>5. Written(U, Range(Columns)) /\ Forgets(p)
  BY <1>1, <1>3, <1>4, ExecuteWrites
<1> QED BY <1>1, <1>5 DEF U

\* What Delete does: its text is refused.
LEMMA DeleteIs ==
  ASSUME Inv, NEW p \in Process, Delete(p)
  PROVE  models[p] # {} /\ Forgets(p) /\ UNCHANGED <<real, late, table, history>>
<1>1. PICK T \in Tables(models[p]) :
        Execute(p, DelSqlByPkDoubleVector(SetToSeq({m.key : m \in T})), Width(T))
  BY DEF Delete
<1>2. T \subseteq models[p] /\ T # {}
  BY <1>1 DEF Tables
<1>3. Batch(T)
  BY <1>2, CopyBatch
<1>4. Read(DelSqlByPkDoubleVector(SetToSeq({m.key : m \in T})), Width(T)) = Refused
  BY <1>3, KeysRefused
<1> QED BY <1>1, <1>2, <1>4, ExecuteRefused

-----------------------------------------------------------------------------
(* The invariant is inductive                                                *)

\* The invariant holds at the start.
LEMMA InvInit == Init => Inv
<1> SUFFICES ASSUME Init PROVE Inv
  OBVIOUS
<1>1. DOMAIN table = {} /\ table = [k \in {} |-> table[k]] /\ history = [k \in {} |-> history[k]]
  BY DEF Init
<1>2. TableInv
  BY <1>1 DEF TableInv
<1>3. models = [p \in Process |-> models[p]] /\ \A p \in Process : models[p] = {}
  BY DEF Init
<1>4. \A p \in Process : ModelsInv(models[p])
  BY <1>3 DEF ModelsInv
<1> QED BY <1>2, <1>3, <1>4 DEF Inv, Init

\* Insert keeps it.
LEMMA InsertInv ==
  ASSUME Inv, NEW p \in Process, Insert(p)
  PROVE  Inv'
<1>1. PICK T : Inserts(p, T) /\ Forgets(p)
  BY InsertIs
<1>2. \A m \in T : m.key \in Key /\ m.create \in Moment /\ m.renewed \in Moment
  BY <1>1, NewModelIs DEF Inserts
<1> QED BY <1>1, <1>2, WrittenKeeps DEF Inserts

\* An update of one row keeps it.
LEMMA UpdatesInv ==
  ASSUME Inv, NEW p \in Process, NEW m, NEW columns, Updates(p, m, columns), Forgets(p)
  PROVE  Inv'
<1> DEFINE n == RenewUpdateTime(m)
<1>1. m \in Model /\ m.key \in DOMAIN table
  BY DEF Updates, Inv, ModelsInv
<1>2. n \in Model /\ n.key = m.key
  BY <1>1, RenewedIs
<1> HIDE DEF n
<1>3. \A l \in {n} : l.key \in Key /\ l.create \in Moment /\ l.renewed \in Moment
  BY <1>2, ModelMembers
<1>4. Named({n}) \subseteq DOMAIN table
  BY <1>1, <1>2 DEF Named
<1>5. columns \in SUBSET Range(Columns) /\ Written({n}, columns)
  BY ColumnsSet DEF Updates, n
<1> QED BY <1>3, <1>4, <1>5, WrittenKeeps

\* InsertOrUpdate keeps it.
LEMMA UpsertInv ==
  ASSUME Inv, NEW p \in Process, InsertOrUpdate(p)
  PROVE  Inv'
<1> DEFINE U == {RenewUpdateTime(m) : m \in models[p]}
<1>1. models[p] # {} /\ Forgets(p) /\ Written(U, Range(Columns))
  BY UpsertIs
<1>2. U \subseteq Model
  BY <1>1, RenewedBatch
<1> HIDE DEF U
<1>3. \A l \in U : l.key \in Key /\ l.create \in Moment /\ l.renewed \in Moment
  BY <1>2, ModelMembers
<1> QED BY <1>1, <1>3, WrittenKeeps

\* Every step keeps it.
LEMMA InvNext == Inv /\ [Next]_vars => Inv'
<1> SUFFICES ASSUME Inv, [Next]_vars PROVE Inv'
  OBVIOUS
<1>0. /\ models = [q \in Process |-> models[q]] /\ \A q \in Process : ModelsInv(models[q])
      /\ real \in Instants /\ late \in {0, Back}
  BY DEF Inv
<1>1. CASE Advance
  BY <1>0, <1>1, ModelsKeep DEF Advance
<1>2. CASE SetClockBack
  BY <1>0, <1>2, ModelsKeep DEF SetClockBack
<1>3. CASE UNCHANGED vars
  BY <1>0, <1>3, ModelsKeep DEF vars
<1>4. ASSUME NEW p \in Process, Update(p) PROVE Inv'
  BY <1>4, UpdateIsOne, UpdatesInv, ForgetKeeps
<1>5. ASSUME NEW p \in Process, UpdateSingle(p) PROVE Inv'
  BY <1>5, UpdateSingleIs, UpdatesInv
<1>6. ASSUME NEW p \in Process, Delete(p) PROVE Inv'
  BY <1>6, DeleteIs, ForgetKeeps
<1>7. ASSUME NEW p \in Process, GiveUp(p) PROVE Inv'
  BY <1>7, ForgetKeeps DEF GiveUp, Forgets
<1> QED
  BY <1>1, <1>2, <1>3, <1>4, <1>5, <1>6, <1>7, QueryInv, InsertInv, UpsertInv DEF Next

\* What is stored, what the handlers have read and the clock stay within the
\* minute, the keys and the rows of one table, for every step of every handler.
THEOREM InvHolds == Spec => []Inv
  BY InvInit, InvNext, PTL DEF Spec

\* The rows have both columns, a history and a key of the table (TypeOK of
\* RowText).
THEOREM TypeCorrect == Spec => []TypeOK
<1>1. Inv => TypeOK
  <2> SUFFICES ASSUME Inv PROVE TypeOK
    OBVIOUS
  <2>1. \A k \in DOMAIN table : DOMAIN table[k] = Range(Columns)
    BY DEF Inv, TableInv
  <2>2. DOMAIN table \subseteq Key /\ DOMAIN history = DOMAIN table
    BY DEF Inv, TableInv
  <2> QED BY <2>1, <2>2 DEF Inv, TypeOK
<1> QED BY <1>1, InvHolds, PTL

\* rawDateParse reads every time of every stored row, and only the zeros in
\* front of the microseconds are lost.
THEOREM TimesAreRead == Spec => []StoredTimesAreRead
<1>1. ASSUME Inv, NEW k \in DOMAIN table, NEW c \in Range(Columns)
      PROVE  LET read == ReadTime(Wire(table[k][c])) IN
             /\ ~read.thrown
             /\ read.text.minute = Minute
             /\ Parse(read.text) = Moved(table[k][c])
  <2>1. table[k][c] \in Stored
    BY <1>1 DEF Inv, TableInv
  <2> DEFINE read == ReadTime(Wire(table[k][c]))
  <2>2. ~read.thrown /\ read.text \in TimeText /\ Parse(read.text) = Moved(table[k][c])
    BY <2>1, TimeIsRead
  <2> HIDE DEF read
  <2>3. read.text.minute = Minute
    BY <2>2 DEF TimeText
  <2> QED BY <2>2, <2>3 DEF read
<1>2. Inv => StoredTimesAreRead
  BY <1>1 DEF StoredTimesAreRead
<1> QED BY <1>2, InvHolds, PTL

\* The server reads in the text of every call on models that were read what
\* the call means, however many models there are and however wide their key.
THEOREM TextsMean == Spec => []TextsMeanTheirCalls
<1>1. ASSUME Inv, NEW p \in Process, NEW T \in Tables(models[p])
      PROVE  LET s == SetToSeq(T)
                 w == Width(T)
                 all == Range(Columns) IN
             /\ Read(InsertModelSql(s), w) = Asked("insert", T, all)
             /\ Read(InsertOrUpdateModelSql(s), w) = Asked("upsert", T, all)
             /\ Cardinality(T) = 1 =>
                  /\ w = 1 => Read(UpdateModelSql(s), w) = Asked("update", T, all)
                  /\ Read(UpdateSingleModelSql(s[1], {}), w) = Asked("update", T, all)
                  /\ Read(UpdateSingleModelSql(s[1], {"create_time"}), w)
                       = Asked("update", T, {"update_time"})
  <2> DEFINE s == SetToSeq(T)
             w == Width(T)
  <2>1. Batch(T)
    BY <1>1, CopyBatch DEF Tables
  <2>2. /\ Len(s) = Cardinality(T) /\ Len(s) \in Counts
        /\ Len(s) = 1 => T = {s[1]}
        /\ \A m \in T : Len(m.key) = w
    BY <2>1, BatchListed
  <2>3. /\ Read(InsertModelSql(s), w) = Asked("insert", T, Range(Columns))
        /\ Read(InsertOrUpdateModelSql(s), w) = Asked("upsert", T, Range(Columns))
        /\ Len(s) = 1 /\ w = 1 => Read(UpdateModelSql(s), w) = Asked("update", T, Range(Columns))
    BY <2>1, CallsAreRead
  <2> HIDE DEF s, w
  <2>4. ASSUME Cardinality(T) = 1
        PROVE  /\ Read(UpdateSingleModelSql(s[1], {}), w) = Asked("update", T, Range(Columns))
               /\ Read(UpdateSingleModelSql(s[1], {"create_time"}), w)
                    = Asked("update", T, {"update_time"})
    <3>1. T = {s[1]} /\ s[1] \in T
      BY <2>2, <2>4
    <3>2. IsModel(s[1]) /\ Len(s[1].key) = w
      BY <2>1, <2>2, <3>1 DEF Batch
    <3> QED BY <3>1, <3>2, SingleIsRead
  <2> QED BY <2>2, <2>3, <2>4 DEF s, w
<1>2. Inv => TextsMeanTheirCalls
  BY <1>1 DEF TextsMeanTheirCalls
<1> QED BY <1>2, InvHolds, PTL

\* What RowTextClaims finds for a small table goes for every table: a DELETE by
\* keys (db_manager.h:669) is no statement to the server.  Nor is an UPDATE of
\* several models (:461) or of a key of several columns (:471).
OtherTextsAreRefused == \A p \in Process : \A T \in Tables(models[p]) :
  LET s == SetToSeq(T)
      w == Width(T)
  IN  /\ Read(DelSqlByPkDoubleVector([i \in DOMAIN s |-> s[i].key]), w) = Refused
      /\ Cardinality(T) > 1 \/ w > 1 => Read(UpdateModelSql(s), w) = Refused

\* The texts the findings are about are refused, whatever models were read.
THEOREM OthersRefused == Spec => []OtherTextsAreRefused
<1>1. ASSUME Inv, NEW p \in Process, NEW T \in Tables(models[p])
      PROVE  LET s == SetToSeq(T)
                 w == Width(T) IN
             /\ Read(DelSqlByPkDoubleVector([i \in DOMAIN s |-> s[i].key]), w) = Refused
             /\ Cardinality(T) > 1 \/ w > 1 => Read(UpdateModelSql(s), w) = Refused
  <2>1. Batch(T)
    BY <1>1, CopyBatch DEF Tables
  <2>2. Len(SetToSeq(T)) = Cardinality(T)
    BY <2>1, BatchListed
  <2> QED BY <2>1, <2>2, CallsAreRead, KeysRefused
<1>2. Inv => OtherTextsAreRefused
  BY <1>1 DEF OtherTextsAreRefused
<1> QED BY <1>2, InvHolds, PTL

-----------------------------------------------------------------------------
(* Every step is one of RowTimes                                             *)

CopyOf(m) == [key |-> m.key, create |-> Parse(m.create), renewed |-> Parse(m.renewed),
              since |-> m.since]

\* The rows of the clock model, read from the table.
LEMMA RowsAre ==
  /\ DOMAIN Rows = DOMAIN table /\ Rows = [k \in DOMAIN table |-> Rows[k]]
  /\ \A k \in DOMAIN table :
       Rows[k] = [create |-> table[k]["create_time"], renewed |-> table[k]["update_time"],
                  born |-> history[k].born, since |-> history[k].since]
  BY DEF Rows

\* Its copies, read from the models held.
LEMMA CopiesAre ==
  /\ Copies = [p \in Process |-> Copies[p]]
  /\ \A p \in Process : Copies[p] = {CopyOf(m) : m \in models[p]}
  BY DEF Copies, CopyOf

\* A process that forgets its models forgets its copies.
LEMMA ForgetsCopies ==
  ASSUME Inv, NEW p \in Process, Forgets(p)
  PROVE  Times!Forget(p)
<1>1. \A q \in Process : models'[q] = IF q = p THEN {} ELSE models[q]
  BY DEF Inv, Forgets
<1>2. /\ Copies' = [q \in Process |-> Copies'[q]]
      /\ \A q \in Process : Copies'[q] = {CopyOf(m) : m \in models'[q]}
  BY DEF Copies, CopyOf
<1>3. \A q \in Process : Copies'[q] = IF q = p THEN {} ELSE Copies[q]
  BY <1>1, <1>2, CopiesAre
<1> QED BY <1>2, <1>3, CopiesAre DEF Times!Forget

\* Where table and history stay, so do the rows.
LEMMA SameRows ==
  ASSUME UNCHANGED <<table, history>>
  PROVE  Rows' = Rows
  BY DEF Rows

\* Where the models stay, so do the copies.
LEMMA SameCopies ==
  ASSUME UNCHANGED models
  PROVE  Copies' = Copies
  BY DEF Copies

\* A statement refused is a process giving up in the clock model.
LEMMA GiveUpStep ==
  ASSUME Inv, NEW p \in Process, Forgets(p), UNCHANGED <<real, late, table, history>>
  PROVE  Times!GiveUp(p)
  BY ForgetsCopies, SameRows DEF Times!GiveUp

\* A query is a query there.
LEMMA QueryStep ==
  ASSUME Inv, NEW p \in Process, Query(p)
  PROVE  Times!Query(p)
<1>1. PICK K \in SUBSET DOMAIN table :
        models' = [models EXCEPT ![p] =
          IF \E k \in K : \E c \in Range(Columns) : ReadTime(Wire(table[k][c])).thrown THEN {}
          ELSE {Inflated(k) : k \in K}]
  BY DEF Query
<1>2. models' = [models EXCEPT ![p] = {Inflated(k) : k \in K}]
  <2>1. ~\E k \in K : \E c \in Range(Columns) : ReadTime(Wire(table[k][c])).thrown
    BY <1>1, InflatedIs
  <2> QED BY <1>1, <2>1
<1> DEFINE C(k) == [key |-> k, create |-> Times!Moved(Rows[k].create),
                    renewed |-> Times!Moved(Rows[k].renewed), since |-> Rows[k].since]
           I == {Inflated(k) : k \in K}
<1>3. ASSUME NEW k \in K
      PROVE  CopyOf(Inflated(k)) = C(k)
  <2>1. /\ Inflated(k).key = k /\ Inflated(k).since = history[k].since
        /\ Parse(Inflated(k).create) = Moved(table[k]["create_time"])
        /\ Parse(Inflated(k).renewed) = Moved(table[k]["update_time"])
    BY <1>1, InflatedIs
  <2>2. /\ Rows[k].create = table[k]["create_time"] /\ Rows[k].renewed = table[k]["update_time"]
        /\ Rows[k].since = history[k].since
    BY <1>1, RowsAre
  <2> QED BY <2>1, <2>2, SameClock DEF CopyOf
<1> HIDE DEF C
<1>4. {CopyOf(m) : m \in I} = {C(k) : k \in K}
  BY <1>3
<1> HIDE DEF I
<1>5. \A q \in Process : models'[q] = IF q = p THEN I ELSE models[q]
  BY <1>2 DEF Inv, I
<1>6. /\ Copies' = [q \in Process |-> Copies'[q]]
      /\ \A q \in Process : Copies'[q] = {CopyOf(m) : m \in models'[q]}
  BY DEF Copies, CopyOf
<1>7. \A q \in Process : Copies'[q] = IF q = p THEN {C(k) : k \in K} ELSE Copies[q]
  BY <1>4, <1>5, <1>6, CopiesAre
<1>8. Copies' = [Copies EXCEPT ![p] = {C(k) : k \in K}]
  BY <1>6, <1>7, CopiesAre
<1>9. K \in SUBSET DOMAIN Rows
  BY <1>1, RowsAre
<1>10. Copies[p] = {}
  BY CopiesAre DEF Query
<1>11. UNCHANGED <<real, late, Rows>>
  BY SameRows DEF Query
<1> QED BY <1>8, <1>9, <1>10, <1>11 DEF Times!Query, C

\* The rows after some were written: the others are as they were.
LEMMA WrittenRows ==
  ASSUME NEW T, NEW columns, Written(T, columns)
  PROVE  /\ DOMAIN Rows' = DOMAIN Rows \cup Named(T)
         /\ Rows' = [k \in DOMAIN Rows \cup Named(T) |-> Rows'[k]]
         /\ \A k \in DOMAIN Rows \ Named(T) : Rows'[k] = Rows[k]
<1>1. DOMAIN table' = DOMAIN table \cup Named(T)
  BY DEF Written
<1>2. /\ DOMAIN Rows' = DOMAIN table' /\ Rows' = [k \in DOMAIN table' |-> Rows'[k]]
      /\ \A k \in DOMAIN table' :
           Rows'[k] = [create |-> table'[k]["create_time"], renewed |-> table'[k]["update_time"],
                       born |-> history'[k].born, since |-> history'[k].since]
  BY DEF Rows
<1>3. ASSUME NEW k \in DOMAIN Rows \ Named(T) PROVE Rows'[k] = Rows[k]
  <2>1. k \in DOMAIN table /\ k \in DOMAIN table'
    BY <1>1, RowsAre
  <2>2. table'[k] = table[k] /\ history'[k] = history[k]
    BY <2>1 DEF Written
  <2> QED BY <1>2, <2>1, <2>2, RowsAre
<1> QED BY <1>1, <1>2, <1>3, RowsAre

\* One row that was written: its times are those of the model.
LEMMA WrittenRow ==
  ASSUME Inv, NEW T, NEW columns, columns \in {Range(Columns), {"update_time"}},
         Written(T, columns), NEW m \in T, Parse(m.renewed) = Now,
         m.key \in DOMAIN table \/ columns = Range(Columns)
  PROVE  Rows'[m.key] =
           [create  |-> IF columns = Range(Columns) THEN Parse(m.create) ELSE Rows[m.key].create,
            renewed |-> Now,
            born    |-> IF m.key \in DOMAIN table THEN Rows[m.key].born ELSE Now,
            since   |-> real]
<1> DEFINE k == m.key
<1>1. k \in DOMAIN table'
  BY DEF Written, Named
<1>2. Rows'[k] = [create |-> table'[k]["create_time"], renewed |-> table'[k]["update_time"],
                  born |-> history'[k].born, since |-> history'[k].since]
  BY <1>1 DEF Rows
<1>3. /\ "create_time" # "update_time" /\ "create_time" \in Range(Columns)
      /\ "update_time" \in Range(Columns) /\ "update_time" \in columns
      /\ "create_time" \in columns <=> columns = Range(Columns)
  BY ColumnsSet
<1> DEFINE E(c) == IF c \in columns THEN Parse(Cell(m, c)) ELSE table[k][c]
<1>4. table'[k] = [c \in Range(Columns) |-> E(c)]
  BY DEF Written
<1>5. E("update_time") = Now
  BY <1>3 DEF Cell
<1>6. E("create_time") = IF columns = Range(Columns) THEN Parse(m.create) ELSE table[k]["create_time"]
  BY <1>3 DEF Cell
<1> HIDE DEF E
<1>7. table'[k]["update_time"] = Now
      /\ table'[k]["create_time"]
           = IF columns = Range(Columns) THEN Parse(m.create) ELSE table[k]["create_time"]
  BY <1>3, <1>4, <1>5, <1>6
<1>8. history'[k] = IF k \in DOMAIN table THEN [history[k] EXCEPT !.since = real]
                    ELSE [born |-> Now, since |-> real]
  BY DEF Written
<1>9. k \in DOMAIN table => history[k] \in [born : Nat, since : Nat]
  BY DEF Inv, TableInv
<1>10. /\ history'[k].since = real
       /\ history'[k].born = IF k \in DOMAIN table THEN history[k].born ELSE Now
  BY <1>8, <1>9
<1>11. k \in DOMAIN table =>
         Rows[k].create = table[k]["create_time"] /\ Rows[k].born = history[k].born
  BY RowsAre
<1> HIDE DEF k
<1> QED BY <1>2, <1>7, <1>10, <1>11 DEF k

\* An insert is an insert there.
LEMMA InsertStep ==
  ASSUME Inv, NEW p \in Process, Insert(p)
  PROVE  Times!Insert
<1>1. PICK T : Inserts(p, T) /\ Forgets(p) /\ models[p] = {}
  BY InsertIs
<1> DEFINE K == Named(T)
           new == [create |-> Now, renewed |-> Now, born |-> Now, since |-> real]
<1>2. Written(T, Range(Columns)) /\ UNCHANGED <<real, late>>
  BY <1>1 DEF Inserts, Written
<1>3. ASSUME NEW m \in T
      PROVE  /\ m.key \in Key \ DOMAIN table
             /\ Parse(m.create) = Now /\ Parse(m.renewed) = Now
  <2>1. PICK k \in Key \ DOMAIN table : m = NewModel(k)
    BY <1>1 DEF Inserts
  <2> QED BY <2>1, NewModelIs, NowStored, Printed
<1>4. K \in SUBSET (Key \ DOMAIN Rows)
  BY <1>3, RowsAre DEF Named
<1>5. ASSUME NEW k \in K PROVE Rows'[k] = new
  <2>1. PICK m \in T : k = m.key
    BY DEF Named
  <2>2. m.key \notin DOMAIN table /\ Parse(m.create) = Now /\ Parse(m.renewed) = Now
    BY <1>3
  <2> QED BY <1>2, <2>1, <2>2, WrittenRow
<1> HIDE DEF K, new
<1>6. Rows' = [k \in DOMAIN Rows \cup K |-> IF k \in K THEN new ELSE Rows[k]]
  <2>1. /\ Rows' = [k \in DOMAIN Rows \cup K |-> Rows'[k]]
        /\ \A k \in DOMAIN Rows \ K : Rows'[k] = Rows[k]
    BY <1>2, WrittenRows DEF K
  <2>2. \A k \in DOMAIN Rows \cup K : Rows'[k] = IF k \in K THEN new ELSE Rows[k]
    BY <1>5, <2>1
  <2> QED BY <2>1, <2>2
<1>7. Copies' = Copies
  <2>1. models' = models
    BY <1>1 DEF Forgets, Inv
  <2> QED BY <2>1, SameCopies
<1>8. Times!Now = Now
  BY DEF Times!Now, Now
<1> QED BY <1>2, <1>4, <1>6, <1>7, <1>8 DEF Times!Insert, new

\* A row that a copy is written to is renewed.
LEMMA RenewedRow ==
  ASSUME Inv, NEW p \in Process, NEW m \in models[p], NEW T, NEW columns,
         columns \in {Range(Columns), {"update_time"}}, Written(T, columns),
         RenewUpdateTime(m) \in T
  PROVE  /\ m.key \in DOMAIN Rows /\ CopyOf(m) \in Copies[p] /\ CopyOf(m).key = m.key
         /\ Rows'[m.key] = Times!Renewed(Rows[m.key], CopyOf(m), columns # Range(Columns))
<1> DEFINE n == RenewUpdateTime(m)
           k == m.key
<1>1. m \in Model /\ k \in DOMAIN table
  BY DEF Inv, ModelsInv
<1>2. n.key = k /\ n.create = m.create /\ Parse(n.renewed) = Now
  BY <1>1, RenewedIs
<1> HIDE DEF n
<1>3. Rows'[k] = [create  |-> IF columns = Range(Columns) THEN Parse(n.create) ELSE Rows[k].create,
                  renewed |-> Now, born |-> Rows[k].born, since |-> real]
  <2>1. n \in T
    BY DEF n
  <2> QED BY <1>1, <1>2, <2>1, WrittenRow
<1>4. CopyOf(m).create = Parse(m.create) /\ CopyOf(m).key = k /\ CopyOf(m) \in Copies[p]
  BY CopiesAre DEF CopyOf
<1>5. Times!Now = Now
  BY DEF Times!Now, Now
<1> DEFINE a == Rows[k].create
           b == Rows[k].born
           kept == columns # Range(Columns)
<1>6. Rows[k] = [create |-> a, renewed |-> Rows[k].renewed, born |-> b, since |-> Rows[k].since]
  BY <1>1, RowsAre
<1> HIDE DEF a, b
<1>7. Times!Renewed(Rows[k], CopyOf(m), kept)
        = [create |-> IF kept THEN a ELSE Parse(m.create), renewed |-> Now, born |-> b, since |-> real]
  <2> DEFINE row == Rows[k]
             c == CopyOf(m)
             t == Times!Now
             r == row.renewed
             s == row.since
             d == IF kept THEN a ELSE c.create
  <2>1. row = [create |-> a, renewed |-> r, born |-> b, since |-> s]
    BY <1>6
  <2>2. Times!Renewed(row, c, kept)
          = [row EXCEPT !.create = IF kept THEN @ ELSE c.create, !.renewed = t, !.since = real]
    BY DEF Times!Renewed
  <2>3. row.create = a
    BY <2>1
  <2> HIDE DEF row, c, t, r, s, kept
  <2>4. Times!Renewed(row, c, kept) = [row EXCEPT !.create = d, !.renewed = t, !.since = real]
    BY <2>1, <2>2, <2>3
  <2> HIDE DEF d
  <2>5. [row EXCEPT !.create = d, !.renewed = t, !.since = real]
          = [create |-> d, renewed |-> t, born |-> b, since |-> real]
    <3> DEFINE x == [row EXCEPT !.create = d]
               y == [x EXCEPT !.renewed = t]
    <3>1. [row EXCEPT !.create = d, !.renewed = t, !.since = real] = [y EXCEPT !.since = real]
      OBVIOUS
    <3>2. x = [create |-> d, renewed |-> r, born |-> b, since |-> s]
      BY <2>1
    <3> HIDE DEF x
    <3>3. y = [create |-> d, renewed |-> t, born |-> b, since |-> s]
      BY <3>2
    <3> HIDE DEF y
    <3>4. [y EXCEPT !.since = real] = [create |-> d, renewed |-> t, born |-> b, since |-> real]
      BY <3>3
    <3> QED BY <3>1, <3>4
  <2>6. t = Now /\ c.create = Parse(m.create)
    BY <1>4, <1>5 DEF t, c
  <2> QED BY <2>4, <2>5, <2>6 DEF row, c, d
<1>8. Rows'[k] = Times!Renewed(Rows[k], CopyOf(m), kept)
  BY <1>2, <1>3, <1>7 DEF a, b
<1> QED BY <1>1, <1>4, <1>8, RowsAre

\* An update of one row is an update there.
LEMMA UpdateStep ==
  ASSUME Inv, NEW p \in Process, NEW m, NEW columns, Updates(p, m, columns), Forgets(p)
  PROVE  Times!Update(p)
<1> DEFINE n == RenewUpdateTime(m)
           c == CopyOf(m)
           kept == columns # Range(Columns)
           new == Times!Renewed(Rows[m.key], c, kept)
<1>1. /\ m \in models[p] /\ columns \in {Range(Columns), {"update_time"}}
      /\ Written({n}, columns)
  BY DEF Updates
<1>2. m.key \in DOMAIN Rows /\ c \in Copies[p] /\ c.key = m.key /\ Rows'[m.key] = new
  BY <1>1, RenewedRow
<1>3. Named({n}) = {m.key}
  <2>1. m \in Model
    BY <1>1 DEF Inv, ModelsInv
  <2> QED BY <2>1, RenewedIs DEF Named
<1> HIDE DEF n, c, new
<1>4. /\ Rows' = [k \in DOMAIN Rows |-> Rows'[k]]
      /\ \A k \in DOMAIN Rows : k # m.key => Rows'[k] = Rows[k]
  <2>1. DOMAIN Rows \cup {m.key} = DOMAIN Rows
    BY <1>2
  <2> QED BY <1>1, <1>3, <2>1, WrittenRows
<1>5. Rows' = [Rows EXCEPT ![m.key] = new]
  BY <1>2, <1>4, RowsAre
<1>6. Rows' = [Rows EXCEPT ![c.key] = Times!Renewed(@, c, kept)]
  BY <1>2, <1>5 DEF new
<1>7. Times!Forget(p) /\ UNCHANGED <<real, late>>
  BY <1>1, ForgetsCopies DEF Written
<1>8. kept \in BOOLEAN
  OBVIOUS
<1> HIDE DEF kept
<1> QED BY <1>2, <1>6, <1>7, <1>8 DEF Times!Update

\* An insert-or-update is an upsert there.
LEMMA UpsertStep ==
  ASSUME Inv, NEW p \in Process, InsertOrUpdate(p)
  PROVE  Times!Upsert(p)
<1> DEFINE U == {RenewUpdateTime(m) : m \in models[p]}
           copied(k) == \E c \in Copies[p] : c.key = k
           copy(k) == CHOOSE c \in Copies[p] : c.key = k
<1>1. Forgets(p) /\ Written(U, Range(Columns))
  BY UpsertIs
<1>2. /\ \A m \in models[p] : m \in Model /\ RenewUpdateTime(m) \in U
      /\ \A m, n \in models[p] : m.key = n.key => m = n
  BY DEF Inv, ModelsInv
<1>3. Named(U) = {m.key : m \in models[p]}
  BY <1>2, RenewedIs DEF Named
<1> HIDE DEF U
<1>4. ASSUME NEW m \in models[p]
      PROVE  /\ m.key \in DOMAIN Rows /\ copied(m.key) /\ copy(m.key) = CopyOf(m)
             /\ Rows'[m.key] = Times!Renewed(Rows[m.key], CopyOf(m), FALSE)
  <2>1. /\ m.key \in DOMAIN Rows /\ CopyOf(m) \in Copies[p] /\ CopyOf(m).key = m.key
        /\ Rows'[m.key] = Times!Renewed(Rows[m.key], CopyOf(m), Range(Columns) # Range(Columns))
    BY <1>1, <1>2, RenewedRow
  <2>2. (Range(Columns) # Range(Columns)) = FALSE
    OBVIOUS
  <2>3. \A c \in Copies[p] : c.key = m.key => c = CopyOf(m)
    <3>1. SUFFICES ASSUME NEW c \in Copies[p], c.key = m.key PROVE c = CopyOf(m)
      OBVIOUS
    <3>2. PICK n \in models[p] : c = CopyOf(n)
      BY CopiesAre
    <3>3. n.key = m.key
      BY <3>1, <3>2 DEF CopyOf
    <3> QED BY <1>2, <3>2, <3>3
  <2>4. copy(m.key) = CopyOf(m)
    BY <2>1, <2>3
  <2> QED BY <2>1, <2>2, <2>4
<1>5. \A k : copied(k) <=> k \in Named(U)
  <2>1. \A c \in Copies[p] : \E m \in models[p] : c = CopyOf(m)
    BY CopiesAre
  <2>2. \A m : CopyOf(m).key = m.key
    BY DEF CopyOf
  <2> QED BY <1>3, <1>4, <2>1, <2>2
<1> DEFINE new(k) == Times!Renewed(Rows[k], copy(k), FALSE)
<1>6. ASSUME NEW k \in Named(U)
      PROVE  k \in DOMAIN Rows /\ Rows'[k] = new(k)
  <2>1. PICK m \in models[p] : k = m.key
    BY <1>3
  <2> QED BY <1>4, <2>1
<1> HIDE DEF copied, new
<1>7. /\ Rows' = [k \in DOMAIN Rows |-> Rows'[k]]
      /\ \A k \in DOMAIN Rows \ Named(U) : Rows'[k] = Rows[k]
  <2>1. DOMAIN Rows \cup Named(U) = DOMAIN Rows
    BY <1>6
  <2> QED BY <1>1, <2>1, WrittenRows
<1>8. Rows' = [k \in DOMAIN Rows |-> IF copied(k) THEN new(k) ELSE Rows[k]]
  <2>1. \A k \in DOMAIN Rows : Rows'[k] = IF copied(k) THEN new(k) ELSE Rows[k]
    BY <1>5, <1>6, <1>7
  <2> QED BY <1>7, <2>1
<1>9. Times!Forget(p) /\ UNCHANGED <<real, late>>
  BY <1>1, ForgetsCopies DEF Written
<1> QED BY <1>8, <1>9 DEF Times!Upsert, copied, new

\* The rows start as the clock model's.
LEMMA FollowsInit == Init => Times!Init
<1> SUFFICES ASSUME Init PROVE Times!Init
  OBVIOUS
<1>1. Rows = [k \in {} |-> 0]
  <2>1. DOMAIN Rows = {} /\ Rows = [k \in {} |-> Rows[k]]
    BY RowsAre DEF Init
  <2> QED BY <2>1
<1>2. Copies = [p \in Process |-> {}]
  <2>1. \A p \in Process : Copies[p] = {}
    BY CopiesAre DEF Init
  <2> QED BY <2>1, CopiesAre
<1> QED BY <1>1, <1>2 DEF Init, Times!Init

\* Every step of RowText is a step of the clock model, or changes nothing it sees.
LEMMA FollowsNext == Inv /\ [Next]_vars => [Times!Next]_Times!vars
<1> SUFFICES ASSUME Inv, [Next]_vars PROVE [Times!Next]_Times!vars
  OBVIOUS
<1>1. CASE Advance
  <2>1. Times!Advance
    BY <1>1, SameRows, SameCopies DEF Advance, Times!Advance
  <2> QED BY <2>1 DEF Times!Next
<1>2. CASE SetClockBack
  <2>1. Times!SetClockBack
    BY <1>2, SameRows, SameCopies DEF SetClockBack, Times!SetClockBack
  <2> QED BY <2>1 DEF Times!Next
<1>3. CASE UNCHANGED vars
  BY <1>3, SameRows, SameCopies DEF vars, Times!vars
<1>4. ASSUME NEW p \in Process, Update(p) PROVE Times!Update(p) \/ Times!GiveUp(p)
  BY <1>4, UpdateIsOne, UpdateStep, GiveUpStep
<1>5. ASSUME NEW p \in Process, UpdateSingle(p) PROVE Times!Update(p)
  BY <1>5, UpdateSingleIs, UpdateStep
<1>6. ASSUME NEW p \in Process, Delete(p) PROVE Times!GiveUp(p)
  BY <1>6, DeleteIs, GiveUpStep
<1>7. ASSUME NEW p \in Process, GiveUp(p) PROVE Times!GiveUp(p)
  BY <1>7, GiveUpStep DEF GiveUp, Forgets
<1> QED
  BY <1>1, <1>2, <1>3, <1>4, <1>5, <1>6, <1>7, QueryStep, InsertStep, UpsertStep
  DEF Next, Times!Next

\* DbManager's texts do to the rows what its callers mean: RowText implements
\* RowTimes, which knows no texts.
THEOREM TextsFollow == Spec => RowsFollow
<1>1. Init => Times!Init
  BY FollowsInit
<1>2. Inv /\ [Next]_vars => [Times!Next]_Times!vars
  BY FollowsNext
<1> QED BY <1>1, <1>2, InvHolds, PTL DEF Spec, RowsFollow, Times!Spec

\* However the texts carry a row's creation time to the program and back, it
\* moves at most once, and stays within its second.
THEOREM StoredTimesMoveOnce == Spec => []TimesMoveAtMostOnce
  BY TextsFollow, MovesOnce, PTL DEF RowsFollow, TimesMoveAtMostOnce

\* What a handler concludes from a time it has read is early never, and late by
\* less than a second and what the clock was set back.
THEOREM StoredExpiryIsBarelyLate == Spec => []ExpiryIsBarelyLate
  BY TextsFollow, BarelyLate, PTL DEF RowsFollow, ExpiryIsBarelyLate

=============================================================================
