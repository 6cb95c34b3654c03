---------------------------- MODULE LogStreamProofs ----------------------------
(***************************************************************************)
(* A log line never reaches the end of its buffer, whatever its size and   *)
(* whatever is streamed: the test of formatInteger leaves room for the     *)
(* digits of every integer.  And a line that has room is what was          *)
(* streamed.                                                               *)
(***************************************************************************)
EXTENDS LogStream, SequenceTheorems, WellFoundedInduction, NaturalsInduction, TLAPS

LEMMA LeastNumber ==
  ASSUME NEW S \in SUBSET Nat, S # {}
  PROVE  \E m \in S : \A k \in S : m <= k
<1> DEFINE R == {ss \in Nat \X Nat : ss[1] < ss[2]}
<1>1. IsWellFoundedOn(R, Nat)
  BY NatLessThanWellFounded DEF OpToRel
<1>2. PICK m \in S : \A k \in S : ~(<<k, m>> \in R)
  BY <1>1, WFMin
<1>3. \A k \in S : ~(k < m)
  BY <1>2
<1> QED BY <1>3

-----------------------------------------------------------------------------
(* f is what the functions g[1], g[2], ... make of base, one after the      *)
(* other, up to n of them. *)
Iterates(f, n, base, g) ==
  f = [i \in 0 .. n |-> IF i = 0 THEN base ELSE g[i][f[i - 1]]]

LEMMA IterationExtends ==
  ASSUME NEW T, NEW base \in T, NEW n \in Nat, NEW g, g[n + 1] \in [T -> T],
         NEW f \in [0 .. n -> T], Iterates(f, n, base, g)
  PROVE  \E h \in [0 .. n + 1 -> T] : Iterates(h, n + 1, base, g)
<1>1. PICK x \in T : x = g[n + 1][f[n]]
  OBVIOUS
<1>2. PICK h : h = [i \in 0 .. n + 1 |-> IF i = n + 1 THEN x ELSE f[i]]
  OBVIOUS
<1>3. h \in [0 .. n + 1 -> T]
  BY <1>2
<1>4. ASSUME NEW i \in 0 .. n + 1
      PROVE  h[i] = IF i = 0 THEN base ELSE g[i][h[i - 1]]
  <2>1. CASE i = n + 1
    <3>1. h[i] = x /\ i # 0 /\ h[i - 1] = f[n]
      BY <1>2, <2>1
    <3> QED BY <1>1, <2>1, <3>1
  <2>2. CASE i # n + 1
    <3>1. i \in 0 .. n /\ h[i] = f[i]
      BY <1>2, <2>2
    <3>2. f[i] = IF i = 0 THEN base ELSE g[i][f[i - 1]]
      BY <3>1 DEF Iterates
    <3>3. i # 0 => h[i - 1] = f[i - 1]
      BY <1>2, <3>1
    <3> QED BY <3>1, <3>2, <3>3
  <2> QED BY <2>1, <2>2
<1>5. Iterates(h, n + 1, base, g)
  BY <1>3, <1>4 DEF Iterates
<1> QED BY <1>3, <1>5

LEMMA IterationExists ==
  ASSUME NEW T, NEW base \in T, NEW n \in Nat, NEW g \in [1 .. n -> [T -> T]]
  PROVE  \E f \in [0 .. n -> T] : Iterates(f, n, base, g)
<1> DEFINE Has(k) == \E f \in [0 .. k -> T] : Iterates(f, k, base, g)
           Bad == {k \in 0 .. n : ~Has(k)}
<1>1. Has(0)
  <2>1. PICK f : f = [i \in 0 .. 0 |-> base]
    OBVIOUS
  <2>2. f \in [0 .. 0 -> T] /\ Iterates(f, 0, base, g)
    BY <2>1 DEF Iterates
  <2> QED BY <2>2
<1>2. ASSUME NEW k \in Nat, k + 1 \in 0 .. n, Has(k) PROVE Has(k + 1)
  <2>1. g[k + 1] \in [T -> T]
    BY <1>2
  <2> QED BY <1>2, <2>1, IterationExtends
<1>3. ASSUME Bad # {} PROVE FALSE
  <2>1. Bad \in SUBSET Nat
    OBVIOUS
  <2>2. PICK m \in Bad : \A k \in Bad : m <= k
    BY <1>3, <2>1, LeastNumber
  <2>3. m \in 0 .. n /\ ~Has(m)
    OBVIOUS
  <2>4. m # 0
    BY <1>1, <2>3
  <2>5. PICK k \in Nat : m = k + 1 /\ k \in 0 .. n /\ ~(m <= k)
    <3>1. m - 1 \in Nat /\ m = (m - 1) + 1 /\ m - 1 \in 0 .. n /\ ~(m <= m - 1)
      BY <2>3, <2>4
    <3> QED BY <3>1
  <2>6. Has(k)
    BY <2>2, <2>5
  <2> QED BY <1>2, <2>3, <2>5, <2>6
<1>4. n \in 0 .. n
  OBVIOUS
<1>5. Has(n)
  BY <1>3, <1>4
<1> QED BY <1>5

-----------------------------------------------------------------------------
(* Powers of ten. *)
Tens(f, k) == f = [i \in 0 .. k |-> IF i = 0 THEN 1 ELSE 10 * f[i - 1]]

LEMMA TensExist ==
  ASSUME NEW k \in Nat
  PROVE  \E f : Tens(f, k)
<1>1. PICK g : g = [i \in 1 .. k |-> [v \in Nat |-> 10 * v]]
  OBVIOUS
<1>2. g \in [1 .. k -> [Nat -> Nat]] /\ 1 \in Nat
  BY <1>1
<1>3. PICK f \in [0 .. k -> Nat] : Iterates(f, k, 1, g)
  BY <1>2, IterationExists
<1>4. ASSUME NEW i \in 0 .. k PROVE f[i] = IF i = 0 THEN 1 ELSE 10 * f[i - 1]
  <2>1. f[i] = IF i = 0 THEN 1 ELSE g[i][f[i - 1]]
    BY <1>3 DEF Iterates
  <2>2. CASE i # 0
    <3>1. i - 1 \in 0 .. k /\ i \in 1 .. k
      BY <2>2
    <3>2. f[i - 1] \in Nat
      BY <3>1
    <3> QED BY <1>1, <2>1, <2>2, <3>1, <3>2
  <2> QED BY <2>1, <2>2
<1>5. Tens(f, k)
  BY <1>4 DEF Tens
<1> QED BY <1>5

LEMMA TensFacts ==
  ASSUME NEW k \in Nat, NEW f, Tens(f, k)
  PROVE  /\ f[0] = 1 /\ \A i \in 1 .. k : f[i] = 10 * f[i - 1]
         /\ \A i \in 0 .. k : f[i] \in Nat
<1>1. \A i \in 0 .. k : f[i] = IF i = 0 THEN 1 ELSE 10 * f[i - 1]
  BY DEF Tens
<1> DEFINE Bad == {i \in 0 .. k : f[i] \notin Nat}
<1>2. ASSUME Bad # {} PROVE FALSE
  <2>1. Bad \in SUBSET Nat
    OBVIOUS
  <2>2. PICK j \in Bad : \A i \in Bad : j <= i
    BY <1>2, <2>1, LeastNumber
  <2>3. j \in 0 .. k /\ f[j] \notin Nat /\ j # 0
    BY <1>1
  <2>4. j - 1 \in 0 .. k /\ ~(j <= j - 1)
    BY <2>3
  <2>5. f[j - 1] \in Nat
    BY <2>2, <2>4
  <2> QED BY <1>1, <2>3, <2>5
<1> QED BY <1>1, <1>2

LEMMA TenToIs ==
  ASSUME NEW k \in Nat
  PROVE  \E f : Tens(f, k) /\ TenTo(k) = f[k]
<1>1. PICK f : f = CHOOSE h : h = [i \in 0 .. k |-> IF i = 0 THEN 1 ELSE 10 * h[i - 1]]
  OBVIOUS
<1>2. Tens(f, k)
  BY <1>1, TensExist DEF Tens
<1>3. TenTo(k) = f[k]
  BY <1>1 DEF TenTo
<1> QED BY <1>2, <1>3

-----------------------------------------------------------------------------
(* Division drops the last digit. *)
LEMMA WordFacts ==
  ASSUME NEW n \in Word
  PROVE  /\ n \in Int /\ Abs(n) \in Nat /\ Abs(n) <= MaxInt
         /\ Quotient(n) \in Word /\ Abs(Quotient(n)) = Abs(n) \div 10
         /\ Quotient(n) # 0 => Abs(Quotient(n)) < Abs(n)
         /\ Quotient(n) = 0 <=> Abs(n) < 10
         /\ Zero + Remainder(n) \in Nat
<1>1. MaxInt \in Nat
  BY LogAssumption
<1>2. n \in Int /\ Abs(n) \in Nat /\ Abs(n) <= MaxInt
  BY <1>1 DEF Word, Abs
<1>3. PICK a \in Nat : a = Abs(n) /\ a <= MaxInt
  BY <1>2
<1>4. PICK q \in Nat : q = a \div 10 /\ q <= a /\ (a # 0 => q < a)
                     /\ (q = 0 <=> a < 10)
  <2>1. a \div 10 \in Nat /\ a \div 10 <= a /\ (a # 0 => a \div 10 < a)
        /\ (a \div 10 = 0 <=> a < 10)
    OBVIOUS
  <2> QED BY <2>1
<1>5. a % 10 \in 0 .. 9
  OBVIOUS
<1>6. Quotient(n) = IF n < 0 THEN 0 - q ELSE q
  BY <1>2, <1>3, <1>4 DEF Quotient, Abs
<1>7. Remainder(n) \in -9 .. 9
  BY <1>2, <1>3, <1>5 DEF Remainder, Abs
<1>8. Quotient(n) \in Word /\ Abs(Quotient(n)) = q
  BY <1>1, <1>3, <1>4, <1>6 DEF Word, Abs
<1>9. Quotient(n) = 0 <=> q = 0
  BY <1>6
<1>10. q # 0 => q < a
  BY <1>4
<1> QED BY <1>2, <1>3, <1>4, <1>7, <1>8, <1>9, <1>10 DEF Zero

(* One turn of the loop, f being the rest of it. *)
Turn(f, n) ==
  IF Quotient(n) = 0 THEN <<Zero + Remainder(n)>>
  ELSE <<Zero + Remainder(n)>> \o f[Quotient(n)]

Turns(f, k) == \A n \in Word : Abs(n) <= k => f[n] = Turn(f, n)

LEMMA TurnsExist ==
  ASSUME NEW k \in Nat
  PROVE  \E f : Turns(f, k)
<1> DEFINE Has(j) == \E f : Turns(f, j)
           Bad == {j \in Nat : ~Has(j)}
<1>1. Has(0)
  <2>1. PICK f : f = [n \in Word |-> Turn(0, n)]
    OBVIOUS
  <2>2. ASSUME NEW n \in Word, Abs(n) <= 0 PROVE f[n] = Turn(f, n)
    <3>1. Quotient(n) = 0
      BY <2>2, WordFacts
    <3> QED BY <2>1, <3>1 DEF Turn
  <2> QED BY <2>2 DEF Turns
<1>2. ASSUME NEW j \in Nat, Has(j) PROVE Has(j + 1)
  <2>1. PICK f : Turns(f, j)
    BY <1>2
  <2>2. PICK g : g = [n \in Word |-> Turn(f, n)]
    OBVIOUS
  <2>3. ASSUME NEW n \in Word, Abs(n) <= j + 1 PROVE g[n] = Turn(g, n)
    <3>1. CASE Quotient(n) = 0
      BY <2>2, <3>1 DEF Turn
    <3>2. CASE Quotient(n) # 0
      <4>1. PICK q \in Word : q = Quotient(n) /\ Abs(q) <= j
        <5>1. /\ Quotient(n) \in Word /\ Abs(Quotient(n)) < Abs(n)
              /\ Abs(n) \in Nat /\ Abs(Quotient(n)) \in Nat
          BY <3>2, WordFacts
        <5> QED BY <2>3, <5>1
      <4>2. f[q] = Turn(f, q)
        BY <2>1, <4>1 DEF Turns
      <4>3. g[q] = Turn(f, q) /\ g[n] = Turn(f, n)
        BY <2>2
      <4> QED BY <3>2, <4>1, <4>2, <4>3 DEF Turn
    <3> QED BY <3>1, <3>2
  <2>4. Turns(g, j + 1)
    BY <2>3 DEF Turns
  <2> QED BY <2>4
<1>3. ASSUME Bad # {} PROVE FALSE
  <2>1. Bad \in SUBSET Nat
    OBVIOUS
  <2>2. PICK m \in Bad : \A j \in Bad : m <= j
    BY <1>3, <2>1, LeastNumber
  <2>3. m \in Nat /\ ~Has(m) /\ m # 0
    BY <1>1
  <2>4. PICK j \in Nat : m = j + 1 /\ ~(m <= j)
    <3>1. m - 1 \in Nat /\ m = (m - 1) + 1 /\ ~(m <= m - 1)
      BY <2>3
    <3> QED BY <3>1
  <2>5. Has(j)
    BY <2>2, <2>4
  <2> QED BY <1>2, <2>3, <2>4, <2>5
<1>4. Has(k)
  BY <1>3
<1> QED BY <1>4

LEMMA RemainingDigitsIs ==
  ASSUME NEW n \in Word
  PROVE  RemainingDigits[n] = Turn(RemainingDigits, n)
<1>1. PICK k \in Nat : k = MaxInt
  BY LogAssumption
<1>2. PICK f : Turns(f, k)
  BY TurnsExist
<1>3. PICK h : h = [i \in Word |-> f[i]]
  OBVIOUS
<1>4. ASSUME NEW i \in Word PROVE h[i] = Turn(h, i)
  <2>1. Abs(i) <= k /\ Quotient(i) \in Word
    BY <1>1, WordFacts
  <2>2. f[i] = Turn(f, i)
    BY <1>2, <2>1 DEF Turns
  <2> QED BY <1>3, <2>1, <2>2 DEF Turn
<1>5. h = [i \in Word |-> Turn(h, i)]
  BY <1>3, <1>4
<1>6. RemainingDigits = CHOOSE e : e = [i \in Word |-> Turn(e, i)]
  BY DEF RemainingDigits, Turn
<1>7. RemainingDigits = [i \in Word |-> Turn(RemainingDigits, i)]
  BY <1>5, <1>6
<1> QED BY <1>7

(* A number below a power of ten has no more digits than the power. *)
LEMMA DigitsAreFew ==
  ASSUME NEW n \in Word
  PROVE  /\ RemainingDigits[n] \in Seq(Nat)
         /\ Len(RemainingDigits[n]) \in 1 .. NumSize - 1
<1>1. PICK K \in Nat : K = NumSize - 1 /\ K >= 1 /\ MaxInt < TenTo(K) /\ MaxInt \in Nat
  BY LogAssumption
<1>2. PICK p : Tens(p, K) /\ TenTo(K) = p[K]
  BY TenToIs
<1>3. /\ p[0] = 1 /\ \A i \in 1 .. K : p[i] = 10 * p[i - 1]
      /\ \A i \in 0 .. K : p[i] \in Nat
  BY <1>2, TensFacts
<1> DEFINE Few(i, k) == /\ RemainingDigits[i] \in Seq(Nat)
                        /\ Len(RemainingDigits[i]) \in 1 .. k
           Bad == {k \in 1 .. K : \E i \in Word : Abs(i) < p[k] /\ ~Few(i, k)}
<1>4. ASSUME Bad # {} PROVE FALSE
  <2>1. Bad \in SUBSET Nat
    OBVIOUS
  <2>2. PICK k \in Bad : \A j \in Bad : k <= j
    BY <1>4, <2>1, LeastNumber
  <2>3. PICK i \in Word : Abs(i) < p[k] /\ ~Few(i, k)
    OBVIOUS
  <2>4. k \in 1 .. K /\ k - 1 \in 0 .. K /\ ~(k <= k - 1)
    OBVIOUS
  <2>5. PICK d \in Nat : d = Zero + Remainder(i)
    BY WordFacts
  <2>6. <<d>> \in Seq(Nat) /\ Len(<<d>>) = 1
    OBVIOUS
  <2>7. RemainingDigits[i] = IF Quotient(i) = 0 THEN <<d>>
                             ELSE <<d>> \o RemainingDigits[Quotient(i)]
    BY <2>5, RemainingDigitsIs DEF Turn
  <2>8. Quotient(i) # 0
    <3>1. ASSUME Quotient(i) = 0 PROVE FALSE
      <4>1. RemainingDigits[i] = <<d>>
        BY <2>7, <3>1
      <4> QED BY <2>3, <2>4, <2>6, <4>1
    <3> QED BY <3>1
  <2>9. PICK q \in Word : q = Quotient(i)
    BY WordFacts
  <2>10. k - 1 \in 1 .. K /\ Abs(q) < p[k - 1]
    <3>1. PICK a \in Nat : a = Abs(i) /\ ~(a < 10) /\ Abs(q) = a \div 10
      BY <2>8, <2>9, WordFacts
    <3>2. PICK t \in Nat : t = p[k - 1] /\ p[k] = 10 * t
      BY <1>3, <2>4
    <3>3. a < 10 * t
      BY <2>3, <3>1, <3>2
    <3>4. a \div 10 < t
      BY <3>3
    <3>5. k # 1
      <4>1. k = 1 => t = 1
        BY <1>3, <3>2
      <4> QED BY <3>1, <3>3, <4>1
    <3> QED BY <2>4, <3>1, <3>2, <3>4, <3>5
  <2>11. Few(q, k - 1)
    BY <2>2, <2>4, <2>10
  <2>12. PICK x \in Seq(Nat) : x = RemainingDigits[q] /\ Len(x) \in 1 .. k - 1
    BY <2>11
  <2>13. <<d>> \o x \in Seq(Nat) /\ Len(<<d>> \o x) = 1 + Len(x)
    BY <2>6, ConcatProperties
  <2>14. RemainingDigits[i] = <<d>> \o x
    BY <2>7, <2>8, <2>9, <2>12
  <2> QED BY <2>3, <2>4, <2>12, <2>13, <2>14
<1>5. Abs(n) < p[K] /\ K \in 1 .. K
  <2>1. Abs(n) \in Nat /\ Abs(n) <= MaxInt
    BY WordFacts
  <2>2. p[K] \in Nat
    BY <1>3
  <2> QED BY <1>1, <1>2, <2>1, <2>2
<1>6. Few(n, K)
  BY <1>4, <1>5
<1> QED BY <1>1, <1>6

LEMMA DigitsFacts ==
  ASSUME NEW n \in Word
  PROVE  Digits(n) \in Seq(Nat) /\ Len(Digits(n)) \in 1 .. NumSize - 1
<1>1. PICK x \in Seq(Nat) : x = RemainingDigits[n] /\ Len(x) \in 1 .. NumSize - 1
  BY DigitsAreFew
<1>2. PICK m \in Nat : m = Len(x) /\ m \in 1 .. NumSize - 1
  BY <1>1, LenProperties
<1>3. PICK y : y = [i \in 1 .. m |-> x[(m - i) + 1]]
  OBVIOUS
<1>4. Digits(n) = y
  BY <1>1, <1>2, <1>3 DEF Digits, Reverse
<1>5. ASSUME NEW i \in 1 .. m PROVE y[i] \in Nat
  <2>1. (m - i) + 1 \in 1 .. Len(x)
    BY <1>2
  <2>2. x[(m - i) + 1] \in Nat
    BY <2>1, ElementOfSeq
  <2> QED BY <1>3, <2>2
<1>6. y \in Seq(Nat) /\ Len(y) = m
  BY <1>3, <1>5
<1> QED BY <1>2, <1>4, <1>6

-----------------------------------------------------------------------------
(* A line that does not reach the end of its buffer, and pieces.           *)
Line == {s \in Seq(Nat) : Len(s) < Size}

IsPiece(p) == IF IsInt(p) THEN p.int \in Word ELSE p.text \in Seq(Nat)
ArePieces(ps, n) == \A i \in 1 .. n : IsPiece(ps[i])

LEMMA PutFacts ==
  ASSUME NEW buf \in Line, NEW p, IsPiece(p)
  PROVE  Put(buf, p) \in Line
<1>1. PICK l \in Nat : l = Len(buf) /\ l < Size
  BY LenProperties DEF Line
<1>2. Size \in Nat /\ NumSize \in Nat /\ buf \in Seq(Nat)
  BY LogAssumption DEF Line
<1>3. CASE IsInt(p)
  <2>1. PICK d \in Seq(Nat) : d = Digits(p.int) /\ Len(d) \in 1 .. NumSize - 1
    BY <1>3, DigitsFacts DEF IsPiece
  <2>2. buf \o d \in Seq(Nat) /\ Len(buf \o d) = l + Len(d)
    BY <1>1, <1>2, <2>1, ConcatProperties
  <2>3. Put(buf, p) = IF Size - l >= NumSize THEN buf \o d ELSE buf
    BY <1>1, <1>3, <2>1 DEF Put, formatInteger, avail
  <2> QED BY <1>1, <1>2, <2>1, <2>2, <2>3 DEF Line
<1>4. CASE ~IsInt(p)
  <2>1. PICK d \in Seq(Nat) : d = p.text
    BY <1>4 DEF IsPiece
  <2>2. buf \o d \in Seq(Nat) /\ Len(buf \o d) = l + Len(d) /\ Len(d) \in Nat
    BY <1>1, <1>2, <2>1, ConcatProperties, LenProperties
  <2>3. Put(buf, p) = IF Size - l > Len(d) THEN buf \o d ELSE buf
    BY <1>1, <1>4, <2>1 DEF Put, append, avail
  <2> QED BY <1>1, <1>2, <2>2, <2>3 DEF Line
<1> QED BY <1>3, <1>4

(* What PutAll goes through. *)
Puts(f, buf, ps, n) ==
  f[0] = buf /\ \A i \in 1 .. n : f[i] = Put(f[i - 1], ps[i])

LEMMA PutAllIs ==
  ASSUME NEW buf \in Line, NEW ps, Len(ps) \in Nat, ArePieces(ps, Len(ps))
  PROVE  \E f \in [0 .. Len(ps) -> Line] :
           Puts(f, buf, ps, Len(ps)) /\ PutAll(buf, ps) = f[Len(ps)]
<1>1. PICK n \in Nat : n = Len(ps)
  OBVIOUS
<1>2. PICK g : g = [i \in 1 .. n |-> [b \in Line |-> Put(b, ps[i])]]
  OBVIOUS
<1>3. ASSUME NEW i \in 1 .. n, NEW b \in Line
      PROVE  g[i][b] = Put(b, ps[i]) /\ Put(b, ps[i]) \in Line
  <2>1. IsPiece(ps[i])
    BY <1>1 DEF ArePieces
  <2> QED BY <1>2, <2>1, PutFacts
<1>4. g \in [1 .. n -> [Line -> Line]]
  BY <1>2, <1>3
<1>5. PICK h \in [0 .. n -> Line] : Iterates(h, n, buf, g)
  BY <1>4, IterationExists
<1>6. ASSUME NEW i \in 0 .. n
      PROVE  h[i] = IF i = 0 THEN buf ELSE Put(h[i - 1], ps[i])
  <2>1. h[i] = IF i = 0 THEN buf ELSE g[i][h[i - 1]]
    BY <1>5 DEF Iterates
  <2>2. CASE i # 0
    <3>1. i \in 1 .. n /\ i - 1 \in 0 .. n
      BY <2>2
    <3>2. h[i - 1] \in Line
      BY <3>1
    <3> QED BY <1>3, <2>1, <2>2, <3>1, <3>2
  <2> QED BY <2>1, <2>2
<1>7. h = [i \in 0 .. n |-> IF i = 0 THEN buf ELSE Put(h[i - 1], ps[i])]
  BY <1>6
<1>8. PICK f : f = CHOOSE e : e = [i \in 0 .. n |->
                              IF i = 0 THEN buf ELSE Put(e[i - 1], ps[i])]
  OBVIOUS
<1>9. f = [i \in 0 .. n |-> IF i = 0 THEN buf ELSE Put(f[i - 1], ps[i])]
  BY <1>7, <1>8
<1>10. PutAll(buf, ps) = f[n]
  BY <1>1, <1>8 DEF PutAll
<1>11. Puts(f, buf, ps, n)
  BY <1>9 DEF Puts
<1> DEFINE Bad == {i \in 0 .. n : f[i] \notin Line}
<1>12. ASSUME Bad # {} PROVE FALSE
  <2>1. Bad \in SUBSET Nat
    OBVIOUS
  <2>2. PICK j \in Bad : \A i \in Bad : j <= i
    BY <1>12, <2>1, LeastNumber
  <2>3. j \in 0 .. n /\ f[j] \notin Line /\ j # 0
    BY <1>9
  <2>4. j - 1 \in 0 .. n /\ ~(j <= j - 1) /\ j \in 1 .. n
    BY <2>3
  <2>5. f[j - 1] \in Line
    BY <2>2, <2>4
  <2>6. f[j] = Put(f[j - 1], ps[j]) /\ IsPiece(ps[j])
    BY <1>1, <1>11, <2>4 DEF Puts, ArePieces
  <2> QED BY <2>3, <2>5, <2>6, PutFacts
<1>13. f \in [0 .. n -> Line]
  BY <1>9, <1>12
<1> QED BY <1>1, <1>10, <1>11, <1>13

LEMMA PutAllFacts ==
  ASSUME NEW buf \in Line, NEW ps, Len(ps) \in Nat, ArePieces(ps, Len(ps))
  PROVE  PutAll(buf, ps) \in Line
BY PutAllIs

-----------------------------------------------------------------------------
(* The text of a second is that of its own second, and what a line was to  *)
(* have are pieces.                                                        *)
PieceSequence(ps) == /\ Len(ps) \in Nat /\ ps = [i \in 1 .. Len(ps) |-> ps[i]]
                     /\ ArePieces(ps, Len(ps))

LineInv == /\ TypeOK
           /\ stream_ \in Line /\ output.line \in Line
           /\ PieceSequence(said)
           /\ t_lastsecond # 0 => t_time = <<Time + t_lastsecond>>

LEMMA StrIsPiece ==
  ASSUME NEW s \in Seq(Nat)
  PROVE  IsPiece(Str(s)) /\ ~IsInt(Str(s)) /\ Str(s).text = s
<1>1. DOMAIN Str(s) = {"text"} /\ Str(s).text = s
  BY DEF Str
<1>2. ~IsInt(Str(s))
  BY <1>1 DEF IsInt
<1> QED BY <1>1, <1>2 DEF IsPiece

LEMMA NumIsPiece ==
  ASSUME NEW n \in Word
  PROVE  IsPiece(Num(n)) /\ IsInt(Num(n)) /\ Num(n).int = n
<1>1. DOMAIN Num(n) = {"int"} /\ Num(n).int = n
  BY DEF Num
<1>2. IsInt(Num(n))
  BY <1>1 DEF IsInt
<1> QED BY <1>1, <1>2 DEF IsPiece

LEMMA PiecesArePieces ==
  ASSUME NEW p \in Pieces
  PROVE  IsPiece(p)
<1>1. CASE p \in {Str(<<97>>), Str(<<98, 97, 98>>)}
  <2>1. <<97>> \in Seq(Nat) /\ <<98, 97, 98>> \in Seq(Nat)
    OBVIOUS
  <2> QED BY <1>1, <2>1, StrIsPiece
<1>2. CASE p \in {Num(n) : n \in {0 - MaxInt, 0, 7, MaxInt}}
  <2>1. PICK n \in {0 - MaxInt, 0, 7, MaxInt} : p = Num(n)
    BY <1>2
  <2>2. n \in Word
    BY <2>1, LogAssumption DEF Word
  <2> QED BY <2>1, <2>2, NumIsPiece
<1> QED BY <1>1, <1>2 DEF Pieces

LEMMA BeginningFacts ==
  ASSUME NEW t \in Seq(Nat), NEW v \in Levels
  PROVE  PieceSequence(Beginning(t, v)) /\ Len(Beginning(t, v)) = 4
<1>1. <<1>> \in Seq(Nat) /\ <<2>> \in Seq(Nat)
  OBVIOUS
<1>2. v \in Nat
  BY DEF Levels
<1>3. <<Level(v)>> \in Seq(Nat)
  BY <1>2 DEF Level
<1>4. /\ IsPiece(Str(t)) /\ IsPiece(Str(<<1>>)) /\ IsPiece(Str(<<2>>))
      /\ IsPiece(Str(<<Level(v)>>))
  BY <1>1, <1>3, StrIsPiece
<1>5. PICK a, b, c, d : /\ a = Str(t) /\ b = Str(<<1>>) /\ c = Str(<<2>>)
                        /\ d = Str(<<Level(v)>>)
  OBVIOUS
<1>6. Beginning(t, v) = <<a, b, c, d>>
  BY <1>5 DEF Beginning
<1>7. IsPiece(a) /\ IsPiece(b) /\ IsPiece(c) /\ IsPiece(d)
  BY <1>4, <1>5
<1>8. PICK ps : ps = <<a, b, c, d>>
  OBVIOUS
<1>9. Len(ps) = 4 /\ ps = [i \in 1 .. Len(ps) |-> ps[i]]
  BY <1>8
<1>10. ArePieces(ps, Len(ps))
  <2>1. ps[1] = a /\ ps[2] = b /\ ps[3] = c /\ ps[4] = d
    BY <1>8
  <2>2. \A i \in 1 .. 4 : i = 1 \/ i = 2 \/ i = 3 \/ i = 4
    OBVIOUS
  <2> QED BY <1>7, <1>9, <2>1, <2>2 DEF ArePieces
<1> QED BY <1>6, <1>8, <1>9, <1>10 DEF PieceSequence

LEMMA EndingFacts ==
  ASSUME line_ \in 0 .. MaxInt
  PROVE  PieceSequence(Ending) /\ Len(Ending) = 5
<1>1. <<3>> \in Seq(Nat) /\ <<4>> \in Seq(Nat) /\ <<5>> \in Seq(Nat) /\ <<6>> \in Seq(Nat)
  OBVIOUS
<1>2. line_ \in Word
  BY LogAssumption DEF Word
<1>3. PICK a, b, c, d, e : /\ a = Str(<<3>>) /\ b = Str(<<4>>) /\ c = Str(<<5>>)
                           /\ d = Num(line_) /\ e = Str(<<6>>)
  OBVIOUS
<1>4. IsPiece(a) /\ IsPiece(b) /\ IsPiece(c) /\ IsPiece(d) /\ IsPiece(e)
  BY <1>1, <1>2, <1>3, StrIsPiece, NumIsPiece
<1>5. Ending = <<a, b, c, d, e>>
  BY <1>3 DEF Ending
<1>6. PICK ps : ps = <<a, b, c, d, e>>
  OBVIOUS
<1>7. Len(ps) = 5 /\ ps = [i \in 1 .. Len(ps) |-> ps[i]]
  BY <1>6
<1>8. ArePieces(ps, Len(ps))
  <2>1. ps[1] = a /\ ps[2] = b /\ ps[3] = c /\ ps[4] = d /\ ps[5] = e
    BY <1>6
  <2>2. \A i \in 1 .. 5 : i = 1 \/ i = 2 \/ i = 3 \/ i = 4 \/ i = 5
    OBVIOUS
  <2> QED BY <1>4, <1>7, <2>1, <2>2 DEF ArePieces
<1> QED BY <1>5, <1>6, <1>7, <1>8 DEF PieceSequence

LEMMA LineInit == Init => LineInv
<1> SUFFICES ASSUME Init PROVE LineInv
  OBVIOUS
<1>1. PICK e : e = <<>>
  OBVIOUS
<1>2. e \in Seq(Nat) /\ Len(e) = 0 /\ e = [i \in 1 .. 0 |-> e[i]]
  BY <1>1
<1>3. e \in Line
  BY <1>2, LogAssumption DEF Line
<1>4. PieceSequence(e)
  BY <1>2 DEF PieceSequence, ArePieces
<1>5. said = e /\ stream_ = e /\ output.line = e
  BY <1>1 DEF Init, Nothing
<1>6. <<0>> \in Seq(Nat)
  OBVIOUS
<1>7. DOMAIN said = {}
  BY <1>2, <1>5
<1>8. MaxSecond \in Nat /\ MaxInt \in Nat
  BY LogAssumption
<1>9. TypeOK
  <2>1. /\ second \in 1 .. MaxSecond /\ t_lastsecond = 0 /\ t_time = <<0>>
        /\ g_logLevel = 1 /\ open = FALSE /\ level = 1 /\ line_ = 0 /\ aborted = FALSE
    BY DEF Init
  <2>2. /\ t_lastsecond \in 0 .. MaxSecond /\ t_time \in Seq(Nat)
        /\ g_logLevel \in Levels /\ open \in BOOLEAN /\ level \in Levels
        /\ line_ \in 0 .. MaxInt /\ aborted \in BOOLEAN
    <3>1. t_time \in Seq(Nat)
      BY <1>6, <2>1
    <3>2. t_lastsecond \in 0 .. MaxSecond /\ line_ \in 0 .. MaxInt
      BY <1>8, <2>1
    <3>3. g_logLevel \in Levels /\ level \in Levels
      BY <2>1 DEF Levels
    <3>4. open \in BOOLEAN /\ aborted \in BOOLEAN
      BY <2>1
    <3> QED BY <3>1, <3>2, <3>3, <3>4
  <2>3. /\ stream_ \in Seq(Nat) /\ Len(stream_) < Size
        /\ output.line \in Seq(Nat) /\ Len(output.line) < Size
    BY <1>3, <1>5 DEF Line
  <2> QED BY <1>7, <2>1, <2>2, <2>3 DEF TypeOK
<1> QED BY <1>3, <1>4, <1>5, <1>9 DEF LineInv, Init

LEMMA SaidAreTyped ==
  ASSUME NEW ps, PieceSequence(ps)
  PROVE  \A i \in DOMAIN ps : IsInt(ps[i]) \/ ps[i].text \in Seq(Nat)
<1>1. DOMAIN ps = 1 .. Len(ps)
  BY DEF PieceSequence
<1> QED BY <1>1 DEF PieceSequence, ArePieces, IsPiece

LEMMA AppendPiece ==
  ASSUME NEW ps, PieceSequence(ps), NEW p, IsPiece(p)
  PROVE  /\ PieceSequence(Append(ps, p)) /\ Len(Append(ps, p)) = Len(ps) + 1
         /\ \A i \in 1 .. Len(ps) : Append(ps, p)[i] = ps[i]
         /\ Append(ps, p)[Len(ps) + 1] = p
<1>1. PICK n \in Nat : n = Len(ps) /\ ps = [i \in 1 .. n |-> ps[i]]
  BY DEF PieceSequence
<1>2. PICK q : q = Append(ps, p)
  OBVIOUS
<1>3. PICK T : T = {ps[i] : i \in 1 .. n} \cup {p}
  OBVIOUS
<1>4. ps \in Seq(T) /\ p \in T
  BY <1>1, <1>3
<1>5. /\ q \in Seq(T) /\ Len(q) = n + 1
      /\ \A i \in 1 .. n : q[i] = ps[i]
      /\ q[n + 1] = p
  BY <1>1, <1>2, <1>4, AppendProperties
<1>6. q = [i \in 1 .. n + 1 |-> q[i]]
  BY <1>5, LenProperties
<1>7. ASSUME NEW i \in 1 .. n + 1 PROVE IsPiece(q[i])
  <2>1. CASE i = n + 1
    BY <1>5, <2>1
  <2>2. CASE i # n + 1
    <3>1. i \in 1 .. n
      BY <1>1, <2>2
    <3>2. IsPiece(ps[i])
      BY <1>1, <3>1 DEF PieceSequence, ArePieces
    <3>3. q[i] = ps[i]
      BY <1>5, <3>1
    <3> QED BY <3>2, <3>3
  <2> QED BY <2>1, <2>2
<1>8. PieceSequence(q)
  BY <1>5, <1>6, <1>7 DEF PieceSequence, ArePieces
<1> QED BY <1>1, <1>2, <1>5, <1>8

LEMMA LineNext == LineInv /\ [Next]_vars => LineInv'
<1> SUFFICES ASSUME LineInv, [Next]_vars PROVE LineInv'
  OBVIOUS
<1>1. TypeOK
  BY DEF LineInv
<1>2. PICK empty : empty = <<>>
  OBVIOUS
<1>3. empty \in Line /\ PieceSequence(empty)
  <2>1. empty \in Seq(Nat) /\ Len(empty) = 0 /\ empty = [i \in 1 .. 0 |-> empty[i]]
    BY <1>2
  <2> QED BY <2>1, LogAssumption DEF Line, PieceSequence, ArePieces
<1>4. CASE Tick
  <2>1. second' = second + 1 /\ second < MaxSecond
    BY <1>4 DEF Tick
  <2>2. second' \in 1 .. MaxSecond
    BY <1>1, <2>1, LogAssumption DEF TypeOK
  <2>3. UNCHANGED <<t_lastsecond, t_time, g_logLevel, open, level, line_,
                    stream_, said, output, aborted>>
    BY <1>4 DEF Tick
  <2>4. TypeOK'
    BY <1>1, <2>2, <2>3 DEF TypeOK
  <2> QED BY <2>3, <2>4 DEF LineInv
<1>5. ASSUME NEW v \in Levels, SetLogLevel(v) PROVE LineInv'
  BY <1>1, <1>5 DEF SetLogLevel, LineInv, TypeOK
<1>6. ASSUME NEW v \in Levels, NEW n \in {1, MaxInt}, Logger(v, n) PROVE LineInv'
  <2>1. second \in Nat /\ second # 0
    BY <1>1, LogAssumption DEF TypeOK
  <2>2. PICK t \in Seq(Nat) : t = <<Time + second>>
    <3>1. <<Time + second>> \in Seq(Nat)
      BY <2>1 DEF Time
    <3> QED BY <3>1
  <2>3. TimeNow = t
    BY <2>1, <2>2 DEF TimeNow, LineInv
  <2>4. PICK b : b = Beginning(t, v)
    OBVIOUS
  <2>5. PieceSequence(b) /\ Len(b) = 4
    BY <2>4, BeginningFacts
  <2>6. PutAll(empty, b) \in Line
    BY <1>3, <2>5, PutAllFacts DEF PieceSequence
  <2>7. stream_' = PutAll(empty, b) /\ said' = b
    BY <1>2, <1>6, <2>2, <2>3, <2>4 DEF Logger
  <2>8. PieceSequence(said') /\ stream_' \in Line
    BY <2>5, <2>6, <2>7
  <2>9. t_lastsecond' = second /\ t_time' = t /\ t_time' = <<Time + t_lastsecond'>>
    BY <1>6, <2>2, <2>3 DEF Logger
  <2>10. output' = Nothing /\ output'.line = empty
    BY <1>2, <1>6 DEF Logger, Nothing
  <2>11. \A i \in DOMAIN said' : IsInt(said'[i]) \/ said'[i].text \in Seq(Nat)
    BY <2>8, SaidAreTyped
  <2>12. /\ second' = second /\ g_logLevel' = g_logLevel /\ aborted' = aborted
         /\ open' = TRUE /\ level' = v /\ line_' = n
    BY <1>6 DEF Logger
  <2>13. n \in 0 .. MaxInt /\ second \in 0 .. MaxSecond
    BY <1>1, LogAssumption DEF TypeOK
  <2>14. TypeOK'
    BY <1>1, <1>3, <2>2, <2>8, <2>9, <2>10, <2>11, <2>12, <2>13 DEF TypeOK, Line
  <2> QED BY <1>3, <2>8, <2>9, <2>10, <2>14 DEF LineInv
<1>7. ASSUME NEW p \in Pieces, Write(p) PROVE LineInv'
  <2>1. IsPiece(p)
    BY PiecesArePieces
  <2>2. stream_' = Put(stream_, p) /\ said' = Append(said, p)
    BY <1>7 DEF Write
  <2>3. stream_' \in Line /\ PieceSequence(said')
    BY <2>1, <2>2, PutFacts, AppendPiece DEF LineInv
  <2>4. \A i \in DOMAIN said' : IsInt(said'[i]) \/ said'[i].text \in Seq(Nat)
    BY <2>3, SaidAreTyped
  <2>5. UNCHANGED <<second, t_lastsecond, t_time, g_logLevel, open, level, line_,
                    output, aborted>>
    BY <1>7 DEF Write
  <2>6. TypeOK'
    BY <1>1, <2>3, <2>4, <2>5 DEF TypeOK, Line
  <2> QED BY <2>3, <2>5, <2>6 DEF LineInv
<1>8. CASE FinishLogger
  <2>1. PICK e : e = Ending
    OBVIOUS
  <2>2. PieceSequence(e) /\ PutAll(stream_, e) \in Line
    <3>1. line_ \in 0 .. MaxInt /\ stream_ \in Line
      BY <1>1 DEF TypeOK, LineInv
    <3>2. PieceSequence(e)
      BY <2>1, <3>1, EndingFacts
    <3> QED BY <3>1, <3>2, PutAllFacts DEF PieceSequence
  <2>3. PICK l \in Line : l = PutAll(stream_, e)
    BY <2>2
  <2>4. output'.line = l /\ said' = empty /\ stream_' = empty
    BY <1>2, <1>8, <2>1, <2>3 DEF FinishLogger
  <2>5. PieceSequence(said') /\ stream_' \in Line
    BY <1>3, <2>4
  <2>6. \A i \in DOMAIN said' : IsInt(said'[i]) \/ said'[i].text \in Seq(Nat)
    BY <2>5, SaidAreTyped
  <2>7. /\ UNCHANGED <<second, t_lastsecond, t_time, g_logLevel, level, line_>>
        /\ open' = FALSE /\ aborted' \in BOOLEAN
    BY <1>8 DEF FinishLogger
  <2>8. TypeOK'
    BY <1>1, <2>4, <2>5, <2>6, <2>7 DEF TypeOK, Line
  <2> QED BY <2>4, <2>5, <2>7, <2>8 DEF LineInv
<1>9. CASE UNCHANGED vars
  BY <1>1, <1>9 DEF vars, LineInv, TypeOK
<1> QED BY <1>4, <1>5, <1>6, <1>7, <1>8, <1>9 DEF Next

(* No line reaches the end of its buffer: what formatInteger asks for      *)
(* (LogStream.h:103) is room for the digits of every integer.              *)
THEOREM TypeCorrect == Spec => []TypeOK
<1>1. LineInv => TypeOK
  BY DEF LineInv
<1> QED BY <1>1, LineInit, LineNext, PTL DEF Spec

-----------------------------------------------------------------------------
(* The digits of a number are those of its tenth, and one more.            *)
LEMMA DigitsOfSmall ==
  ASSUME NEW n \in 0 .. MaxInt, n < 10
  PROVE  Digits(n) = <<Zero + n>>
<1>1. n \in Word /\ n \in Nat
  BY LogAssumption DEF Word
<1>2. Quotient(n) = 0 /\ Remainder(n) = n
  <2>1. n \div 10 = 0 /\ n % 10 = n
    BY <1>1
  <2> QED BY <1>1, <2>1 DEF Quotient, Remainder
<1>3. RemainingDigits[n] = <<Zero + n>>
  BY <1>1, <1>2, RemainingDigitsIs DEF Turn
<1>4. PICK d \in Nat : d = Zero + n
  BY <1>1 DEF Zero
<1>5. PICK x : x = <<d>>
  OBVIOUS
<1>6. Reverse(x) = [i \in 1 .. 1 |-> x[(1 - i) + 1]]
  BY <1>5 DEF Reverse
<1>7. Reverse(x) = <<d>>
  BY <1>5, <1>6
<1> QED BY <1>3, <1>4, <1>5, <1>7 DEF Digits

LEMMA ReverseOfCons ==
  ASSUME NEW d \in Nat, NEW x \in Seq(Nat)
  PROVE  Reverse(<<d>> \o x) = Append(Reverse(x), d)
<1>1. PICK m \in Nat : m = Len(x)
  BY LenProperties
<1>2. PICK y : y = <<d>> \o x
  OBVIOUS
<1>3. <<d>> \in Seq(Nat) /\ Len(<<d>>) = 1 /\ <<d>>[1] = d
  OBVIOUS
<1>4. y \in Seq(Nat) /\ Len(y) = m + 1
  BY <1>1, <1>2, <1>3, ConcatProperties
<1>5. y[1] = d /\ \A i \in 1 .. m : y[i + 1] = x[i]
  <2>1. y[1] = d
    BY <1>2, <1>3, ConcatProperties
  <2>2. ASSUME NEW i \in 1 .. m PROVE y[i + 1] = x[i]
    <3>1. i + 1 \in 1 .. 1 + m /\ ~(i + 1 <= 1) /\ (i + 1) - 1 = i
      BY <1>1
    <3>2. y[i + 1] = x[(i + 1) - Len(<<d>>)]
      BY <1>1, <1>2, <1>3, <3>1, ConcatProperties
    <3> QED BY <1>3, <3>1, <3>2
  <2> QED BY <2>1, <2>2
<1>6. PICK r : r = Reverse(x)
  OBVIOUS
<1>7. r = [i \in 1 .. m |-> x[(m - i) + 1]]
  BY <1>1, <1>6 DEF Reverse
<1>8. \A i \in 1 .. m : x[(m - i) + 1] \in Nat
  <2>1. ASSUME NEW i \in 1 .. m PROVE x[(m - i) + 1] \in Nat
    <3>1. (m - i) + 1 \in 1 .. Len(x)
      BY <1>1
    <3> QED BY <3>1, ElementOfSeq
  <2> QED BY <2>1
<1>9. r \in Seq(Nat) /\ Len(r) = m
  BY <1>7, <1>8
<1>10. PICK z : z = Append(r, d)
  OBVIOUS
<1>11. z \in Seq(Nat) /\ Len(z) = m + 1
  BY <1>9, <1>10, AppendProperties
<1>12. z[m + 1] = d /\ \A i \in 1 .. m : z[i] = r[i]
  BY <1>9, <1>10, AppendProperties
<1>13. PICK w : w = [i \in 1 .. m + 1 |-> y[((m + 1) - i) + 1]]
  OBVIOUS
<1>14. Reverse(y) = w
  BY <1>4, <1>13 DEF Reverse
<1>15. ASSUME NEW i \in 1 .. m + 1 PROVE w[i] = z[i]
  <2>1. CASE i = m + 1
    <3>1. ((m + 1) - i) + 1 = 1
      BY <2>1
    <3> QED BY <1>5, <1>12, <1>13, <2>1, <3>1
  <2>2. CASE i # m + 1
    <3>1. i \in 1 .. m /\ (m - i) + 1 \in 1 .. m
          /\ ((m + 1) - i) + 1 = ((m - i) + 1) + 1
      BY <2>2
    <3>2. w[i] = y[((m - i) + 1) + 1]
      BY <1>13, <3>1
    <3>3. w[i] = x[(m - i) + 1]
      BY <1>5, <3>1, <3>2
    <3>4. z[i] = x[(m - i) + 1]
      BY <1>7, <1>12, <3>1
    <3> QED BY <3>3, <3>4
  <2> QED BY <2>1, <2>2
<1>16. z = [i \in 1 .. m + 1 |-> z[i]]
  BY <1>11
<1>17. w = z
  BY <1>13, <1>15, <1>16
<1> QED BY <1>2, <1>6, <1>10, <1>14, <1>17

LEMMA DigitsOfLarge ==
  ASSUME NEW n \in 0 .. MaxInt, n >= 10
  PROVE  /\ n \div 10 \in 0 .. MaxInt /\ n \div 10 >= 1 /\ n \div 10 < n
         /\ n % 10 \in 0 .. 9 /\ n = 10 * (n \div 10) + (n % 10)
         /\ Digits(n) = Append(Digits(n \div 10), Zero + (n % 10))
<1>1. n \in Word /\ n \in Nat /\ MaxInt \in Nat
  BY LogAssumption DEF Word
<1>2. PICK q \in Nat : q = n \div 10
  BY <1>1
<1>3. PICK r \in 0 .. 9 : r = n % 10
  BY <1>1
<1>4. n = 10 * q + r
  BY <1>1, <1>2, <1>3
<1>5. q \in 0 .. MaxInt /\ q >= 1 /\ q < n
  BY <1>1, <1>3, <1>4
<1>6. q \in Word
  BY <1>1, <1>5 DEF Word
<1>7. Quotient(n) = q /\ Remainder(n) = r
  BY <1>1, <1>2, <1>3 DEF Quotient, Remainder
<1>8. PICK d \in Nat : d = Zero + r
  BY DEF Zero
<1>9. q # 0
  BY <1>5
<1>10. RemainingDigits[n] = <<d>> \o RemainingDigits[q]
  BY <1>1, <1>7, <1>8, <1>9, RemainingDigitsIs DEF Turn
<1>11. RemainingDigits[q] \in Seq(Nat)
  BY <1>6, DigitsAreFew
<1>12. Digits(n) = Append(Digits(q), d)
  BY <1>10, <1>11, ReverseOfCons DEF Digits
<1> QED BY <1>2, <1>3, <1>4, <1>5, <1>8, <1>12

-----------------------------------------------------------------------------
(* The value of a numeral, digit by digit.                                 *)
Values(v, s, n) ==
  v[0] = 0 /\ \A i \in 1 .. n : v[i] = 10 * v[i - 1] + (s[i] - Zero)

LEMMA ValueIs ==
  ASSUME NEW s \in Seq(Nat)
  PROVE  \E v \in [0 .. Len(s) -> Int] :
           Values(v, s, Len(s)) /\ ValueOf(s) = v[Len(s)]
<1>1. PICK n \in Nat : n = Len(s)
  BY LenProperties
<1>2. PICK g : g = [i \in 1 .. n |-> [b \in Int |-> 10 * b + (s[i] - Zero)]]
  OBVIOUS
<1>3. ASSUME NEW i \in 1 .. n, NEW b \in Int
      PROVE  /\ g[i][b] = 10 * b + (s[i] - Zero)
             /\ 10 * b + (s[i] - Zero) \in Int
  <2>1. PICK c \in Nat : c = s[i]
    BY <1>1, ElementOfSeq
  <2>2. 10 * b + (c - Zero) \in Int
    BY DEF Zero
  <2>3. g[i][b] = 10 * b + (s[i] - Zero)
    BY <1>2
  <2> QED BY <2>1, <2>2, <2>3
<1>4. g \in [1 .. n -> [Int -> Int]] /\ 0 \in Int
  BY <1>2, <1>3
<1>5. PICK h \in [0 .. n -> Int] : Iterates(h, n, 0, g)
  BY <1>4, IterationExists
<1>6. ASSUME NEW i \in 0 .. n
      PROVE  h[i] = IF i = 0 THEN 0 ELSE 10 * h[i - 1] + (s[i] - Zero)
  <2>1. h[i] = IF i = 0 THEN 0 ELSE g[i][h[i - 1]]
    BY <1>5 DEF Iterates
  <2>2. CASE i # 0
    <3>1. i \in 1 .. n /\ i - 1 \in 0 .. n
      BY <2>2
    <3>2. h[i - 1] \in Int
      BY <3>1
    <3> QED BY <1>3, <2>1, <2>2, <3>1, <3>2
  <2> QED BY <2>1, <2>2
<1>7. h = [i \in 0 .. n |-> IF i = 0 THEN 0 ELSE 10 * h[i - 1] + (s[i] - Zero)]
  BY <1>6
<1>8. PICK f : f = CHOOSE e : e = [i \in 0 .. n |->
                              IF i = 0 THEN 0 ELSE 10 * e[i - 1] + (s[i] - Zero)]
  OBVIOUS
<1>9. f = [i \in 0 .. n |-> IF i = 0 THEN 0 ELSE 10 * f[i - 1] + (s[i] - Zero)]
  BY <1>7, <1>8
<1>10. ValueOf(s) = f[n]
  BY <1>1, <1>8 DEF ValueOf
<1>11. Values(f, s, n)
  BY <1>9 DEF Values
<1> DEFINE Bad == {i \in 0 .. n : f[i] \notin Int}
<1>12. ASSUME Bad # {} PROVE FALSE
  <2>1. Bad \in SUBSET Nat
    OBVIOUS
  <2>2. PICK j \in Bad : \A i \in Bad : j <= i
    BY <1>12, <2>1, LeastNumber
  <2>3. j \in 0 .. n /\ f[j] \notin Int /\ j # 0
    BY <1>9
  <2>4. j - 1 \in 0 .. n /\ ~(j <= j - 1) /\ j \in 1 .. n
    BY <2>3
  <2>5. f[j - 1] \in Int
    BY <2>2, <2>4
  <2>6. f[j] = 10 * f[j - 1] + (s[j] - Zero)
    BY <1>11, <2>4 DEF Values
  <2>7. PICK c \in Nat : c = s[j]
    BY <1>1, <2>4, ElementOfSeq
  <2>8. PICK b \in Int : b = f[j - 1]
    BY <2>5
  <2>9. 10 * b + (c - Zero) \in Int
    BY DEF Zero
  <2> QED BY <2>3, <2>6, <2>7, <2>8, <2>9
<1>13. f \in [0 .. n -> Int]
  BY <1>9, <1>12
<1> QED BY <1>1, <1>10, <1>11, <1>13

LEMMA ValuesAgree ==
  ASSUME NEW n \in Nat, NEW v, NEW w, NEW s, NEW t,
         Values(v, s, n), Values(w, t, n), \A i \in 1 .. n : s[i] = t[i]
  PROVE  v[n] = w[n]
<1> DEFINE Bad == {i \in 0 .. n : v[i] # w[i]}
<1>1. ASSUME Bad # {} PROVE FALSE
  <2>1. Bad \in SUBSET Nat
    OBVIOUS
  <2>2. PICK j \in Bad : \A i \in Bad : j <= i
    BY <1>1, <2>1, LeastNumber
  <2>3. j \in 0 .. n /\ v[j] # w[j]
    OBVIOUS
  <2>4. j # 0
    BY <2>3 DEF Values
  <2>5. j \in 1 .. n /\ j - 1 \in 0 .. n /\ ~(j <= j - 1)
    BY <2>3, <2>4
  <2>6. v[j - 1] = w[j - 1]
    BY <2>2, <2>5
  <2> QED BY <2>3, <2>5, <2>6 DEF Values
<1>2. n \in 0 .. n
  OBVIOUS
<1> QED BY <1>1, <1>2

LEMMA ValueOfAppend ==
  ASSUME NEW s \in Seq(Nat), NEW c \in Nat
  PROVE  ValueOf(s) \in Int /\ ValueOf(Append(s, c)) = 10 * ValueOf(s) + (c - Zero)
<1>1. PICK n \in Nat : n = Len(s)
  BY LenProperties
<1>2. PICK t \in Seq(Nat) : /\ t = Append(s, c) /\ Len(t) = n + 1
                            /\ \A i \in 1 .. n : t[i] = s[i]
                            /\ t[n + 1] = c
  BY <1>1, AppendProperties
<1>3. PICK v \in [0 .. n -> Int] : Values(v, s, n) /\ ValueOf(s) = v[n]
  BY <1>1, ValueIs
<1>4. PICK w \in [0 .. n + 1 -> Int] : Values(w, t, n + 1) /\ ValueOf(t) = w[n + 1]
  BY <1>2, ValueIs
<1>5. Values(w, t, n)
  BY <1>4 DEF Values
<1>6. v[n] = w[n]
  BY <1>2, <1>3, <1>5, ValuesAgree
<1>7. w[n + 1] = 10 * w[n] + (c - Zero)
  <2>1. n + 1 \in 1 .. n + 1 /\ (n + 1) - 1 = n
    OBVIOUS
  <2> QED BY <1>2, <1>4, <2>1 DEF Values
<1> QED BY <1>2, <1>3, <1>4, <1>6, <1>7

LEMMA ValueOfOne ==
  ASSUME NEW s \in Seq(Nat), Len(s) = 1
  PROVE  ValueOf(s) = s[1] - Zero
<1>1. PICK v \in [0 .. 1 -> Int] : Values(v, s, 1) /\ ValueOf(s) = v[1]
  BY ValueIs
<1>2. v[0] = 0 /\ v[1] = 10 * v[0] + (s[1] - Zero)
  BY <1>1 DEF Values
<1>3. s[1] \in Nat
  BY ElementOfSeq
<1> QED BY <1>1, <1>2, <1>3 DEF Zero

-----------------------------------------------------------------------------
(* A number has one numeral without a leading zero, its digits.            *)
IsNumeral(s, n) ==
  /\ s \in Seq(Nat) /\ Len(s) \in Nat /\ Len(s) >= 1
  /\ \A i \in 1 .. Len(s) : s[i] \in Zero .. (Zero + 9)
  /\ ValueOf(s) = n
  /\ Len(s) = 1 \/ s[1] # Zero

LEMMA NumeralOfSmall ==
  ASSUME NEW n \in 0 .. MaxInt, n < 10
  PROVE  IsNumeral(Digits(n), n)
<1>1. n \in Nat /\ n \in 0 .. 9
  BY LogAssumption
<1>2. PICK d \in Nat : d = Zero + n /\ d \in Zero .. (Zero + 9)
  BY <1>1 DEF Zero
<1>3. PICK s \in Seq(Nat) : s = <<d>> /\ Len(s) = 1 /\ s[1] = d
  <2>1. <<d>> \in Seq(Nat) /\ Len(<<d>>) = 1 /\ <<d>>[1] = d
    OBVIOUS
  <2> QED BY <2>1
<1>4. Digits(n) = s
  BY <1>2, <1>3, DigitsOfSmall
<1>5. ValueOf(s) = d - Zero
  BY <1>3, ValueOfOne
<1>6. d - Zero = n
  BY <1>1, <1>2 DEF Zero
<1>7. \A i \in 1 .. 1 : i = 1
  OBVIOUS
<1> QED BY <1>2, <1>3, <1>4, <1>5, <1>6, <1>7 DEF IsNumeral

LEMMA NumeralOfLarge ==
  ASSUME NEW n \in 0 .. MaxInt, n >= 10, IsNumeral(Digits(n \div 10), n \div 10)
  PROVE  IsNumeral(Digits(n), n)
<1>1. PICK q : q = n \div 10
  OBVIOUS
<1>2. PICK r : r = n % 10
  OBVIOUS
<1>3. /\ q \in Nat /\ q >= 1 /\ r \in 0 .. 9 /\ n = 10 * q + r /\ n \in Nat
      /\ Digits(n) = Append(Digits(q), Zero + r)
  <2>1. MaxInt \in Nat /\ n \in Nat
    BY LogAssumption
  <2>2. /\ q \in 0 .. MaxInt /\ q >= 1 /\ r \in 0 .. 9 /\ n = 10 * q + r
        /\ Digits(n) = Append(Digits(q), Zero + r)
    BY <1>1, <1>2, DigitsOfLarge
  <2> QED BY <2>1, <2>2
<1>4. PICK s \in Seq(Nat) : s = Digits(q) /\ IsNumeral(s, q)
  BY <1>1 DEF IsNumeral
<1>5. PICK k \in Nat : k = Len(s) /\ k >= 1
  BY <1>4 DEF IsNumeral
<1>6. PICK d \in Nat : d = Zero + r /\ d \in Zero .. (Zero + 9) /\ d - Zero = r
  BY <1>3 DEF Zero
<1>7. PICK t \in Seq(Nat) : /\ t = Append(s, d) /\ Len(t) = k + 1
                            /\ \A i \in 1 .. k : t[i] = s[i]
                            /\ t[k + 1] = d
  BY <1>5, AppendProperties
<1>8. Digits(n) = t
  BY <1>3, <1>4, <1>6, <1>7
<1>9. ValueOf(t) = n
  <2>1. ValueOf(t) = 10 * ValueOf(s) + (d - Zero)
    BY <1>7, ValueOfAppend
  <2> QED BY <1>3, <1>4, <1>6, <2>1 DEF IsNumeral
<1>10. ASSUME NEW i \in 1 .. k + 1 PROVE t[i] \in Zero .. (Zero + 9)
  <2>1. CASE i = k + 1
    BY <1>6, <1>7, <2>1
  <2>2. CASE i # k + 1
    <3>1. i \in 1 .. k
      BY <2>2
    <3> QED BY <1>4, <1>5, <1>7, <3>1 DEF IsNumeral
  <2> QED BY <2>1, <2>2
<1>11. t[1] # Zero
  <2>1. 1 \in 1 .. k
    BY <1>5
  <2>2. t[1] = s[1]
    BY <1>7, <2>1
  <2>3. CASE k = 1
    <3>1. ValueOf(s) = s[1] - Zero
      BY <1>5, <2>3, ValueOfOne
    <3>2. q = s[1] - Zero
      BY <1>4, <3>1 DEF IsNumeral
    <3> QED BY <1>3, <2>2, <3>2 DEF Zero
  <2>4. CASE k # 1
    BY <1>4, <1>5, <2>2, <2>4 DEF IsNumeral
  <2> QED BY <2>3, <2>4
<1>12. k + 1 \in Nat /\ k + 1 >= 1
  BY <1>5
<1> QED BY <1>7, <1>8, <1>9, <1>10, <1>11, <1>12 DEF IsNumeral

LEMMA DigitsAreNumeral ==
  ASSUME NEW n \in 0 .. MaxInt
  PROVE  IsNumeral(Digits(n), n)
<1> DEFINE Bad == {i \in 0 .. MaxInt : ~IsNumeral(Digits(i), i)}
<1>1. ASSUME Bad # {} PROVE FALSE
  <2>1. Bad \in SUBSET Nat
    OBVIOUS
  <2>2. PICK j \in Bad : \A i \in Bad : j <= i
    BY <1>1, <2>1, LeastNumber
  <2>3. j \in 0 .. MaxInt /\ j \in Nat /\ ~IsNumeral(Digits(j), j)
    BY LogAssumption
  <2>4. j >= 10
    BY <2>3, NumeralOfSmall
  <2>5. PICK q : q = j \div 10
    OBVIOUS
  <2>6. q \in 0 .. MaxInt /\ q < j /\ q \in Nat
    BY <2>3, <2>4, <2>5, DigitsOfLarge, LogAssumption
  <2>7. ~(j <= q)
    BY <2>3, <2>6
  <2>8. IsNumeral(Digits(q), q)
    BY <2>2, <2>6, <2>7
  <2> QED BY <2>3, <2>4, <2>5, <2>8, NumeralOfLarge
<1> QED BY <1>1

LEMMA NumeralIsDigits ==
  ASSUME NEW n \in 0 .. MaxInt, NEW s, IsNumeral(s, n)
  PROVE  s = Digits(n)
<1>1. PICK k \in Nat : k = Len(s) /\ k >= 1
  BY DEF IsNumeral
<1>2. s \in Seq(Nat) /\ \A i \in 1 .. k : s[i] \in Zero .. (Zero + 9)
  BY <1>1 DEF IsNumeral
<1>3. PICK v \in [0 .. k -> Int] : Values(v, s, k) /\ v[k] = n
  BY <1>1, <1>2, ValueIs DEF IsNumeral
<1>4. MaxInt \in Nat
  BY LogAssumption
<1> DEFINE Prefix(i) == [j \in 1 .. i |-> s[j]]
           Good(i) == /\ v[i] \in Nat /\ (i = 1 \/ v[i] >= 10) /\ (k # 1 => v[i] >= 1)
                      /\ v[i] <= MaxInt => Digits(v[i]) = Prefix(i)
           Bad == {i \in 1 .. k : ~Good(i)}
<1>5. ASSUME NEW i \in 1 .. k
      PROVE  \E c \in 0 .. 9 : s[i] = Zero + c /\ v[i] = 10 * v[i - 1] + c
  <2>1. PICK d \in Nat : d = s[i] /\ d \in Zero .. (Zero + 9)
    BY <1>2 DEF Zero
  <2>2. PICK c \in 0 .. 9 : d = Zero + c /\ d - Zero = c
    <3>1. d - Zero \in 0 .. 9 /\ d = Zero + (d - Zero)
      BY <2>1 DEF Zero
    <3> QED BY <3>1
  <2>3. v[i] = 10 * v[i - 1] + (s[i] - Zero)
    BY <1>3 DEF Values
  <2> QED BY <2>1, <2>2, <2>3
<1>6. Good(1)
  <2>1. 1 \in 1 .. k
    BY <1>1
  <2>2. PICK c \in 0 .. 9 : s[1] = Zero + c /\ v[1] = 10 * v[1 - 1] + c
    BY <1>5, <2>1
  <2>3. v[1] = c
    BY <1>3, <2>2 DEF Values
  <2>4. k # 1 => c # 0
    <3>1. k # 1 => s[1] # Zero
      BY <1>1 DEF IsNumeral
    <3> QED BY <2>2, <3>1 DEF Zero
  <2>5. ASSUME c <= MaxInt PROVE Digits(c) = Prefix(1)
    <3>1. c \in 0 .. MaxInt /\ c < 10
      BY <1>4, <2>5
    <3>2. Digits(c) = <<Zero + c>>
      BY <3>1, DigitsOfSmall
    <3>3. Prefix(1) = <<s[1]>>
      OBVIOUS
    <3> QED BY <2>2, <3>2, <3>3
  <2> QED BY <2>3, <2>4, <2>5
<1>7. ASSUME NEW i \in Nat, i >= 1, i + 1 \in 1 .. k, Good(i) PROVE Good(i + 1)
  <2>1. PICK c \in 0 .. 9 : s[i + 1] = Zero + c /\ v[i + 1] = 10 * v[(i + 1) - 1] + c
    BY <1>5, <1>7
  <2>2. (i + 1) - 1 = i /\ k # 1
    BY <1>7
  <2>3. PICK a \in Nat : a = v[i] /\ a >= 1
    BY <1>7, <2>2
  <2>4. PICK b \in Nat : b = 10 * a + c
    OBVIOUS
  <2>5. v[i + 1] = b
    BY <2>1, <2>2, <2>3, <2>4
  <2>6. b >= 10 /\ b >= 1 /\ a <= b /\ b \div 10 = a /\ b % 10 = c
    <3>1. c \in Nat /\ c < 10
      OBVIOUS
    <3>2. b >= 10 /\ b >= 1 /\ a <= b
      BY <2>3, <2>4, <3>1
    <3>3. b \div 10 = a
      BY <2>4, <3>1
    <3>4. b % 10 = c
      BY <2>4, <3>1
    <3> QED BY <3>2, <3>3, <3>4
  <2>7. ASSUME b <= MaxInt PROVE Digits(b) = Prefix(i + 1)
    <3>1. b \in 0 .. MaxInt /\ a <= MaxInt
      BY <1>4, <2>6, <2>7
    <3>2. Digits(b) = Append(Digits(a), Zero + c)
      BY <2>6, <3>1, DigitsOfLarge
    <3>3. PICK x : x = Prefix(i)
      OBVIOUS
    <3>4. Digits(a) = x
      BY <1>7, <2>3, <3>1, <3>3
    <3>5. x \in Seq(Nat) /\ Len(x) = i
      <4>1. \A j \in 1 .. i : s[j] \in Nat
        <5>1. \A j \in 1 .. i : j \in 1 .. k
          BY <1>7
        <5>2. \A j \in 1 .. k : s[j] \in Nat
          <6>1. Zero .. (Zero + 9) \subseteq Nat
            BY DEF Zero
          <6> QED BY <1>2, <6>1
        <5> QED BY <5>1, <5>2
      <4> QED BY <3>3, <4>1
    <3>6. PICK d \in Nat : d = Zero + c
      BY DEF Zero
    <3>7. PICK y \in Seq(Nat) : /\ y = Append(x, d) /\ Len(y) = i + 1
                                /\ \A j \in 1 .. i : y[j] = x[j]
                                /\ y[i + 1] = d
      BY <3>5, AppendProperties
    <3>8. PICK z : z = Prefix(i + 1)
      OBVIOUS
    <3>9. ASSUME NEW j \in 1 .. i + 1 PROVE y[j] = z[j]
      <4>1. z[j] = s[j]
        BY <3>8
      <4>2. CASE j = i + 1
        BY <2>1, <3>6, <3>7, <4>1, <4>2
      <4>3. CASE j # i + 1
        <5>1. j \in 1 .. i
          BY <4>3
        <5> QED BY <3>3, <3>7, <4>1, <5>1
      <4> QED BY <4>2, <4>3
    <3>10. y = [j \in 1 .. i + 1 |-> y[j]] /\ z = [j \in 1 .. i + 1 |-> z[j]]
      <4>1. y = [j \in 1 .. i + 1 |-> y[j]]
        <5>1. y \in [1 .. Len(y) -> Nat] /\ Len(y) = i + 1
          BY <3>7, LenProperties
        <5> QED BY <5>1
      <4>2. z = [j \in 1 .. i + 1 |-> z[j]]
        BY <3>8
      <4> QED BY <4>1, <4>2
    <3>11. y = z
      BY <3>9, <3>10
    <3> QED BY <3>2, <3>4, <3>6, <3>7, <3>8, <3>11
  <2> QED BY <2>5, <2>6, <2>7
<1>8. ASSUME Bad # {} PROVE FALSE
  <2>1. Bad \in SUBSET Nat
    OBVIOUS
  <2>2. PICK m \in Bad : \A i \in Bad : m <= i
    BY <1>8, <2>1, LeastNumber
  <2>3. m \in 1 .. k /\ ~Good(m) /\ m # 1
    BY <1>6
  <2>4. PICK i \in Nat : m = i + 1 /\ i >= 1 /\ i \in 1 .. k /\ ~(m <= i)
    <3>1. m - 1 \in Nat /\ m = (m - 1) + 1 /\ m - 1 >= 1 /\ m - 1 \in 1 .. k
          /\ ~(m <= m - 1)
      BY <2>3
    <3> QED BY <3>1
  <2>5. Good(i)
    BY <2>2, <2>4
  <2> QED BY <1>7, <2>3, <2>4, <2>5
<1>9. Good(k)
  <2>1. k \in 1 .. k
    BY <1>1
  <2> QED BY <1>8, <2>1
<1>10. Digits(n) = Prefix(k)
  BY <1>3, <1>4, <1>9
<1>11. s = Prefix(k)
  BY <1>1, <1>2
<1> QED BY <1>10, <1>11

LEMMA NumeralFacts ==
  ASSUME NEW n \in 0 .. MaxInt
  PROVE  Numeral[n] = Digits(n)
<1>1. PICK d \in Seq(Nat) : d = Digits(n) /\ Len(d) \in 1 .. NumSize - 1
  BY DigitsFacts, LogAssumption DEF Word
<1>2. IsNumeral(d, n)
  BY <1>1, DigitsAreNumeral
<1>3. d \in Numerals /\ ValueOf(d) = n /\ (Len(d) = 1 \/ d[1] # Zero)
  <2>1. PICK k \in 1 .. NumSize - 1 : k = Len(d)
    BY <1>1
  <2>2. d = [i \in 1 .. k |-> d[i]]
    BY <1>1, <2>1
  <2>3. \A i \in 1 .. k : d[i] \in Zero .. (Zero + 9)
    BY <1>2, <2>1 DEF IsNumeral
  <2>4. d \in [1 .. k -> Zero .. (Zero + 9)]
    BY <2>2, <2>3
  <2> QED BY <1>2, <2>4 DEF IsNumeral, Numerals
<1>4. PICK s : s = CHOOSE t \in Numerals : ValueOf(t) = n /\ (Len(t) = 1 \/ t[1] # Zero)
  OBVIOUS
<1>5. s \in Numerals /\ ValueOf(s) = n /\ (Len(s) = 1 \/ s[1] # Zero)
  BY <1>3, <1>4
<1>6. IsNumeral(s, n)
  <2>1. NumSize \in Nat
    BY LogAssumption
  <2>2. PICK k \in 1 .. NumSize - 1 : s \in [1 .. k -> Zero .. (Zero + 9)]
    BY <1>5 DEF Numerals
  <2>3. \A i \in 1 .. k : s[i] \in Nat /\ s[i] \in Zero .. (Zero + 9)
    BY <2>2 DEF Zero
  <2>4. k \in Nat /\ k >= 1
    BY <2>1
  <2>5. s \in Seq(Nat) /\ Len(s) = k
    BY <2>2, <2>3, <2>4
  <2> QED BY <1>5, <2>3, <2>4, <2>5 DEF IsNumeral
<1>7. s = Digits(n)
  BY <1>6, NumeralIsDigits
<1>8. Numeral[n] = s
  BY <1>4 DEF Numeral
<1> QED BY <1>7, <1>8

-----------------------------------------------------------------------------
(* The text of pieces, piece by piece.                                     *)
Texts(f, ps, n) == f[0] = <<>> /\ \A i \in 1 .. n : f[i] = f[i - 1] \o Shown(ps[i])

LEMMA ShownIsTyped ==
  ASSUME NEW p, IsPiece(p), IsInt(p) => p.int >= 0
  PROVE  Shown(p) \in Seq(Nat)
<1>1. CASE IsInt(p)
  <2>1. p.int \in Word /\ Shown(p) = Digits(p.int)
    <3>1. p.int \in Word /\ p.int \in 0 .. MaxInt
      BY <1>1, LogAssumption DEF IsPiece, Word
    <3> QED BY <1>1, <3>1, NumeralFacts DEF Shown
  <2> QED BY <2>1, DigitsFacts
<1>2. CASE ~IsInt(p)
  BY <1>2 DEF Shown, IsPiece
<1> QED BY <1>1, <1>2

LEMMA TextIs ==
  ASSUME NEW ps, PieceSequence(ps), NoneNegative(ps)
  PROVE  \E f \in [0 .. Len(ps) -> Seq(Nat)] :
           Texts(f, ps, Len(ps)) /\ Text(ps) = f[Len(ps)]
<1>1. PICK n \in Nat : n = Len(ps) /\ DOMAIN ps = 1 .. n
  BY DEF PieceSequence
<1>2. PICK S : S = Seq(Nat)
  OBVIOUS
<1>3. ASSUME NEW i \in 1 .. n PROVE Shown(ps[i]) \in Seq(Nat)
  <2>1. IsPiece(ps[i]) /\ (IsInt(ps[i]) => ps[i].int >= 0)
    BY <1>1 DEF PieceSequence, ArePieces, NoneNegative
  <2> QED BY <2>1, ShownIsTyped
<1>4. PICK g : g = [i \in 1 .. n |-> [b \in S |-> b \o Shown(ps[i])]]
  OBVIOUS
<1>5. ASSUME NEW i \in 1 .. n, NEW b \in S
      PROVE  g[i][b] = b \o Shown(ps[i]) /\ b \o Shown(ps[i]) \in S
  <2>1. b \o Shown(ps[i]) \in S
    BY <1>2, <1>3, ConcatProperties
  <2> QED BY <1>4, <2>1
<1>6. g \in [1 .. n -> [S -> S]]
  BY <1>4, <1>5
<1>7. PICK e : e = <<>>
  OBVIOUS
<1>8. e \in S
  BY <1>2, <1>7
<1>9. PICK h \in [0 .. n -> S] : Iterates(h, n, e, g)
  BY <1>6, <1>8, IterationExists
<1>10. ASSUME NEW i \in 0 .. n
       PROVE  h[i] = IF i = 0 THEN e ELSE h[i - 1] \o Shown(ps[i])
  <2>1. h[i] = IF i = 0 THEN e ELSE g[i][h[i - 1]]
    BY <1>9 DEF Iterates
  <2>2. CASE i # 0
    <3>1. i \in 1 .. n /\ i - 1 \in 0 .. n
      BY <2>2
    <3>2. h[i - 1] \in S
      BY <3>1
    <3> QED BY <1>5, <2>1, <2>2, <3>1, <3>2
  <2> QED BY <2>1, <2>2
<1>11. h = [i \in 0 .. n |-> IF i = 0 THEN e ELSE h[i - 1] \o Shown(ps[i])]
  BY <1>10
<1>12. PICK f : f = CHOOSE k : k = [i \in 0 .. n |->
                               IF i = 0 THEN e ELSE k[i - 1] \o Shown(ps[i])]
  OBVIOUS
<1>13. f = [i \in 0 .. n |-> IF i = 0 THEN e ELSE f[i - 1] \o Shown(ps[i])]
  BY <1>11, <1>12
<1>14. Text(ps) = f[n]
  BY <1>1, <1>7, <1>12 DEF Text
<1>15. Texts(f, ps, n)
  <2>1. f[0] = <<>>
    BY <1>7, <1>13
  <2>2. ASSUME NEW i \in 1 .. n PROVE f[i] = f[i - 1] \o Shown(ps[i])
    <3>1. i \in 0 .. n /\ i # 0
      OBVIOUS
    <3> QED BY <1>13, <3>1
  <2> QED BY <2>1, <2>2 DEF Texts
<1> DEFINE Bad == {i \in 0 .. n : f[i] \notin S}
<1>16. ASSUME Bad # {} PROVE FALSE
  <2>1. Bad \in SUBSET Nat
    OBVIOUS
  <2>2. PICK j \in Bad : \A i \in Bad : j <= i
    BY <1>16, <2>1, LeastNumber
  <2>3. j \in 0 .. n /\ f[j] \notin S /\ j # 0
    BY <1>8, <1>13
  <2>4. j - 1 \in 0 .. n /\ ~(j <= j - 1) /\ j \in 1 .. n
    BY <2>3
  <2>5. f[j - 1] \in S
    BY <2>2, <2>4
  <2>6. f[j] = f[j - 1] \o Shown(ps[j])
    BY <1>15, <2>4 DEF Texts
  <2>7. f[j - 1] \o Shown(ps[j]) \in S
    BY <1>5, <2>4, <2>5
  <2> QED BY <2>3, <2>6, <2>7
<1>17. f \in [0 .. n -> S]
  BY <1>13, <1>16
<1> QED BY <1>1, <1>2, <1>14, <1>15, <1>17

LEMMA TextsAgree ==
  ASSUME NEW n \in Nat, NEW f, NEW h, NEW ps, NEW qs,
         Texts(f, ps, n), Texts(h, qs, n), \A i \in 1 .. n : ps[i] = qs[i]
  PROVE  f[n] = h[n]
<1> DEFINE Bad == {i \in 0 .. n : f[i] # h[i]}
<1>1. ASSUME Bad # {} PROVE FALSE
  <2>1. Bad \in SUBSET Nat
    OBVIOUS
  <2>2. PICK j \in Bad : \A i \in Bad : j <= i
    BY <1>1, <2>1, LeastNumber
  <2>3. j \in 0 .. n /\ f[j] # h[j]
    OBVIOUS
  <2>4. j # 0
    BY <2>3 DEF Texts
  <2>5. j \in 1 .. n /\ j - 1 \in 0 .. n /\ ~(j <= j - 1)
    BY <2>3, <2>4
  <2>6. f[j - 1] = h[j - 1]
    BY <2>2, <2>5
  <2>7. f[j] = f[j - 1] \o Shown(ps[j]) /\ h[j] = h[j - 1] \o Shown(qs[j])
    BY <2>5 DEF Texts
  <2> QED BY <2>3, <2>5, <2>6, <2>7
<1>2. n \in 0 .. n
  OBVIOUS
<1> QED BY <1>1, <1>2

LEMMA TextOfAppend ==
  ASSUME NEW ps, PieceSequence(ps), NEW p, IsPiece(p), NoneNegative(Append(ps, p))
  PROVE  /\ NoneNegative(ps) /\ (IsInt(p) => p.int >= 0)
         /\ Text(ps) \in Seq(Nat)
         /\ Text(Append(ps, p)) = Text(ps) \o Shown(p)
<1>1. PICK n \in Nat : n = Len(ps) /\ DOMAIN ps = 1 .. n
  BY DEF PieceSequence
<1>2. PICK q : q = Append(ps, p)
  OBVIOUS
<1>3. /\ PieceSequence(q) /\ Len(q) = n + 1
      /\ \A i \in 1 .. n : q[i] = ps[i]
      /\ q[n + 1] = p
  BY <1>1, <1>2, AppendPiece
<1>4. DOMAIN q = 1 .. n + 1
  BY <1>3 DEF PieceSequence
<1>5. NoneNegative(q)
  BY <1>2
<1>6. ASSUME NEW i \in 1 .. n PROVE IsInt(ps[i]) => ps[i].int >= 0
  <2>1. i \in 1 .. n + 1
    OBVIOUS
  <2>2. IsInt(q[i]) => q[i].int >= 0
    BY <1>4, <1>5, <2>1 DEF NoneNegative
  <2>3. q[i] = ps[i]
    BY <1>3
  <2> QED BY <2>2, <2>3
<1>7. NoneNegative(ps)
  BY <1>1, <1>6 DEF NoneNegative
<1>8. IsInt(p) => p.int >= 0
  <2>1. n + 1 \in 1 .. n + 1
    OBVIOUS
  <2>2. IsInt(q[n + 1]) => q[n + 1].int >= 0
    BY <1>4, <1>5, <2>1 DEF NoneNegative
  <2> QED BY <1>3, <2>2
<1>9. PICK f \in [0 .. n -> Seq(Nat)] : Texts(f, ps, n) /\ Text(ps) = f[n]
  BY <1>1, <1>7, TextIs
<1>10. PICK h \in [0 .. n + 1 -> Seq(Nat)] : Texts(h, q, n + 1) /\ Text(q) = h[n + 1]
  BY <1>3, <1>5, TextIs
<1>11. Texts(h, q, n)
  <2>1. h[0] = <<>>
    BY <1>10 DEF Texts
  <2>2. ASSUME NEW i \in 1 .. n PROVE h[i] = h[i - 1] \o Shown(q[i])
    <3>1. i \in 1 .. n + 1
      OBVIOUS
    <3> QED BY <1>10, <3>1 DEF Texts
  <2> QED BY <2>1, <2>2 DEF Texts
<1>12. f[n] = h[n]
  BY <1>3, <1>9, <1>11, TextsAgree
<1>13. h[n + 1] = h[n] \o Shown(p)
  <2>1. n + 1 \in 1 .. n + 1 /\ (n + 1) - 1 = n
    OBVIOUS
  <2>2. h[n + 1] = h[(n + 1) - 1] \o Shown(q[n + 1])
    BY <1>10, <2>1 DEF Texts
  <2> QED BY <1>3, <2>1, <2>2
<1>14. n \in 0 .. n
  OBVIOUS
<1> QED BY <1>2, <1>7, <1>8, <1>9, <1>10, <1>12, <1>13, <1>14

-----------------------------------------------------------------------------
(* A buffer holds the text of its pieces while that leaves room for a      *)
(* number: one more piece that leaves it, too, was put there whole.        *)
Fits(buf, ps) ==
  NoneNegative(ps) /\ Len(Text(ps)) + NumSize <= Size => buf = Text(ps)

LEMMA FitsEmpty ==
  ASSUME NEW e, e = <<>>
  PROVE  PieceSequence(e) /\ Fits(e, e)
<1>1. Len(e) = 0 /\ e = [i \in 1 .. 0 |-> e[i]] /\ DOMAIN e = {}
  OBVIOUS
<1>2. PieceSequence(e)
  BY <1>1 DEF PieceSequence, ArePieces
<1>3. NoneNegative(e)
  BY <1>1 DEF NoneNegative
<1>4. PICK f \in [0 .. 0 -> Seq(Nat)] : Texts(f, e, 0) /\ Text(e) = f[0]
  BY <1>1, <1>2, <1>3, TextIs
<1>5. Text(e) = e
  BY <1>4 DEF Texts
<1> QED BY <1>2, <1>5 DEF Fits

LEMMA PutFits ==
  ASSUME NEW buf \in Line, NEW ps, PieceSequence(ps), NEW p, IsPiece(p), Fits(buf, ps)
  PROVE  Fits(Put(buf, p), Append(ps, p))
<1> SUFFICES ASSUME NoneNegative(Append(ps, p)),
                    Len(Text(Append(ps, p))) + NumSize <= Size
             PROVE  Put(buf, p) = Text(Append(ps, p))
  BY DEF Fits
<1>1. PICK t \in Seq(Nat) : t = Text(ps) /\ Text(Append(ps, p)) = t \o Shown(p)
  BY TextOfAppend
<1>2. NoneNegative(ps) /\ (IsInt(p) => p.int >= 0)
  BY TextOfAppend
<1>3. PICK d \in Seq(Nat) : d = Shown(p)
  BY <1>2, ShownIsTyped
<1>4. PICK m, l \in Nat : m = Len(t) /\ l = Len(d)
  BY LenProperties
<1>5. Len(t \o d) = m + l /\ (m + l) + NumSize <= Size
  BY <1>1, <1>3, <1>4, ConcatProperties
<1>6. NumSize \in Nat /\ Size \in Nat /\ NumSize > 1
  BY LogAssumption
<1>7. buf = t
  <2>1. m + NumSize <= Size
    BY <1>4, <1>5, <1>6
  <2> QED BY <1>1, <1>2, <1>4, <2>1 DEF Fits
<1>8. avail(buf) = Size - m
  BY <1>4, <1>7 DEF avail
<1>9. CASE IsInt(p)
  <2>1. d = Digits(p.int)
    <3>1. p.int \in 0 .. MaxInt
      BY <1>2, <1>9, LogAssumption DEF IsPiece, Word
    <3> QED BY <1>3, <1>9, <3>1, NumeralFacts DEF Shown
  <2>2. avail(buf) >= NumSize
    BY <1>4, <1>5, <1>6, <1>8
  <2>3. Put(buf, p) = buf \o d
    BY <1>9, <2>1, <2>2 DEF Put, formatInteger
  <2> QED BY <1>1, <1>3, <1>7, <2>3
<1>10. CASE ~IsInt(p)
  <2>1. d = p.text
    BY <1>3, <1>10 DEF Shown
  <2>2. avail(buf) > l
    BY <1>4, <1>5, <1>6, <1>8
  <2>3. Put(buf, p) = buf \o d
    BY <1>4, <1>10, <2>1, <2>2 DEF Put, append
  <2> QED BY <1>1, <1>3, <1>7, <2>3
<1> QED BY <1>9, <1>10

LEMMA PutAllFits ==
  ASSUME NEW buf \in Line, NEW ps, PieceSequence(ps), Fits(buf, ps),
         NEW qs, PieceSequence(qs)
  PROVE  PieceSequence(ps \o qs) /\ Fits(PutAll(buf, qs), ps \o qs)
<1>1. PICK n, m \in Nat : /\ n = Len(ps) /\ ps = [i \in 1 .. n |-> ps[i]]
                          /\ m = Len(qs) /\ qs = [i \in 1 .. m |-> qs[i]]
  BY DEF PieceSequence
<1>2. PICK T : T = {ps[i] : i \in 1 .. n} \cup {qs[i] : i \in 1 .. m}
  OBVIOUS
<1>3. ps \in Seq(T) /\ qs \in Seq(T)
  BY <1>1, <1>2
<1>4. PICK r \in Seq(T) : r = ps \o qs
  BY <1>3, ConcatProperties
<1>5. Len(r) = n + m
  BY <1>1, <1>3, <1>4, ConcatProperties
<1>6. \A i \in 1 .. n : r[i] = ps[i]
  BY <1>1, <1>3, <1>4, ConcatProperties
<1>7. ASSUME NEW i \in 1 .. m PROVE r[n + i] = qs[i]
  <2>1. n + i \in 1 .. n + m /\ ~(n + i <= n) /\ (n + i) - n = i
    OBVIOUS
  <2>2. r[n + i] = qs[(n + i) - n]
    BY <1>1, <1>3, <1>4, <2>1, ConcatProperties
  <2> QED BY <2>1, <2>2
<1>8. PICK f \in [0 .. m -> Line] : Puts(f, buf, qs, m) /\ PutAll(buf, qs) = f[m]
  BY <1>1, PutAllIs DEF PieceSequence
<1> DEFINE J(i) == [j \in 1 .. n + i |-> r[j]]
           Good(i) == PieceSequence(J(i)) /\ Fits(f[i], J(i))
           Bad == {i \in 0 .. m : ~Good(i)}
<1>9. Good(0)
  <2>1. PICK x : x = J(0)
    OBVIOUS
  <2>2. x = ps
    <3>1. x = [j \in 1 .. n |-> r[j]]
      BY <2>1
    <3>2. \A j \in 1 .. n : x[j] = ps[j]
      BY <1>6, <3>1
    <3>3. x = [j \in 1 .. n |-> x[j]] /\ ps = [j \in 1 .. n |-> ps[j]]
      BY <1>1, <3>1
    <3> QED BY <3>2, <3>3
  <2>3. f[0] = buf
    BY <1>8 DEF Puts
  <2> QED BY <2>1, <2>2, <2>3
<1>10. ASSUME NEW i \in Nat, i + 1 \in 1 .. m, Good(i) PROVE Good(i + 1)
  <2>1. PICK x : x = J(i)
    OBVIOUS
  <2>2. PICK p : p = qs[i + 1]
    OBVIOUS
  <2>3. PieceSequence(x) /\ Fits(f[i], x)
    BY <1>10, <2>1
  <2>4. IsPiece(p)
    BY <1>1, <1>10, <2>2 DEF PieceSequence, ArePieces
  <2>5. Len(x) = n + i
    BY <2>1
  <2>6. PICK y : y = Append(x, p)
    OBVIOUS
  <2>7. /\ PieceSequence(y) /\ Len(y) = (n + i) + 1
        /\ \A j \in 1 .. n + i : y[j] = x[j]
        /\ y[(n + i) + 1] = p
    BY <2>3, <2>4, <2>5, <2>6, AppendPiece
  <2>8. PICK z : z = J(i + 1)
    OBVIOUS
  <2>9. ASSUME NEW j \in 1 .. n + (i + 1) PROVE y[j] = z[j]
    <3>1. z[j] = r[j]
      BY <2>8
    <3>2. CASE j = (n + i) + 1
      <4>1. j = n + (i + 1)
        BY <3>2
      <4>2. r[j] = p
        BY <1>7, <1>10, <2>2, <4>1
      <4> QED BY <2>7, <3>1, <3>2, <4>2
    <3>3. CASE j # (n + i) + 1
      <4>1. j \in 1 .. n + i
        BY <3>3
      <4> QED BY <2>1, <2>7, <3>1, <4>1
    <3> QED BY <3>2, <3>3
  <2>10. y = [j \in 1 .. n + (i + 1) |-> y[j]]
    <3>1. (n + i) + 1 = n + (i + 1)
      OBVIOUS
    <3>2. y = [j \in 1 .. Len(y) |-> y[j]]
      BY <2>7 DEF PieceSequence
    <3> QED BY <2>7, <3>1, <3>2
  <2>11. z = [j \in 1 .. n + (i + 1) |-> z[j]]
    BY <2>8
  <2>12. y = z
    BY <2>9, <2>10, <2>11
  <2>13. f[i] \in Line /\ f[i + 1] = Put(f[i], p)
    <3>1. i \in 0 .. m /\ (i + 1) - 1 = i
      BY <1>10
    <3>2. f[i + 1] = Put(f[(i + 1) - 1], qs[i + 1])
      BY <1>8, <1>10 DEF Puts
    <3> QED BY <2>2, <3>1, <3>2
  <2>14. Fits(f[i + 1], y)
    BY <2>3, <2>4, <2>6, <2>13, PutFits
  <2> QED BY <2>7, <2>8, <2>12, <2>14
<1>11. ASSUME Bad # {} PROVE FALSE
  <2>1. Bad \in SUBSET Nat
    OBVIOUS
  <2>2. PICK j \in Bad : \A i \in Bad : j <= i
    BY <1>11, <2>1, LeastNumber
  <2>3. j \in 0 .. m /\ ~Good(j) /\ j # 0
    BY <1>9
  <2>4. PICK i \in Nat : j = i + 1 /\ i \in 0 .. m /\ j \in 1 .. m /\ ~(j <= i)
    <3>1. j - 1 \in Nat /\ j = (j - 1) + 1 /\ j - 1 \in 0 .. m /\ j \in 1 .. m
          /\ ~(j <= j - 1)
      BY <2>3
    <3> QED BY <3>1
  <2>5. Good(i)
    BY <2>2, <2>4
  <2> QED BY <1>10, <2>3, <2>4, <2>5
<1>12. Good(m)
  <2>1. m \in 0 .. m
    OBVIOUS
  <2> QED BY <1>11, <2>1
<1>13. r = J(m)
  <2>1. r \in [1 .. n + m -> T]
    BY <1>5, LenProperties
  <2> QED BY <2>1
<1> QED BY <1>4, <1>8, <1>12, <1>13

-----------------------------------------------------------------------------
LEMMA FitsNext ==
  ASSUME LineInv, Fits(stream_, said), ShortLinesAreWhole, [Next]_vars
  PROVE  Fits(stream_, said)' /\ ShortLinesAreWhole'
<1>1. ShortLinesAreWhole <=> Fits(output.line, output.said)
  BY DEF ShortLinesAreWhole, Fits
<1>2. ShortLinesAreWhole' <=> Fits(output'.line, output'.said)
  BY DEF ShortLinesAreWhole, Fits
<1>3. PICK e : e = <<>>
  OBVIOUS
<1>4. e \in Line /\ PieceSequence(e) /\ Fits(e, e)
  <2>1. e \in Seq(Nat) /\ Len(e) = 0
    BY <1>3
  <2> QED BY <1>3, <2>1, FitsEmpty, LogAssumption DEF Line
<1> SUFFICES Fits(stream_', said') /\ Fits(output'.line, output'.said)
  BY <1>2 DEF Fits
<1>5. CASE UNCHANGED <<stream_, said, output>>
  BY <1>1, <1>5
<1>6. ASSUME NEW v \in Levels, NEW n \in {1, MaxInt}, Logger(v, n)
      PROVE  Fits(stream_', said') /\ Fits(output'.line, output'.said)
  <2>1. TypeOK /\ second \in Nat /\ second # 0
    BY LogAssumption DEF LineInv, TypeOK
  <2>2. PICK t \in Seq(Nat) : t = <<Time + second>>
    <3>1. <<Time + second>> \in Seq(Nat)
      BY <2>1 DEF Time
    <3> QED BY <3>1
  <2>3. TimeNow = t
    BY <2>1, <2>2 DEF TimeNow, LineInv
  <2>4. PICK b : b = Beginning(t, v)
    OBVIOUS
  <2>5. PieceSequence(b)
    BY <2>4, BeginningFacts
  <2>6. stream_' = PutAll(e, b) /\ said' = b
    BY <1>3, <1>6, <2>2, <2>3, <2>4 DEF Logger
  <2>7. PieceSequence(e \o b) /\ Fits(PutAll(e, b), e \o b)
    BY <1>4, <2>5, PutAllFits
  <2>8. e \o b = b
    <3>1. PICK m \in Nat : m = Len(b) /\ b = [i \in 1 .. m |-> b[i]]
      BY <2>5 DEF PieceSequence
    <3>2. PICK T : T = {b[i] : i \in 1 .. m}
      OBVIOUS
    <3>3. b \in Seq(T)
      BY <3>1, <3>2
    <3> QED BY <1>3, <3>3, ConcatEmptySeq
  <2>9. output'.line = e /\ output'.said = e
    BY <1>3, <1>6 DEF Logger, Nothing
  <2> QED BY <1>4, <2>6, <2>7, <2>8, <2>9
<1>7. ASSUME NEW p \in Pieces, Write(p)
      PROVE  Fits(stream_', said') /\ Fits(output'.line, output'.said)
  <2>1. IsPiece(p)
    BY PiecesArePieces
  <2>2. stream_' = Put(stream_, p) /\ said' = Append(said, p) /\ output' = output
    BY <1>7 DEF Write
  <2>3. stream_ \in Line /\ PieceSequence(said)
    BY DEF LineInv
  <2>4. Fits(Put(stream_, p), Append(said, p))
    BY <2>1, <2>3, PutFits
  <2> QED BY <1>1, <2>2, <2>4
<1>8. ASSUME FinishLogger
      PROVE  Fits(stream_', said') /\ Fits(output'.line, output'.said)
  <2>1. PICK d : d = Ending
    OBVIOUS
  <2>2. PieceSequence(d) /\ stream_ \in Line /\ PieceSequence(said)
    BY <2>1, EndingFacts DEF LineInv, TypeOK
  <2>3. Fits(PutAll(stream_, d), said \o d)
    BY <2>2, PutAllFits
  <2>4. output' = [line |-> PutAll(stream_, d), said |-> said \o d]
    BY <1>8, <2>1 DEF FinishLogger
  <2>5. output'.line = PutAll(stream_, d) /\ output'.said = said \o d
    BY <2>4
  <2>6. stream_' = e /\ said' = e
    BY <1>3, <1>8 DEF FinishLogger
  <2> QED BY <1>4, <2>3, <2>5, <2>6
<1>9. ASSUME Tick \/ (\E v \in Levels : SetLogLevel(v)) \/ UNCHANGED vars
      PROVE  UNCHANGED <<stream_, said, output>>
  BY <1>9 DEF Tick, SetLogLevel, vars
<1> QED BY <1>5, <1>6, <1>7, <1>8, <1>9 DEF Next

(* A line that leaves room for one more number is what was streamed:       *)
(* append (Buffer.h:94) and formatInteger (LogStream.h:103) put each of its *)
(* pieces whole and in order, formatInteger's loop makes the decimal        *)
(* numeral (LogStream.h:107), and its time text is the one of the monotonic *)
(* second its Logger was made in (Logger.cpp:37).                           *)
THEOREM ShortLines == Spec => []ShortLinesAreWhole
<1>1. Init => Fits(stream_, said) /\ ShortLinesAreWhole
  <2> SUFFICES ASSUME Init PROVE Fits(stream_, said) /\ ShortLinesAreWhole
    OBVIOUS
  <2>1. PICK e : e = <<>>
    OBVIOUS
  <2>2. stream_ = e /\ said = e /\ output.line = e /\ output.said = e
    BY <2>1 DEF Init, Nothing
  <2>3. Fits(e, e)
    BY <2>1, FitsEmpty
  <2>4. Fits(output.line, output.said) => ShortLinesAreWhole
    BY DEF Fits, ShortLinesAreWhole
  <2> QED BY <2>2, <2>3, <2>4
<1>2. LineInv /\ Fits(stream_, said) /\ ShortLinesAreWhole /\ [Next]_vars
        => (Fits(stream_, said) /\ ShortLinesAreWhole)'
  BY FitsNext
<1> QED BY <1>1, <1>2, LineInit, LineNext, PTL DEF Spec
=============================================================================
