------------------------- MODULE PaymentDataProofs -------------------------
(***************************************************************************)
(* The figures of a payment, for all scales, widths of the integers and    *)
(* precisions of the columns that PaymentDataAssumption allows, and for    *)
(* texts of any length.                                                    *)
(*                                                                         *)
(* The first half is about the operators: powers, the integers of a        *)
(* limited width, rounding, digits and their value, numerals, points,      *)
(* formatting, parsing, and the number a text writes place by place.  The  *)
(* second half is the invariant DataInv and the six properties that runs   *)
(* check.                                                                  *)
(***************************************************************************)
EXTENDS PaymentData, SumTheorems, SequenceTheorems, TLAPS

-----------------------------------------------------------------------------
(* Powers.                                                                 *)

\* What defines the powers of b.
IsPower(F, b) == F = [k \in Nat |-> IF k = 0 THEN 1 ELSE b * F[k - 1]]

\* Such a function exists, and any that there is has these values.
LEMMA Powers ==
  ASSUME NEW b \in Nat \ {0}
  PROVE  /\ \E F : IsPower(F, b)
         /\ \A F : IsPower(F, b) =>
              F[0] = 1 /\ \A k \in Nat : F[k] \in Nat \ {0} /\ F[k + 1] = b * F[k]
<1> DEFINE step == [x \in Nat \X Nat |-> b * x[2]]
<1>1. \A n \in Nat, x \in Nat : step[<<n, x>>] = b * x /\ step[<<n, x>>] \in Nat
  OBVIOUS
<1> HIDE DEF step
<1>2. PICK F : IsRecursion(F, Nat, 1, step)
  BY <1>1, Recursion
<1>3. IsPower(F, b)
  <2>1. F \in [Nat -> Nat] /\ F[0] = 1
    BY <1>2 DEF IsRecursion
  <2>2. ASSUME NEW k \in Nat PROVE F[k] = IF k = 0 THEN 1 ELSE b * F[k - 1]
    <3>1. CASE k = 0
      BY <2>1, <3>1
    <3>2. CASE k # 0
      <4>1. k - 1 \in Nat /\ (k - 1) + 1 = k
        BY <3>2
      <4>2. F[(k - 1) + 1] = step[<<k - 1, F[k - 1]>>]
        BY <1>2, <4>1 DEF IsRecursion
      <4>3. QED
        BY <1>1, <2>1, <3>2, <4>1, <4>2
    <3>3. QED
      BY <3>1, <3>2
  <2>3. QED
    BY <2>1, <2>2 DEF IsPower
<1>4. ASSUME NEW G, IsPower(G, b)
      PROVE  G[0] = 1 /\ \A k \in Nat : G[k] \in Nat \ {0} /\ G[k + 1] = b * G[k]
  <2> DEFINE I == {k \in Nat : G[k] \in Nat \ {0}}
  <2>1. G[0] = 1 /\ \A k \in Nat : G[k + 1] = b * G[k]
    BY <1>4 DEF IsPower
  <2>2. ASSUME NEW k \in Nat, k \in I PROVE k + 1 \in I
    <3>1. G[k] \in Nat \ {0}
      BY <2>2
    <3>2. b * G[k] \in Nat /\ b * G[k] # 0
      BY <3>1
    <3>3. QED
      BY <2>1, <3>2
  <2>3. 0 \in I
    BY <2>1
  <2> HIDE DEF I
  <2>4. Nat \subseteq I
    BY <2>2, <2>3, SetInduction
  <2>5. QED
    BY <2>1, <2>4 DEF I
<1>5. QED
  BY <1>3, <1>4

\* TenTo and TwoTo are what their equations say.
LEMMA PowersOfTen ==
  /\ TenTo[0] = 1
  /\ \A k \in Nat : TenTo[k] \in Nat \ {0} /\ TenTo[k + 1] = 10 * TenTo[k]
<1>1. TenTo = CHOOSE F : IsPower(F, 10)
  BY DEF TenTo, IsPower
<1>2. IsPower(TenTo, 10)
  BY <1>1, Powers
<1>3. QED
  BY <1>2, Powers

\* The same of the powers of two.
LEMMA PowersOfTwo ==
  /\ TwoTo[0] = 1
  /\ \A k \in Nat : TwoTo[k] \in Nat \ {0} /\ TwoTo[k + 1] = 2 * TwoTo[k]
<1>1. TwoTo = CHOOSE F : IsPower(F, 2)
  BY DEF TwoTo, IsPower
<1>2. IsPower(TwoTo, 2)
  BY <1>1, Powers
<1>3. QED
  BY <1>2, Powers

\* They grow, and those of ten faster.
LEMMA TensGrow ==
  ASSUME NEW m \in Nat, NEW n \in Nat
  PROVE  TwoTo[m] <= TenTo[m] /\ TenTo[m] <= TenTo[m + n]
<1> DEFINE I == {k \in Nat : TwoTo[k] <= TenTo[k]}
           J == {k \in Nat : TenTo[m] <= TenTo[m + k]}
<1>1. 0 \in I /\ 0 \in J
  BY PowersOfTen, PowersOfTwo
<1>2. ASSUME NEW k \in Nat, k \in I PROVE k + 1 \in I
  <2>1. TwoTo[k] \in Nat /\ TenTo[k] \in Nat /\ TwoTo[k] <= TenTo[k]
    BY <1>2, PowersOfTen, PowersOfTwo
  <2>2. TwoTo[k + 1] = 2 * TwoTo[k] /\ TenTo[k + 1] = 10 * TenTo[k]
    BY PowersOfTen, PowersOfTwo
  <2>3. QED
    BY <2>1, <2>2
<1>3. ASSUME NEW k \in Nat, k \in J PROVE k + 1 \in J
  <2>1. TenTo[m] \in Nat /\ TenTo[m + k] \in Nat /\ TenTo[m] <= TenTo[m + k]
    BY <1>3, PowersOfTen
  <2>2. m + k \in Nat /\ TenTo[(m + k) + 1] = 10 * TenTo[m + k] /\ m + (k + 1) = (m + k) + 1
    BY PowersOfTen
  <2>3. QED
    BY <2>1, <2>2
<1> HIDE DEF I, J
<1>4. Nat \subseteq I
  BY <1>1, <1>2, SetInduction
<1>5. Nat \subseteq J
  BY <1>1, <1>3, SetInduction
<1>6. QED
  BY <1>4, <1>5 DEF I, J

-----------------------------------------------------------------------------
(* Integers of a limited width.                                            *)

\* The int64 has TwoTo[IntWidth] values, half of them negative.
LEMMA Widths ==
  /\ MaxInt \in Nat /\ MaxInt + 1 \in Nat \ {0} /\ TwoTo[IntWidth] = 2 * (MaxInt + 1)
  /\ TwoTo[IntWidth] \in Nat \ {0}
  /\ FXRateScale \in Nat \ {0}
  /\ TenTo[ColumnDigits] \in Nat \ {0} /\ TenTo[ColumnDigits] <= MaxInt + 1
<1>1. /\ IntWidth - 1 \in Nat /\ (IntWidth - 1) + 1 = IntWidth /\ IntWidth \in Nat
      /\ fxRateScaleDigits \in Nat /\ ColumnDigits \in Nat
      /\ TenTo[ColumnDigits] <= TwoTo[IntWidth - 1]
  BY PaymentDataAssumption
<1>2. TwoTo[IntWidth - 1] \in Nat \ {0} /\ TwoTo[(IntWidth - 1) + 1] = 2 * TwoTo[IntWidth - 1]
      /\ TwoTo[IntWidth] \in Nat \ {0}
  BY <1>1, PowersOfTwo
<1>3. TenTo[fxRateScaleDigits] \in Nat \ {0} /\ TenTo[ColumnDigits] \in Nat \ {0}
  BY <1>1, PowersOfTen
<1>4. QED
  BY <1>1, <1>2, <1>3 DEF MaxInt, FXRateScale

\* What fits is kept, and nothing changes but by multiples of the range.
LEMMA Int64Keeps ==
  ASSUME NEW n \in Int
  PROVE  /\ Int64(n) \in -MaxInt - 1 .. MaxInt
         /\ (Int64(n) - n) % TwoTo[IntWidth] = 0
         /\ n \in -MaxInt - 1 .. MaxInt => Int64(n) = n
<1>1. PICK H \in Nat \ {0}, M \in Nat \ {0} : H = MaxInt + 1 /\ M = TwoTo[IntWidth] /\ M = 2 * H
  BY Widths
<1>2. PICK x \in Int : x = n + H
  OBVIOUS
<1>3. Int64(n) = (x % M) - H
  <2>1. MaxInt = H - 1
    BY <1>1, Widths
  <2>2. n + MaxInt + 1 = x
    BY <1>2, <2>1
  <2>3. Int64(n) = (x % M) - MaxInt - 1
    BY <1>1, <2>2 DEF Int64
  <2>4. x % M \in Int
    BY DivisionOf
  <2>5. QED
    BY <2>1, <2>3, <2>4
<1>4. PICK q \in Int, r \in Nat : q = x \div M /\ r = x % M /\ r < M /\ x = M * q + r
  BY DivisionOf
<1>5. Int64(n) - n = M * (-q) + 0
  <2>1. M * q \in Int /\ M * (-q) = -(M * q)
    OBVIOUS
  <2>2. QED
    BY <1>2, <1>3, <1>4, <2>1
<1>6. (Int64(n) - n) % M = 0
  <2>1. -q \in Int /\ 0 \in Nat /\ 0 < M /\ Int64(n) - n \in Int
    BY <1>3, <1>4
  <2>2. QED
    BY <1>5, <2>1, DivisionUnique
<1>7. ASSUME n \in -H .. H - 1 PROVE Int64(n) = n
  <2>1. x \in Nat /\ x < M /\ x = M * 0 + x
    BY <1>1, <1>2, <1>7
  <2>2. x % M = x
    BY <2>1, DivisionUnique
  <2>3. QED
    BY <1>2, <1>3, <2>2
<1>8. Int64(n) \in -H .. H - 1
  <2>1. Int64(n) = r - H
    BY <1>3, <1>4
  <2>2. r < 2 * H
    BY <1>1, <1>4
  <2>3. QED
    BY <2>1, <2>2
<1>9. MaxInt = H - 1 /\ -MaxInt - 1 = -H
  BY <1>1, Widths
<1>10. QED
  BY <1>1, <1>6, <1>7, <1>8, <1>9

\* Quotient and remainder give the quotient rounded half up.
LEMMA RoundedHalfUp ==
  ASSUME NEW x \in Int, NEW f \in Nat \ {0}
  PROVE  (IF 2 * (x % f) >= f THEN x \div f + 1 ELSE x \div f) = (2 * x + f) \div (2 * f)
<1>1. PICK q \in Int, r \in Nat : q = x \div f /\ r = x % f /\ r < f /\ x = f * q + r
  BY DivisionOf
<1>2. PICK d \in Nat \ {0}, y \in Int : d = 2 * f /\ y = 2 * x + f
  OBVIOUS
<1>3. PICK p \in Int : p = f * q
  OBVIOUS
<1>4. x = p + r
  BY <1>1, <1>3
<1>5. PICK e \in Int : e = d * q /\ e = 2 * p
  BY <1>2, <1>3
<1>6. PICK g \in Int : g = d * (q + 1) /\ g = e + d
  BY <1>5
<1>7. CASE 2 * r >= f
  <2>1. 2 * r - f \in Nat /\ 2 * r - f < d /\ y = g + (2 * r - f) /\ q + 1 \in Int
    <3>1. r < f
      BY <1>1
    <3>2. QED
      BY <1>2, <1>4, <1>5, <1>6, <1>7, <3>1
  <2>2. q + 1 = y \div d
    BY <1>6, <2>1, DivisionUnique
  <2>3. QED
    BY <1>1, <1>2, <1>7, <2>2
<1>8. CASE 2 * r < f
  <2>1. 2 * r + f \in Nat /\ 2 * r + f < d /\ y = e + (2 * r + f)
    BY <1>2, <1>4, <1>5, <1>8
  <2>2. q = y \div d
    BY <1>5, <2>1, DivisionUnique
  <2>3. ~(2 * r >= f)
    BY <1>8
  <2>4. QED
    BY <1>1, <1>2, <2>2, <2>3
<1>9. QED
  BY <1>1, <1>7, <1>8

\* The conversion of the code is the exact one, as far as an int64 holds it.
LEMMA MultiplyRounds ==
  ASSUME NEW m \in Int, NEW rate \in Int, NEW tx, tx.source = m, tx.rate = rate
  PROVE  ExactDestination(tx) \in Int /\ Multiply(m, rate) = Int64(ExactDestination(tx))
<1>1. PICK x \in Int : x = m * rate
  OBVIOUS
<1>2. PICK f \in Nat \ {0} : f = FXRateScale
  BY Widths
<1>3. (IF 2 * (x % f) >= f THEN x \div f + 1 ELSE x \div f) = (2 * x + f) \div (2 * f)
  BY RoundedHalfUp
<1>4. 2 * m * rate = 2 * x
  BY <1>1
<1>5. ExactDestination(tx) = (2 * x + f) \div (2 * f)
  BY <1>2, <1>4 DEF ExactDestination
<1>6. (2 * x + f) \div (2 * f) \in Int
  <2>1. 2 * x + f \in Int /\ 2 * f \in Nat \ {0}
    OBVIOUS
  <2>2. QED
    BY <2>1, DivisionOf
<1>7. Multiply(m, rate) = Int64(IF 2 * (x % f) >= f THEN x \div f + 1 ELSE x \div f)
  BY <1>1, <1>2 DEF Multiply
<1>8. QED
  BY <1>3, <1>5, <1>6, <1>7

-----------------------------------------------------------------------------
(* Digits.                                                                 *)

\* The ten digits, each with its own value; signs and points are none.
LEMMA DigitFacts ==
  /\ DOMAIN DigitOf = {"0", "1", "2", "3", "4", "5", "6", "7", "8", "9"}
  /\ \A c \in DOMAIN DigitOf : /\ DigitOf[c] \in 0 .. 9
                               /\ DigitOf[c] = 0 <=> c = "0"
                               /\ c \notin {"-", "+", "."}
  /\ \A d \in 0 .. 9 : CharOf[d + 1] \in DOMAIN DigitOf /\ DigitOf[CharOf[d + 1]] = d
<1>1. /\ CharOf[1] = "0" /\ CharOf[2] = "1" /\ CharOf[3] = "2" /\ CharOf[4] = "3"
      /\ CharOf[5] = "4" /\ CharOf[6] = "5" /\ CharOf[7] = "6" /\ CharOf[8] = "7"
      /\ CharOf[9] = "8" /\ CharOf[10] = "9" /\ DOMAIN CharOf = 1 .. 10
  BY DEF CharOf
<1> DEFINE D == {"0", "1", "2", "3", "4", "5", "6", "7", "8", "9"}
<1>2. \A i \in 1 .. 10 : i = 1 \/ i = 2 \/ i = 3 \/ i = 4 \/ i = 5 \/ i = 6 \/ i = 7
                           \/ i = 8 \/ i = 9 \/ i = 10
  OBVIOUS
<1>3. Range(CharOf) = D
  BY <1>1, <1>2 DEF Range
<1> DEFINE index(c) == CHOOSE i \in 1 .. 10 : CharOf[i] = c
<1>4. DOMAIN DigitOf = D /\ \A c \in D : DigitOf[c] = index(c) - 1
  BY <1>3 DEF DigitOf
<1>5. \A c \in D : CharOf[DigitOf[c] + 1] = c /\ DigitOf[c] \in 0 .. 9
  <2> TAKE c \in D
  <2>1. \E i \in 1 .. 10 : CharOf[i] = c
    BY <1>1
  <2>2. index(c) \in 1 .. 10 /\ CharOf[index(c)] = c
    BY <2>1
  <2> HIDE DEF index
  <2>3. PICK k \in 1 .. 10 : k = index(c) /\ CharOf[k] = c
    BY <2>2
  <2>4. DigitOf[c] = k - 1
    BY <1>4, <2>3
  <2>5. DigitOf[c] + 1 = k /\ DigitOf[c] \in 0 .. 9
    BY <2>4
  <2>6. QED
    BY <2>3, <2>5
<1>6. \A i, j \in 1 .. 10 : CharOf[i] = CharOf[j] => i = j
  BY <1>1, <1>2
<1>7. \A d \in 0 .. 9 : CharOf[d + 1] \in D
  BY <1>1, <1>3 DEF Range
<1>8. \A d \in 0 .. 9 : DigitOf[CharOf[d + 1]] = d
  <2> TAKE d \in 0 .. 9
  <2>1. PICK e \in 0 .. 9 : e = DigitOf[CharOf[d + 1]] /\ CharOf[e + 1] = CharOf[d + 1]
    BY <1>5, <1>7
  <2>2. e + 1 = d + 1
    BY <1>6, <2>1
  <2>3. QED
    BY <2>1, <2>2
<1>9. \A c \in D : DigitOf[c] = 0 <=> c = "0"
  <2>1. DigitOf["0"] = 0
    <3>1. CharOf[0 + 1] = "0" /\ 0 \in 0 .. 9
      BY <1>1
    <3>2. QED
      BY <1>8, <3>1
  <2>2. \A c \in D : DigitOf[c] = 0 => CharOf[0 + 1] = c
    BY <1>5
  <2>3. QED
    BY <1>1, <2>1, <2>2
<1>10. QED
  BY <1>4, <1>5, <1>7, <1>8, <1>9

\* What the digits of a text write, one by one.
IsValue(v, text) ==
  v = [i \in 0 .. Len(text) |-> IF i = 0 THEN 0 ELSE 10 * v[i - 1] + DigitOf[text[i]]]

Horner(v, text) ==
  /\ v[0] = 0
  /\ \A i \in 1 .. Len(text) : v[i] = 10 * v[i - 1] + DigitOf[text[i]]

\* Two that satisfy it are equal, so any of them is the value.
LEMMA HornerUnique ==
  ASSUME NEW text, Len(text) \in Nat, NEW v, NEW w, Horner(v, text), Horner(w, text)
  PROVE  \A i \in 0 .. Len(text) : v[i] = w[i]
<1> DEFINE I == {i \in Nat : i <= Len(text) => v[i] = w[i]}
<1>1. 0 \in I
  BY DEF Horner
<1>2. ASSUME NEW i \in Nat, i \in I PROVE i + 1 \in I
  <2> SUFFICES ASSUME i + 1 <= Len(text) PROVE v[i + 1] = w[i + 1]
    OBVIOUS
  <2>1. i + 1 \in 1 .. Len(text) /\ (i + 1) - 1 = i /\ v[i] = w[i]
    BY <1>2
  <2>2. v[i + 1] = 10 * v[i] + DigitOf[text[i + 1]] /\ w[i + 1] = 10 * w[i] + DigitOf[text[i + 1]]
    BY <2>1 DEF Horner
  <2>3. QED
    BY <2>1, <2>2
<1> HIDE DEF I
<1>3. Nat \subseteq I
  BY <1>1, <1>2, SetInduction
<1>4. QED
  BY <1>3 DEF I

\* A text of digits has a value.
LEMMA HornerExists ==
  ASSUME NEW text \in Seq(Chars), Digits(text)
  PROVE  \E v : /\ Horner(v, text) /\ DigitsValue(text) = v[Len(text)]
                /\ \A i \in 0 .. Len(text) : v[i] \in Nat
<1> DEFINE d == [i \in Nat |-> IF i \in 1 .. Len(text) THEN DigitOf[text[i]] ELSE 0]
           step == [x \in Nat \X Nat |-> 10 * x[2] + d[x[1] + 1]]
<1>0. Len(text) \in Nat
  OBVIOUS
<1>1. \A i \in Nat : d[i] \in Nat
  <2>1. \A i \in 1 .. Len(text) : DigitOf[text[i]] \in Nat
    <3>1. \A i \in 1 .. Len(text) : text[i] \in DOMAIN DigitOf
      BY DEF Digits
    <3>2. \A c \in DOMAIN DigitOf : DigitOf[c] \in 0 .. 9
      BY DigitFacts
    <3>3. QED
      BY <3>1, <3>2
  <2>2. QED
    BY <2>1
<1>2. \A i \in 1 .. Len(text) : d[i] = DigitOf[text[i]]
  OBVIOUS
<1> HIDE DEF d
<1>3. \A n \in Nat, x \in Nat : step[<<n, x>>] = 10 * x + d[n + 1] /\ step[<<n, x>>] \in Nat
  BY <1>1
<1> HIDE DEF step
<1>4. PICK F : IsRecursion(F, Nat, 0, step)
  BY <1>3, Recursion
<1>5. F \in [Nat -> Nat] /\ F[0] = 0 /\ \A n \in Nat : F[n + 1] = 10 * F[n] + d[n + 1]
  BY <1>3, <1>4 DEF IsRecursion
<1> DEFINE v == [i \in 0 .. Len(text) |-> F[i]]
<1>6. ASSUME NEW i \in 1 .. Len(text) PROVE v[i] = 10 * v[i - 1] + DigitOf[text[i]]
  <2>1. i - 1 \in Nat /\ (i - 1) + 1 = i /\ i - 1 \in 0 .. Len(text) /\ i \in 0 .. Len(text)
    BY <1>0
  <2>2. F[(i - 1) + 1] = 10 * F[i - 1] + d[(i - 1) + 1]
    BY <1>5, <2>1
  <2>3. QED
    BY <1>2, <2>1, <2>2
<1>7. v[0] = 0 /\ \A i \in 0 .. Len(text) : v[i] \in Nat
  BY <1>0, <1>5
<1>8. IsValue(v, text)
  <2>1. \A i \in 0 .. Len(text) : v[i] = IF i = 0 THEN 0 ELSE 10 * v[i - 1] + DigitOf[text[i]]
    <3> TAKE i \in 0 .. Len(text)
    <3>1. CASE i = 0
      BY <1>7, <3>1
    <3>2. CASE i # 0
      <4>1. i \in 1 .. Len(text)
        BY <1>0, <3>2
      <4>2. QED
        BY <1>6, <3>2, <4>1
    <3>3. QED
      BY <3>1, <3>2
  <2>2. QED
    BY <2>1 DEF IsValue
<1> HIDE DEF v
<1>9. \A w : IsValue(w, text) => Horner(w, text)
  BY <1>0 DEF IsValue, Horner
<1>10. PICK u : IsValue(u, text) /\ DigitsValue(text) = u[Len(text)]
  <2>1. DigitsValue(text) = (CHOOSE w : IsValue(w, text))[Len(text)]
    BY DEF DigitsValue, IsValue
  <2>2. QED
    BY <1>8, <2>1
<1>11. Horner(u, text) /\ Horner(v, text)
  BY <1>8, <1>9, <1>10
<1>12. u[Len(text)] = v[Len(text)]
  BY <1>0, <1>11, HornerUnique
<1>13. QED
  BY <1>7, <1>10, <1>11, <1>12

\* Whoever adds up the digits of a text finds the same value.
LEMMA ValueIs ==
  ASSUME NEW text \in Seq(Chars), Digits(text), NEW w, Horner(w, text)
  PROVE  DigitsValue(text) = w[Len(text)] /\ DigitsValue(text) \in Nat
<1>1. Len(text) \in Nat
  OBVIOUS
<1>2. PICK v : /\ Horner(v, text) /\ DigitsValue(text) = v[Len(text)]
               /\ \A i \in 0 .. Len(text) : v[i] \in Nat
  BY HornerExists
<1>3. v[Len(text)] = w[Len(text)]
  BY <1>1, <1>2, HornerUnique
<1>4. QED
  BY <1>1, <1>2, <1>3

\* Zeros have no value.
LEMMA ZeroDigits ==
  ASSUME NEW text \in Seq(Chars), \A i \in 1 .. Len(text) : text[i] = "0"
  PROVE  Digits(text) /\ DigitsValue(text) = 0
<1>1. Digits(text)
  BY DigitFacts DEF Digits
<1>2. DigitOf["0"] = 0 /\ Len(text) \in Nat
  BY DigitFacts
<1> DEFINE w == [i \in 0 .. Len(text) |-> 0]
<1>3. Horner(w, text) /\ w[Len(text)] = 0
  BY <1>2 DEF Horner
<1> HIDE DEF w
<1>4. QED
  BY <1>1, <1>3, ValueIs

\* The value of one text of digits after another.
LEMMA ConcatValue ==
  ASSUME NEW a \in Seq(Chars), NEW b \in Seq(Chars), Digits(a), Digits(b)
  PROVE  /\ a \o b \in Seq(Chars) /\ Digits(a \o b)
         /\ DigitsValue(a \o b) = DigitsValue(a) * TenTo[Len(b)] + DigitsValue(b)
<1>1. PICK t : t = a \o b
  OBVIOUS
<1>2. t \in Seq(Chars) /\ Len(t) = Len(a) + Len(b) /\ Len(a) \in Nat /\ Len(b) \in Nat
      /\ \A i \in 1 .. Len(a) + Len(b) : t[i] = IF i <= Len(a) THEN a[i] ELSE b[i - Len(a)]
  BY <1>1, ConcatProperties
<1>3. Digits(t)
  <2>1. ASSUME NEW i \in 1 .. Len(t) PROVE t[i] \in DOMAIN DigitOf
    <3>1. CASE i <= Len(a)
      BY <1>2, <3>1 DEF Digits
    <3>2. CASE i > Len(a)
      <4>1. i - Len(a) \in 1 .. Len(b) /\ t[i] = b[i - Len(a)]
        BY <1>2, <3>2
      <4>2. QED
        BY <4>1 DEF Digits
    <3>3. QED
      BY <1>2, <3>1, <3>2
  <2>2. QED
    BY <1>2, <2>1 DEF Digits
<1>4. PICK v : /\ Horner(v, a) /\ DigitsValue(a) = v[Len(a)] /\ \A i \in 0 .. Len(a) : v[i] \in Nat
  BY HornerExists
<1>5. PICK u : /\ Horner(u, b) /\ DigitsValue(b) = u[Len(b)] /\ \A i \in 0 .. Len(b) : u[i] \in Nat
  BY HornerExists
<1> DEFINE A == DigitsValue(a)
           w == [i \in 0 .. Len(t) |->
                   IF i <= Len(a) THEN v[i] ELSE A * TenTo[i - Len(a)] + u[i - Len(a)]]
<1>6. A \in Nat /\ v[0] = 0 /\ u[0] = 0
  BY <1>2, <1>4, <1>5 DEF Horner
<1>7. w[0] = 0
  BY <1>2, <1>6
<1>8. \A j \in 0 .. Len(b) : w[Len(a) + j] = A * TenTo[j] + u[j]
  <2> TAKE j \in 0 .. Len(b)
  <2>1. Len(a) + j \in 0 .. Len(t) /\ (Len(a) + j) - Len(a) = j
    BY <1>2
  <2>2. CASE j = 0
    <3>1. TenTo[0] = 1 /\ Len(a) + j = Len(a) /\ A * 1 + 0 = A
      BY <1>2, <1>6, <2>2, PowersOfTen
    <3>2. QED
      BY <1>4, <1>6, <2>1, <2>2, <3>1
  <2>3. CASE j # 0
    <3>1. ~(Len(a) + j <= Len(a))
      BY <1>2, <2>3
    <3>2. QED
      BY <2>1, <3>1
  <2>4. QED
    BY <2>2, <2>3
<1>9. \A i \in 0 .. Len(a) : w[i] = v[i]
  BY <1>2
<1> HIDE DEF w, A
<1>10. ASSUME NEW i \in 1 .. Len(t) PROVE w[i] = 10 * w[i - 1] + DigitOf[t[i]]
  <2>1. CASE i <= Len(a)
    <3>1. i \in 1 .. Len(a) /\ i - 1 \in 0 .. Len(a) /\ i \in 0 .. Len(a) /\ t[i] = a[i]
      BY <1>2, <2>1
    <3>2. QED
      BY <1>4, <1>9, <3>1 DEF Horner
  <2>2. CASE i > Len(a)
    <3>1. PICK j \in 1 .. Len(b) : i = Len(a) + j /\ t[i] = b[j]
      <4>1. i - Len(a) \in 1 .. Len(b) /\ i = Len(a) + (i - Len(a)) /\ t[i] = b[i - Len(a)]
        BY <1>2, <2>2
      <4>2. QED
        BY <4>1
    <3>2. j - 1 \in 0 .. Len(b) /\ j \in 0 .. Len(b) /\ i - 1 = Len(a) + (j - 1) /\ j - 1 \in Nat
          /\ (j - 1) + 1 = j
      BY <1>2, <3>1
    <3>3. w[i] = A * TenTo[j] + u[j] /\ w[i - 1] = A * TenTo[j - 1] + u[j - 1]
      BY <1>8, <3>1, <3>2
    <3>4. TenTo[j] = 10 * TenTo[j - 1] /\ TenTo[j - 1] \in Nat
      BY <3>2, PowersOfTen
    <3>5. u[j] = 10 * u[j - 1] + DigitOf[b[j]] /\ u[j - 1] \in Nat
      BY <1>5, <3>1, <3>2 DEF Horner
    <3>6. DigitOf[b[j]] \in Nat
      <4>1. b[j] \in DOMAIN DigitOf
        BY <3>1 DEF Digits
      <4>2. QED
        BY SMTT(30), <4>1, DigitFacts
    <3>7. PICK y \in Nat, z \in Nat : y = TenTo[j - 1] /\ z = A * y
      BY <1>6, <3>4
    <3>8. A * TenTo[j] = 10 * z
      BY <1>6, <3>4, <3>7
    <3>9. PICK p \in Nat, e \in Nat : p = u[j - 1] /\ e = DigitOf[b[j]]
      BY <3>5, <3>6
    <3>10. w[i] = 10 * z + (10 * p + e) /\ w[i - 1] = z + p
      BY <3>3, <3>5, <3>7, <3>8, <3>9
    <3>11. 10 * (z + p) + e = 10 * z + (10 * p + e)
      OBVIOUS
    <3>12. QED
      BY <3>1, <3>9, <3>10, <3>11
  <2>3. QED
    BY <1>2, <2>1, <2>2
<1>11. Horner(w, t)
  BY <1>7, <1>10 DEF Horner
<1>12. DigitsValue(t) = w[Len(t)]
  BY <1>2, <1>3, <1>11, ValueIs
<1>13. Len(b) \in 0 .. Len(b) /\ w[Len(a) + Len(b)] = A * TenTo[Len(b)] + u[Len(b)]
  BY <1>2, <1>8
<1>14. QED
  BY <1>1, <1>2, <1>3, <1>5, <1>12, <1>13 DEF A

-----------------------------------------------------------------------------
(* Numerals.                                                               *)

\* Dividing by ten times as much leaves off the last digit.
LEMMA DropDigit ==
  ASSUME NEW n \in Nat, NEW t \in Nat \ {0}
  PROVE  n \div t = 10 * (n \div (10 * t)) + ((n \div t) % 10)
<1>1. PICK a \in Nat, r \in Nat : a = n \div t /\ r < t /\ n = t * a + r
  BY DivisionOf
<1>2. PICK b \in Nat, c \in Nat : b = a \div 10 /\ c = a % 10 /\ c < 10 /\ a = 10 * b + c
  BY DivisionOf
<1>3. PICK x \in Nat, y \in Nat : x = t * b /\ y = t * c
  OBVIOUS
<1>4. t * a = 10 * x + y
  <2>1. t * a = t * (10 * b) + t * c
    BY <1>2
  <2>2. t * (10 * b) = 10 * (t * b)
    OBVIOUS
  <2>3. QED
    BY <1>3, <2>1, <2>2
<1>5. y <= 9 * t
  <2>1. c = 0 \/ c = 1 \/ c = 2 \/ c = 3 \/ c = 4 \/ c = 5 \/ c = 6 \/ c = 7 \/ c = 8 \/ c = 9
    BY <1>2
  <2>2. QED
    BY <1>3, <2>1
<1>6. PICK d \in Nat \ {0} : d = 10 * t
  OBVIOUS
<1>7. d * b = 10 * x
  BY <1>3, <1>6
<1>8. y + r \in Nat /\ y + r < d /\ n = 10 * x + (y + r)
  BY <1>1, <1>4, <1>5, <1>6
<1>9. b = n \div d
  BY <1>7, <1>8, DivisionUnique
<1>10. QED
  BY <1>1, <1>2, <1>6, <1>9

\* A numeral has the value it is of, and room for it.
LEMMA NumeralOf ==
  ASSUME NEW n \in Nat, n < TenTo[ColumnDigits], NEW least \in Nat \ {0}
  PROVE  /\ Numeral(n, least) \in Seq(Chars)
         /\ Len(Numeral(n, least)) \in Nat /\ Len(Numeral(n, least)) >= least
         /\ Digits(Numeral(n, least)) /\ DigitsValue(Numeral(n, least)) = n
<1> DEFINE Fits(k) == n < TenTo[k] /\ (k = least \/ n >= TenTo[k - 1])
           size == CHOOSE k \in least .. least + IntWidth : Fits(k)
           text == Numeral(n, least)
<1>1. \E k \in least .. least + IntWidth : Fits(k)
  <2> DEFINE N == {k \in Nat : k >= least /\ n < TenTo[k]}
  <2>1. IntWidth - 1 \in Nat /\ (IntWidth - 1) + (least + 1) = least + IntWidth /\ least + 1 \in Nat
        /\ IntWidth \in Nat
    BY PaymentDataAssumption
  <2>2. TwoTo[IntWidth - 1] <= TenTo[IntWidth - 1] /\ TenTo[IntWidth - 1] <= TenTo[least + IntWidth]
    BY <2>1, TensGrow
  <2>3. TenTo[ColumnDigits] <= TwoTo[IntWidth - 1]
    BY PaymentDataAssumption
  <2>4. /\ TenTo[ColumnDigits] \in Nat /\ TwoTo[IntWidth - 1] \in Nat
        /\ TenTo[IntWidth - 1] \in Nat /\ TenTo[least + IntWidth] \in Nat
    <3>1. ColumnDigits \in Nat /\ least + IntWidth \in Nat
      BY <2>1, PaymentDataAssumption
    <3>2. QED
      BY <2>1, <3>1, PowersOfTen, PowersOfTwo
  <2>5. n < TenTo[least + IntWidth]
    BY <2>2, <2>3, <2>4
  <2>6. least + IntWidth \in N
    BY <2>1, <2>5
  <2>7. PICK m \in N : \A k \in N : m <= k
    BY <2>6, LeastNumber
  <2>8. m \in least .. least + IntWidth
    BY <2>1, <2>6, <2>7
  <2>9. ASSUME m # least PROVE n >= TenTo[m - 1]
    <3>1. m - 1 \in Nat /\ m - 1 >= least /\ m - 1 \notin N
      BY <2>7, <2>9
    <3>2. TenTo[m - 1] \in Nat /\ ~(n < TenTo[m - 1])
      BY <3>1, PowersOfTen
    <3>3. QED
      BY <3>2
  <2>10. QED
    BY <2>7, <2>8, <2>9
<1>2. size \in least .. least + IntWidth /\ Fits(size)
  BY <1>1
<1>3. text = [i \in 1 .. size |-> CharOf[((n \div TenTo[size - i]) % 10) + 1]]
  BY DEF Numeral
<1> HIDE DEF text, size
<1>4. PICK z \in Nat \ {0} : z = size /\ z >= least /\ n < TenTo[z]
  <2>1. size \in Nat \ {0} /\ size >= least
    BY <1>2, PaymentDataAssumption
  <2>2. QED
    BY <1>2, <2>1
<1> DEFINE part(i) == n \div TenTo[z - i]
<1>5. \A i \in 0 .. z : part(i) \in Nat
  <2> TAKE i \in 0 .. z
  <2>1. TenTo[z - i] \in Nat \ {0}
    BY PowersOfTen
  <2>2. QED
    BY <2>1, DivisionOf
<1> HIDE DEF part
<1>6. \A i \in 1 .. z : text[i] = CharOf[(part(i) % 10) + 1] /\ part(i) % 10 \in 0 .. 9
  <2> TAKE i \in 1 .. z
  <2>1. part(i) \in Nat
    BY <1>5
  <2>2. part(i) % 10 \in 0 .. 9
    BY <2>1
  <2>3. text[i] = CharOf[((n \div TenTo[z - i]) % 10) + 1]
    BY <1>3, <1>4
  <2>4. QED
    BY <2>2, <2>3 DEF part
<1>7. \A i \in 1 .. z : text[i] \in DOMAIN DigitOf /\ DigitOf[text[i]] = part(i) % 10
  BY <1>6, DigitFacts
<1>8. \A c \in DOMAIN DigitOf : c \in Chars
  BY DEF DigitOf, Chars
<1>9. text \in [1 .. z -> Chars]
  BY <1>3, <1>4, <1>7, <1>8
<1>10. text \in Seq(Chars) /\ Len(text) = z
  BY <1>9
<1>11. Digits(text)
  BY <1>7, <1>10 DEF Digits
<1> DEFINE w == [i \in 0 .. z |-> part(i)]
<1>12. w[0] = 0
  <2>1. TenTo[z] \in Nat \ {0} /\ n = TenTo[z] * 0 + n
    BY PowersOfTen
  <2>2. 0 = n \div TenTo[z]
    BY <1>4, <2>1, DivisionUnique
  <2>3. z - 0 = z
    OBVIOUS
  <2>4. QED
    BY <2>2, <2>3 DEF part
<1>13. ASSUME NEW i \in 1 .. z PROVE w[i] = 10 * w[i - 1] + DigitOf[text[i]]
  <2>1. z - i \in Nat /\ z - (i - 1) = (z - i) + 1 /\ i - 1 \in 0 .. z /\ i \in 0 .. z
    OBVIOUS
  <2>2. TenTo[z - i] \in Nat \ {0} /\ TenTo[z - (i - 1)] = 10 * TenTo[z - i]
    BY <2>1, PowersOfTen
  <2>3. PICK t \in Nat \ {0} : t = TenTo[z - i]
    BY <2>2
  <2>4. n \div t = 10 * (n \div (10 * t)) + ((n \div t) % 10)
    BY DropDigit
  <2>5. part(i) = 10 * part(i - 1) + (part(i) % 10)
    BY <2>2, <2>3, <2>4 DEF part
  <2>6. QED
    BY <1>7, <2>1, <2>5
<1>14. w[z] = n
  <2>1. z - z = 0 /\ TenTo[0] = 1 /\ n \div 1 = n
    BY PowersOfTen
  <2>2. QED
    BY <2>1 DEF part
<1> HIDE DEF w
<1>15. Horner(w, text)
  BY <1>10, <1>12, <1>13 DEF Horner
<1>16. DigitsValue(text) = n
  BY <1>10, <1>11, <1>14, <1>15, ValueIs
<1>17. QED
  BY <1>4, <1>10, <1>11, <1>16 DEF text

-----------------------------------------------------------------------------
(* Points.                                                                 *)

IsPoint(text, p) ==
  /\ p \in 1 .. Len(text) + 1
  /\ \A i \in 1 .. Len(text) : i < p => text[i] # "."
  /\ p <= Len(text) => text[p] = "."

\* There is one first point, and it is where Point finds it.
LEMMA PointOf ==
  ASSUME NEW text \in Seq(Chars)
  PROVE  IsPoint(text, Point(text)) /\ \A p : IsPoint(text, p) => p = Point(text)
<1> DEFINE I == {i \in 1 .. Len(text) : text[i] = "."}
<1>1. Len(text) \in Nat
  OBVIOUS
<1>2. Point(text) = IF I = {} THEN Len(text) + 1 ELSE IF Min(I) = 0 THEN Len(text) + 1 ELSE Min(I)
  BY DEF Point, SelectInSeq
<1>3. ASSUME I # {} PROVE Min(I) \in I /\ \A i \in I : Min(I) <= i
  <2>1. I \in SUBSET Nat
    BY <1>1
  <2> HIDE DEF I
  <2>2. \E m \in I : \A i \in I : m <= i
    BY <1>3, <2>1, LeastNumber
  <2>3. QED
    BY <2>2 DEF Min
<1>4. CASE I = {}
  <2>1. Point(text) = Len(text) + 1
    BY <1>2, <1>4
  <2>2. QED
    BY <1>1, <1>4, <2>1 DEF IsPoint
<1>5. CASE I # {}
  <2>1. PICK m \in 1 .. Len(text) : m = Min(I) /\ text[m] = "." /\ \A i \in I : m <= i
    BY <1>3, <1>5
  <2>2. Point(text) = m
    BY <1>2, <1>5, <2>1
  <2>3. \A i \in 1 .. Len(text) : text[i] = "." => m <= i
    BY <2>1
  <2>4. \A i \in 1 .. Len(text) : i < m => text[i] # "."
    <3>1. ASSUME NEW i \in 1 .. Len(text), i < m, text[i] = "." PROVE FALSE
      <4>1. m <= i
        BY <2>3, <3>1
      <4>2. QED
        BY <3>1, <4>1
    <3>2. QED
      BY <3>1
  <2>5. IsPoint(text, m)
    BY <1>1, <2>1, <2>4 DEF IsPoint
  <2>6. ASSUME NEW p, IsPoint(text, p) PROVE p = m
    <3>1. /\ p \in 1 .. Len(text) + 1 /\ \A i \in 1 .. Len(text) : i < p => text[i] # "."
          /\ p <= Len(text) => text[p] = "."
      BY <2>6 DEF IsPoint
    <3>2. ~(m < p)
      BY <2>1, <3>1
    <3>3. ~(p < m)
      <4>1. p < m => p \in 1 .. Len(text) /\ text[p] = "."
        BY <1>1, <3>1
      <4>2. QED
        BY <2>4, <4>1
    <3>4. QED
      BY <1>1, <3>1, <3>2, <3>3
  <2>7. QED
    BY <2>2, <2>5, <2>6
<1>6. QED
  BY <1>4, <1>5

\* What the point separates.
LEMMA Parts ==
  ASSUME NEW text \in Seq(Chars)
  PROVE  /\ Len(text) \in Nat /\ Point(text) \in 1 .. Len(text) + 1
         /\ IntPart(text) \in Seq(Chars) /\ Len(IntPart(text)) = Point(text) - 1
         /\ \A i \in 1 .. Point(text) - 1 : IntPart(text)[i] = text[i]
         /\ FracPart(text) \in Seq(Chars)
         /\ Len(FracPart(text)) = IF Point(text) <= Len(text) THEN Len(text) - Point(text) ELSE 0
         /\ \A i \in 1 .. Len(text) - Point(text) : FracPart(text)[i] = text[Point(text) + i]
<1>1. Len(text) \in Nat /\ \A i \in 1 .. Len(text) : text[i] \in Chars
  OBVIOUS
<1>2. PICK p \in 1 .. Len(text) + 1 : p = Point(text)
  BY PointOf DEF IsPoint
<1>3. 1 \in Int /\ p - 1 \in Int /\ \A i \in 1 .. p - 1 : text[i] \in Chars
  BY <1>1
<1>4. /\ SubSeq(text, 1, p - 1) \in Seq(Chars)
      /\ Len(SubSeq(text, 1, p - 1)) = IF 1 <= p - 1 THEN (p - 1) - 1 + 1 ELSE 0
      /\ \A i \in 1 .. (p - 1) - 1 + 1 : SubSeq(text, 1, p - 1)[i] = text[1 + i - 1]
  BY <1>3, SubSeqProperties
<1>5. p + 1 \in Int /\ Len(text) \in Int /\ \A i \in p + 1 .. Len(text) : text[i] \in Chars
  BY <1>1
<1>6. /\ SubSeq(text, p + 1, Len(text)) \in Seq(Chars)
      /\ Len(SubSeq(text, p + 1, Len(text)))
           = IF p + 1 <= Len(text) THEN Len(text) - (p + 1) + 1 ELSE 0
      /\ \A i \in 1 .. Len(text) - (p + 1) + 1 :
           SubSeq(text, p + 1, Len(text))[i] = text[(p + 1) + i - 1]
  BY <1>5, SubSeqProperties
<1>7. IntPart(text) = SubSeq(text, 1, p - 1) /\ FracPart(text) = SubSeq(text, p + 1, Len(text))
  BY <1>2 DEF IntPart, FracPart
<1>8. \A i \in 1 .. p - 1 : IntPart(text)[i] = text[i]
  BY <1>2, <1>4, <1>7
<1>9. \A i \in 1 .. Len(text) - p : FracPart(text)[i] = text[p + i]
  <2> TAKE i \in 1 .. Len(text) - p
  <2>1. i \in 1 .. Len(text) - (p + 1) + 1 /\ (p + 1) + i - 1 = p + i
    BY <1>1
  <2>2. QED
    BY <1>6, <1>7, <2>1
<1>10. Len(IntPart(text)) = p - 1
  BY <1>4, <1>7
<1>11. Len(FracPart(text)) = IF p <= Len(text) THEN Len(text) - p ELSE 0
  BY <1>1, <1>6, <1>7
<1>12. QED
  BY <1>1, <1>2, <1>4, <1>6, <1>7, <1>8, <1>9, <1>10, <1>11

-----------------------------------------------------------------------------
(* What formatFixedPoint writes, and what the three services read in it.   *)

\* The units n written with all of their "scale" fractional digits.
IsFormatted(text, n, scale) ==
  /\ text \in Seq(Chars)
  /\ Point(text) > 1 /\ Point(text) < Len(text) /\ Len(FracPart(text)) = scale
  /\ Digits(IntPart(text)) /\ Digits(FracPart(text))
  /\ DigitsValue(IntPart(text) \o FracPart(text)) = n

\* formatFixedPoint does so.
LEMMA FormatShape ==
  ASSUME NEW n \in Nat, n < TenTo[ColumnDigits], NEW scale \in Nat \ {0}
  PROVE  IsFormatted(formatFixedPoint(n, scale), n, scale)
<1>1. PICK d : d = Numeral(n, scale + 1)
  OBVIOUS
<1>2. /\ d \in Seq(Chars) /\ Len(d) \in Nat /\ Len(d) >= scale + 1
      /\ Digits(d) /\ DigitsValue(d) = n
  <2>1. scale + 1 \in Nat \ {0}
    OBVIOUS
  <2>2. QED
    BY <1>1, <2>1, NumeralOf
<1>3. PICK p \in Nat \ {0} : p = Len(d) - scale /\ p < Len(d) /\ Len(d) = p + scale
  <2>1. Len(d) - scale \in Nat \ {0} /\ Len(d) - scale < Len(d)
        /\ Len(d) = (Len(d) - scale) + scale
    BY <1>2
  <2>2. QED
    BY <2>1
<1>4. PICK a, b : a = SubSeq(d, 1, p) /\ b = SubSeq(d, p + 1, Len(d))
  OBVIOUS
<1>5. /\ a \in Seq(Chars) /\ Len(a) = p /\ \A i \in 1 .. p : a[i] = d[i]
  <2>1. \A i \in 1 .. p : d[i] \in Chars
    BY <1>2, <1>3
  <2>2. /\ SubSeq(d, 1, p) \in Seq(Chars)
        /\ Len(SubSeq(d, 1, p)) = IF 1 <= p THEN p - 1 + 1 ELSE 0
        /\ \A i \in 1 .. p - 1 + 1 : SubSeq(d, 1, p)[i] = d[1 + i - 1]
    BY <2>1, SubSeqProperties
  <2>3. QED
    BY <1>3, <1>4, <2>2
<1>6. /\ b \in Seq(Chars) /\ Len(b) = scale /\ \A i \in 1 .. scale : b[i] = d[p + i]
  <2>1. p + 1 \in Int /\ Len(d) \in Int /\ \A i \in p + 1 .. Len(d) : d[i] \in Chars
    BY <1>2, <1>3
  <2>2. /\ SubSeq(d, p + 1, Len(d)) \in Seq(Chars)
        /\ Len(SubSeq(d, p + 1, Len(d))) = IF p + 1 <= Len(d) THEN Len(d) - (p + 1) + 1 ELSE 0
        /\ \A i \in 1 .. Len(d) - (p + 1) + 1 :
             SubSeq(d, p + 1, Len(d))[i] = d[(p + 1) + i - 1]
    BY <2>1, SubSeqProperties
  <2>3. \A i \in 1 .. scale : (p + 1) + i - 1 = p + i /\ i \in 1 .. Len(d) - (p + 1) + 1
    BY <1>3
  <2>4. QED
    BY <1>3, <1>4, <2>2, <2>3
<1>7. \A i \in 1 .. Len(d) : d[i] \in DOMAIN DigitOf
  BY <1>2 DEF Digits
<1>8. Digits(a) /\ Digits(b)
  <2>1. \A i \in 1 .. p : a[i] \in DOMAIN DigitOf
    <3>1. \A i \in 1 .. p : i \in 1 .. Len(d)
      BY <1>2, <1>3
    <3>2. QED
      BY <1>5, <1>7, <3>1
  <2>2. \A i \in 1 .. scale : b[i] \in DOMAIN DigitOf
    <3>1. \A i \in 1 .. scale : p + i \in 1 .. Len(d)
      BY <1>3
    <3>2. QED
      BY <1>6, <1>7, <3>1
  <2>3. QED
    BY <1>5, <1>6, <2>1, <2>2 DEF Digits
<1>9. a \o b = d
  <2>1. 1 \in 1 .. Len(d) + 1 /\ p \in 1 - 1 .. Len(d) /\ Len(d) \in p .. Len(d)
    BY <1>2, <1>3
  <2>2. SubSeq(d, 1, p) \o SubSeq(d, p + 1, Len(d)) = SubSeq(d, 1, Len(d))
    BY <1>2, <2>1, ConcatAdjacentSubSeq
  <2>3. SubSeq(d, 1, Len(d)) = d
    BY <1>2, SubSeqFull
  <2>4. QED
    BY <1>4, <2>2, <2>3
<1>10. PICK text : text = (a \o <<".">>) \o b
  OBVIOUS
<1>11. formatFixedPoint(n, scale) = text
  <2>1. Len(Numeral(n, scale + 1)) - scale = p
    BY <1>1, <1>3
  <2>2. formatFixedPoint(n, scale) = SubSeq(d, 1, p) \o <<".">> \o SubSeq(d, p + 1, Len(d))
    BY <1>1, <2>1 DEF formatFixedPoint
  <2>3. QED
    BY <1>4, <1>10, <2>2
<1>12. /\ a \o <<".">> \in Seq(Chars) /\ Len(a \o <<".">>) = p + 1
       /\ \A i \in 1 .. p : (a \o <<".">>)[i] = a[i]
       /\ (a \o <<".">>)[p + 1] = "."
  <2>1. <<".">> \in Seq(Chars) /\ Len(<<".">>) = 1 /\ <<".">>[1] = "."
    BY DEF Chars
  <2>2. /\ a \o <<".">> \in Seq(Chars) /\ Len(a \o <<".">>) = Len(a) + Len(<<".">>)
        /\ \A i \in 1 .. Len(a) + Len(<<".">>) : (a \o <<".">>)[i] =
             IF i <= Len(a) THEN a[i] ELSE <<".">>[i - Len(a)]
    BY <1>5, <2>1, ConcatProperties
  <2>3. p + 1 \in 1 .. p + 1 /\ ~(p + 1 <= p) /\ (p + 1) - p = 1
    OBVIOUS
  <2>4. QED
    BY <1>5, <2>1, <2>2, <2>3
<1>13. /\ text \in Seq(Chars) /\ Len(text) = (p + 1) + scale
       /\ \A i \in 1 .. (p + 1) + scale : text[i] =
            IF i <= p + 1 THEN (a \o <<".">>)[i] ELSE b[i - (p + 1)]
  <2>1. PICK c : c = a \o <<".">>
    OBVIOUS
  <2>2. c \in Seq(Chars) /\ Len(c) = p + 1 /\ b \in Seq(Chars) /\ Len(b) = scale
    BY <1>6, <1>12, <2>1
  <2>3. /\ c \o b \in Seq(Chars) /\ Len(c \o b) = Len(c) + Len(b)
        /\ \A i \in 1 .. Len(c) + Len(b) : (c \o b)[i] =
             IF i <= Len(c) THEN c[i] ELSE b[i - Len(c)]
    BY <2>2, ConcatProperties
  <2>4. QED
    BY <1>10, <2>1, <2>2, <2>3
<1>14. \A i \in 1 .. p : text[i] = a[i]
  BY <1>12, <1>13
<1>15. text[p + 1] = "."
  BY <1>12, <1>13
<1>16. \A i \in 1 .. scale : text[(p + 1) + i] = b[i]
  BY <1>13
<1>17. Point(text) = p + 1
  <2>1. \A i \in 1 .. p : text[i] # "."
    <3>1. \A i \in 1 .. p : text[i] \in DOMAIN DigitOf
      <4>1. \A i \in 1 .. p : i \in 1 .. Len(d)
        BY <1>2, <1>3
      <4>2. QED
        BY <1>5, <1>7, <1>14, <4>1
    <3>2. \A c \in DOMAIN DigitOf : c # "."
      BY DigitFacts
    <3>3. QED
      BY <3>1, <3>2
  <2>2. IsPoint(text, p + 1)
    BY <1>13, <1>15, <2>1 DEF IsPoint
  <2>3. QED
    BY <1>13, <2>2, PointOf
<1>18. IntPart(text) = a
  <2>1. /\ IntPart(text) \in Seq(Chars) /\ Len(IntPart(text)) = Point(text) - 1
        /\ \A i \in 1 .. Point(text) - 1 : IntPart(text)[i] = text[i]
    BY <1>13, Parts
  <2>2. Len(IntPart(text)) = p /\ \A i \in 1 .. p : IntPart(text)[i] = a[i]
    BY <1>14, <1>17, <2>1
  <2>3. QED
    BY <1>5, <2>1, <2>2, SeqEqual
<1>19. FracPart(text) = b
  <2>1. /\ FracPart(text) \in Seq(Chars)
        /\ Len(FracPart(text)) = IF Point(text) <= Len(text) THEN Len(text) - Point(text) ELSE 0
        /\ \A i \in 1 .. Len(text) - Point(text) : FracPart(text)[i] = text[Point(text) + i]
    BY <1>13, Parts
  <2>2. Len(FracPart(text)) = scale /\ \A i \in 1 .. scale : FracPart(text)[i] = b[i]
    BY <1>13, <1>16, <1>17, <2>1
  <2>3. QED
    BY <1>6, <2>1, <2>2, SeqEqual
<1>20. Point(text) > 1 /\ Point(text) < Len(text)
  <2>1. p + 1 > 1 /\ p + 1 < (p + 1) + scale
    OBVIOUS
  <2>2. QED
    BY <1>13, <1>17, <2>1
<1>21. Digits(IntPart(text)) /\ Digits(FracPart(text)) /\ Len(FracPart(text)) = scale
       /\ DigitsValue(IntPart(text) \o FracPart(text)) = n
  BY <1>2, <1>6, <1>8, <1>9, <1>18, <1>19
<1>22. IsFormatted(text, n, scale)
  BY <1>13, <1>20, <1>21 DEF IsFormatted
<1>23. QED
  BY <1>11, <1>22

\* ClickHouse reads the units back.
LEMMA FormattedUnits ==
  ASSUME NEW text, NEW n \in Nat, NEW scale \in Nat \ {0}, IsFormatted(text, n, scale)
  PROVE  DecimalUnits(text, scale) = n
<1>1. PICK a, b : a = IntPart(text) /\ b = FracPart(text)
  OBVIOUS
<1>2. /\ a \in Seq(Chars) /\ b \in Seq(Chars) /\ Digits(a) /\ Digits(b) /\ Len(b) = scale
      /\ DigitsValue(a \o b) = n
  BY <1>1, Parts DEF IsFormatted
<1>3. DigitsValue(a \o b) = DigitsValue(a) * TenTo[Len(b)] + DigitsValue(b)
  BY <1>2, ConcatValue
<1>4. TenTo[scale - scale] = 1 /\ DigitsValue(b) * 1 = DigitsValue(b)
  <2>1. scale - scale = 0
    OBVIOUS
  <2>2. DigitsValue(b) \in Nat
    BY <1>2, HornerExists, ValueIs
  <2>3. QED
    BY <2>1, <2>2, PowersOfTen
<1>5. QED
  BY <1>1, <1>2, <1>3, <1>4 DEF DecimalUnits

\* What the zeros that fill up a fraction make of the value.
LEMMA ZerosAfter ==
  ASSUME NEW a \in Seq(Chars), NEW b \in Seq(Chars), Digits(a), Digits(b), NEW k \in Nat
  PROVE  /\ a \o b \o Zeros(k) \in Seq(Chars)
         /\ Len(a \o b \o Zeros(k)) = (Len(a) + Len(b)) + k
         /\ Digits(a \o b) /\ DigitsValue(a \o b) \in Nat
         /\ Digits(a \o b \o Zeros(k))
         /\ DigitsValue(a \o b \o Zeros(k)) = DigitsValue(a \o b) * TenTo[k]
<1>1. PICK z : z = Zeros(k)
  OBVIOUS
<1>2. z \in Seq(Chars) /\ Len(z) = k /\ \A i \in 1 .. k : z[i] = "0"
  <2>1. "0" \in Chars
    BY DigitFacts DEF Chars, DigitOf
  <2>2. z \in [1 .. k -> Chars] /\ \A i \in 1 .. k : z[i] = "0"
    BY <1>1, <2>1 DEF Zeros
  <2>3. QED
    BY <2>2
<1>3. Digits(z) /\ DigitsValue(z) = 0
  BY <1>2, ZeroDigits
<1>4. PICK c : c = a \o b
  OBVIOUS
<1>5. c \in Seq(Chars) /\ Digits(c) /\ Len(c) = Len(a) + Len(b)
  BY <1>4, ConcatValue, ConcatProperties
<1>6. DigitsValue(c) \in Nat
  BY <1>5, HornerExists, ValueIs
<1>7. c \o z \in Seq(Chars) /\ Len(c \o z) = Len(c) + Len(z)
  BY <1>2, <1>5, ConcatProperties
<1>8. Digits(c \o z) /\ DigitsValue(c \o z) = DigitsValue(c) * TenTo[Len(z)] + DigitsValue(z)
  BY <1>2, <1>3, <1>5, ConcatValue
<1>9. DigitsValue(c) * TenTo[k] \in Nat
  <2>1. PICK x \in Nat, y \in Nat : x = DigitsValue(c) /\ y = TenTo[k]
    BY <1>6, PowersOfTen
  <2>2. QED
    BY <2>1
<1>10. DigitsValue(c \o z) = DigitsValue(c) * TenTo[k]
  BY <1>2, <1>3, <1>8, <1>9
<1>11. QED
  BY <1>1, <1>2, <1>4, <1>5, <1>6, <1>7, <1>8, <1>10

\* Of digits alone strconv.ParseInt makes their value, if it fits.
LEMMA ParseDigits ==
  ASSUME NEW body \in Seq(Chars), body # << >>, Digits(body)
  PROVE  ParseInt(body) = IF DigitsValue(body) <= MaxInt THEN Parsed(DigitsValue(body)) ELSE Failed
<1>1. Head(body) \notin {"-", "+"}
  <2>1. Len(body) \in Nat \ {0}
    BY EmptySeq
  <2>2. Head(body) = body[1] /\ 1 \in DOMAIN body
    BY <2>1
  <2>3. body[1] \in DOMAIN DigitOf
    BY <2>2 DEF Digits
  <2>4. \A c \in DOMAIN DigitOf : c # "-" /\ c # "+"
    BY DigitFacts
  <2>5. QED
    BY <2>2, <2>3, <2>4
<1>2. PICK n \in Nat : n = DigitsValue(body)
  BY HornerExists, ValueIs
<1>3. MaxInt \in Nat
  BY Widths
<1>4. n \in -MaxInt - 1 .. MaxInt <=> n <= MaxInt
  BY <1>3
<1>5. ParseInt(body) = IF n \in -MaxInt - 1 .. MaxInt THEN Parsed(n) ELSE Failed
  BY <1>1, <1>2 DEF ParseInt
<1>6. QED
  BY <1>2, <1>4, <1>5

\* A text of digits, with a point between two of them if any.
IsDecimal(text, scale) ==
  /\ text \in Seq(Chars)
  /\ Point(text) > 1 /\ Point(text) # Len(text) /\ Len(FracPart(text)) <= scale
  /\ Digits(IntPart(text)) /\ Digits(FracPart(text))

UnitsOf(text, scale) ==
  DigitsValue(IntPart(text) \o FracPart(text) \o Zeros(scale - Len(FracPart(text))))

\* It parses when its units fit an int64.
LEMMA ParseDecimal ==
  ASSUME NEW text, NEW scale \in Nat, IsDecimal(text, scale)
  PROVE  /\ UnitsOf(text, scale) \in Nat
         /\ UnitsOf(text, scale) <= MaxInt =>
              parseFixedPoint(text, scale) = Parsed(UnitsOf(text, scale))
<1>1. PICK a, b : a = IntPart(text) /\ b = FracPart(text)
  OBVIOUS
<1>2. /\ text \in Seq(Chars) /\ a \in Seq(Chars) /\ b \in Seq(Chars) /\ Digits(a) /\ Digits(b)
      /\ Len(b) \in Nat /\ Len(b) <= scale
      /\ Len(a) \in Nat /\ Len(a) # 0 /\ a[1] = text[1] /\ Len(text) \in Nat /\ Len(text) # 0
  <2>1. /\ text \in Seq(Chars) /\ a \in Seq(Chars) /\ b \in Seq(Chars)
        /\ Len(a) = Point(text) - 1 /\ Len(text) \in Nat /\ Point(text) \in 1 .. Len(text) + 1
        /\ \A i \in 1 .. Point(text) - 1 : a[i] = text[i]
    BY <1>1, Parts DEF IsDecimal
  <2>2. Point(text) > 1 /\ Digits(a) /\ Digits(b) /\ Len(b) <= scale
    BY <1>1 DEF IsDecimal
  <2>3. QED
    BY <2>1, <2>2
<1>3. a # << >> /\ text # << >> /\ Head(text) = text[1]
  BY <1>2
<1>4. Head(text) # "-"
  <2>1. a[1] \in DOMAIN DigitOf
    BY <1>2 DEF Digits
  <2>2. \A c \in DOMAIN DigitOf : c # "-"
    BY DigitFacts
  <2>3. QED
    BY <1>2, <1>3, <2>1, <2>2
<1>5. PICK k \in Nat : k = scale - Len(b)
  BY <1>2
<1>6. PICK body : body = a \o b \o Zeros(k)
  OBVIOUS
<1>7. /\ body \in Seq(Chars) /\ Len(body) = (Len(a) + Len(b)) + k /\ Digits(body)
      /\ DigitsValue(body) = DigitsValue(a \o b) * TenTo[k]
      /\ DigitsValue(a \o b) \in Nat
  BY ZenonT(30), <1>2, <1>6, ZerosAfter
<1>8. body # << >>
  <2>1. Len(body) # 0
    BY <1>2, <1>7
  <2>2. QED
    BY <2>1, EmptySeq
<1>9. DigitsValue(body) \in Nat
  BY <1>7, HornerExists, ValueIs
<1>10. UnitsOf(text, scale) = DigitsValue(body)
  BY <1>1, <1>5, <1>6 DEF UnitsOf
<1>11. ASSUME DigitsValue(body) <= MaxInt
       PROVE  parseFixedPoint(text, scale) = Parsed(DigitsValue(body))
  <2>1. ParseInt(body) = Parsed(DigitsValue(body))
    BY <1>7, <1>8, <1>11, ParseDigits
  <2>2. ParseInt(body).ok /\ ParseInt(body).units = DigitsValue(body)
    BY <2>1 DEF Parsed
  <2>3. Point(text) # Len(text) /\ ~(Len(b) > scale)
    BY <1>1, <1>2 DEF IsDecimal
  <2>4. ParseInt(IntPart(text) \o FracPart(text) \o Zeros(scale - Len(FracPart(text)))) = ParseInt(body)
    BY <1>1, <1>5, <1>6
  <2>5. QED
    BY <1>1, <1>3, <1>4, <2>2, <2>3, <2>4 DEF parseFixedPoint
<1>12. QED
  BY <1>9, <1>10, <1>11

\* Reading and formatting again gives the same units.
LEMMA FormattedParses ==
  ASSUME NEW text, NEW n \in Nat, n <= MaxInt, NEW scale \in Nat \ {0}, IsFormatted(text, n, scale)
  PROVE  parseFixedPoint(text, scale) = Parsed(n)
<1>1. PICK a, b : a = IntPart(text) /\ b = FracPart(text)
  OBVIOUS
<1>2. /\ text \in Seq(Chars) /\ a \in Seq(Chars) /\ b \in Seq(Chars) /\ Digits(a) /\ Digits(b)
      /\ Len(b) = scale /\ DigitsValue(a \o b) = n
  BY <1>1, Parts DEF IsFormatted
<1>3. IsDecimal(text, scale)
  <2>1. Len(text) \in Nat /\ Point(text) \in 1 .. Len(text) + 1
    BY <1>2, Parts
  <2>2. Point(text) > 1 /\ Point(text) < Len(text) /\ Len(FracPart(text)) = scale
        /\ Digits(IntPart(text)) /\ Digits(FracPart(text))
    BY DEF IsFormatted
  <2>3. QED
    BY <1>2, <2>1, <2>2 DEF IsDecimal
<1>4. UnitsOf(text, scale) = n
  <2>1. scale - Len(b) = 0
    BY <1>2
  <2>2. UnitsOf(text, scale) = DigitsValue(a \o b \o Zeros(0))
    BY <1>1, <2>1 DEF UnitsOf
  <2>3. DigitsValue(a \o b \o Zeros(0)) = DigitsValue(a \o b) * TenTo[0]
    <3>1. 0 \in Nat
      OBVIOUS
    <3>2. QED
      BY ZenonT(30), <1>2, <3>1, ZerosAfter
  <2>4. QED
    BY <1>2, <2>2, <2>3, PowersOfTen
<1>5. QED
  BY <1>3, <1>4, ParseDecimal

\* What is formatted passes the processor's expressions, unless it is zero.
LEMMA FormattedMatches ==
  ASSUME NEW text, NEW n \in Nat, NEW scale \in Nat \ {0}, IsFormatted(text, n, scale)
  PROVE  MatchesDecimal(text) /\ (n # 0 => isPositiveDecimal(text))
<1>1. PICK a, b, p : a = IntPart(text) /\ b = FracPart(text) /\ p = Point(text)
  OBVIOUS
<1>2. /\ text \in Seq(Chars) /\ a \in Seq(Chars) /\ b \in Seq(Chars) /\ Digits(a) /\ Digits(b)
      /\ Len(b) = scale /\ DigitsValue(a \o b) = n /\ p > 1 /\ p < Len(text)
  BY <1>1, Parts DEF IsFormatted
<1>3. /\ Len(text) \in Nat /\ p \in 1 .. Len(text) + 1
      /\ Len(a) = p - 1 /\ \A i \in 1 .. p - 1 : a[i] = text[i]
      /\ Len(b) = Len(text) - p /\ \A i \in 1 .. Len(text) - p : b[i] = text[p + i]
  BY <1>1, <1>2, Parts
<1>4. text[p] = "."
  BY <1>1, <1>2, <1>3, PointOf DEF IsPoint
<1>5. MatchesDecimal(text)
  <2>1. p \in 2 .. Len(text) + 1
    BY <1>2, <1>3
  <2>2. a = SubSeq(text, 1, p - 1) /\ b = SubSeq(text, p + 1, Len(text))
    BY <1>1 DEF IntPart, FracPart
  <2>3. QED
    BY <1>2, <1>4, <2>1, <2>2 DEF MatchesDecimal
<1>6. ASSUME ~\E i \in DOMAIN text : text[i] \in DOMAIN DigitOf \ {"0"} PROVE n = 0
  <2>1. \A i \in 1 .. Len(a) : a[i] = "0"
    <3>1. \A i \in 1 .. Len(a) : a[i] \in DOMAIN DigitOf
      BY <1>2 DEF Digits
    <3>2. \A i \in 1 .. Len(a) : i \in DOMAIN text /\ a[i] = text[i]
      BY <1>2, <1>3
    <3>3. QED
      BY <1>6, <3>1, <3>2
  <2>2. \A i \in 1 .. Len(b) : b[i] = "0"
    <3>1. \A i \in 1 .. Len(b) : b[i] \in DOMAIN DigitOf
      BY <1>2 DEF Digits
    <3>2. \A i \in 1 .. Len(b) : p + i \in DOMAIN text /\ b[i] = text[p + i]
      BY <1>2, <1>3
    <3>3. QED
      BY <1>6, <3>1, <3>2
  <2>3. DigitsValue(a) = 0 /\ DigitsValue(b) = 0
    BY <1>2, <2>1, <2>2, ZeroDigits
  <2>4. DigitsValue(a \o b) = DigitsValue(a) * TenTo[Len(b)] + DigitsValue(b)
    BY <1>2, ConcatValue
  <2>5. TenTo[Len(b)] \in Nat
    BY <1>2, PowersOfTen
  <2>6. QED
    BY <1>2, <2>3, <2>4, <2>5
<1>7. QED
  BY <1>5, <1>6 DEF isPositiveDecimal

-----------------------------------------------------------------------------
(* The number a text writes, place by place.                               *)

\* The digits of a text, each worth its power of ten, add up to its value:
\* "pos" says where f has the value of each of them.
LEMMA PlaceValues ==
  ASSUME NEW b \in Seq(Chars), Digits(b), NEW e \in Nat, NEW pos, NEW f,
         \A i, j \in 1 .. Len(b) : pos[i] = pos[j] => i = j,
         \A j \in 1 .. Len(b) : f[pos[j]] = DigitOf[b[j]] * TenTo[e + (Len(b) - j)]
  PROVE  SumFunctionOnSet(f, ImageOf(pos, 1 .. Len(b))) = DigitsValue(b) * TenTo[e]
<1>1. PICK k \in Nat : k = Len(b)
  OBVIOUS
<1>2. PICK w : /\ Horner(w, b) /\ DigitsValue(b) = w[k] /\ \A i \in 0 .. k : w[i] \in Nat
  BY <1>1, HornerExists
<1>3. \A j \in 1 .. k : DigitOf[b[j]] \in Nat
  <2>1. \A j \in 1 .. k : b[j] \in DOMAIN DigitOf
    BY <1>1 DEF Digits
  <2>2. \A c \in DOMAIN DigitOf : DigitOf[c] \in 0 .. 9
    BY DigitFacts
  <2>3. QED
    BY <2>1, <2>2
<1>4. \A j \in 1 .. k : f[pos[j]] \in Int
  <2> TAKE j \in 1 .. k
  <2>1. e + (k - j) \in Nat
    BY <1>1
  <2>2. PICK x \in Nat, y \in Nat : x = DigitOf[b[j]] /\ y = TenTo[e + (k - j)]
    BY <1>3, <2>1, PowersOfTen
  <2>3. f[pos[j]] = x * y
    BY <1>1, <2>2
  <2>4. QED
    BY <2>3
<1> DEFINE Img(j) == ImageOf(pos, 1 .. j)
           I == {j \in Nat : j <= k => SumFunctionOnSet(f, Img(j)) = w[j] * TenTo[e + (k - j)]}
<1>5. 0 \in I
  <2>1. Img(0) = {}
    BY DEF ImageOf
  <2> HIDE DEF Img
  <2>2. w[0] = 0 /\ TenTo[e + (k - 0)] \in Nat
    <3>1. e + (k - 0) \in Nat
      OBVIOUS
    <3>2. QED
      BY <1>2, <3>1, PowersOfTen DEF Horner
  <2>3. w[0] * TenTo[e + (k - 0)] = 0
    BY <2>2
  <2>4. SumFunctionOnSet(f, Img(0)) = 0
    BY <2>1, SumEmpty
  <2>5. QED
    BY <2>3, <2>4
<1>6. ASSUME NEW j \in Nat, j \in I PROVE j + 1 \in I
  <2> SUFFICES ASSUME j + 1 <= k
               PROVE  SumFunctionOnSet(f, Img(j + 1)) = w[j + 1] * TenTo[e + (k - (j + 1))]
    OBVIOUS
  <2>1. j + 1 \in 1 .. k /\ j \in 0 .. k /\ (j + 1) - 1 = j /\ \A i \in 1 .. j : i \in 1 .. k
    OBVIOUS
  <2>2. PICK x : x = pos[j + 1]
    OBVIOUS
  <2>3. Img(j + 1) = Img(j) \union {x}
    <3>1. 1 .. (j + 1) = (1 .. j) \union {j + 1}
      OBVIOUS
    <3>2. QED
      BY <2>2, <3>1 DEF ImageOf
  <2>4. x \notin Img(j)
    <3>1. ASSUME NEW i \in 1 .. j, pos[i] = x PROVE FALSE
      <4>1. i = j + 1
        BY <1>1, <2>1, <2>2, <3>1
      <4>2. QED
        BY <4>1
    <3>2. QED
      BY <3>1 DEF ImageOf
  <2>5. \A y \in Img(j) \union {x} : f[y] \in Int
    BY <1>4, <2>1, <2>2 DEF ImageOf
  <2>6. IsFiniteSet(Img(j))
    <3>1. IsFiniteSet(1 .. j)
      BY FS_Interval
    <3>2. QED
      BY <3>1, FiniteImage
  <2>7. SumFunctionOnSet(f, Img(j)) = w[j] * TenTo[e + (k - j)]
    BY <1>6, <2>1
  <2> HIDE DEF Img
  <2>8. SumFunctionOnSet(f, Img(j) \union {x}) = f[x] + SumFunctionOnSet(f, Img(j))
    BY <2>4, <2>5, <2>6, SumAdd
  <2>9. PICK h \in Nat : h = e + (k - (j + 1)) /\ h + 1 = e + (k - j)
    <3>1. e + (k - (j + 1)) \in Nat /\ (e + (k - (j + 1))) + 1 = e + (k - j)
      OBVIOUS
    <3>2. QED
      BY <3>1
  <2>10. PICK t \in Nat : t = TenTo[h] /\ TenTo[h + 1] = 10 * t
    BY PowersOfTen
  <2>11. PICK p \in Nat, d \in Nat : p = w[j] /\ d = DigitOf[b[j + 1]] /\ w[j + 1] = 10 * p + d
    <3>1. w[j] \in Nat /\ DigitOf[b[j + 1]] \in Nat
      BY <1>2, <1>3, <2>1
    <3>2. w[j + 1] = 10 * w[(j + 1) - 1] + DigitOf[b[j + 1]]
      BY <1>1, <1>2, <2>1 DEF Horner
    <3>3. w[j + 1] = 10 * w[j] + DigitOf[b[j + 1]]
      BY <2>1, <3>2
    <3>4. QED
      BY <3>1, <3>3
  <2>12. f[x] = d * t
    BY <1>1, <2>1, <2>2, <2>9, <2>10, <2>11
  <2>13. d * t + p * (10 * t) = (10 * p + d) * t
    OBVIOUS
  <2>14. SumFunctionOnSet(f, Img(j)) = p * (10 * t)
    BY <2>7, <2>9, <2>10, <2>11
  <2>15. SumFunctionOnSet(f, Img(j + 1)) = d * t + p * (10 * t)
    BY <2>3, <2>8, <2>12, <2>14
  <2>16. w[j + 1] * TenTo[e + (k - (j + 1))] = (10 * p + d) * t
    BY <2>9, <2>10, <2>11
  <2>17. QED
    BY <2>13, <2>15, <2>16
<1> HIDE DEF I, Img
<1>7. k \in I
  BY <1>5, <1>6, SetInduction
<1>8. SumFunctionOnSet(f, Img(k)) = w[k] * TenTo[e + (k - k)]
  BY <1>7 DEF I
<1>9. e + (k - k) = e
  OBVIOUS
<1>10. QED
  BY <1>1, <1>2, <1>8, <1>9 DEF Img

\* A text of c signs, the digits a, and the digits b after a point if any.
IsSigned(text, c, a, b) ==
  /\ text \in Seq(Chars)
  /\ c \in Nat /\ c < Point(text) /\ \A i \in 1 .. c : text[i] \in {"-", "+"}
  /\ a \in Seq(Chars) /\ Len(a) = Point(text) - 1 - c
  /\ \A i \in 1 .. Len(a) : a[i] = text[c + i]
  /\ b = FracPart(text) /\ Digits(a) /\ Digits(b)

\* Its magnitude is the value of its digits, at the places the point gives them.
LEMMA MagnitudeOf ==
  ASSUME NEW text, NEW c, NEW a, NEW b, IsSigned(text, c, a, b),
         NEW scale \in Nat, Len(b) <= scale
  PROVE  Magnitude(text, scale) = DigitsValue(a \o b) * TenTo[scale - Len(b)]
<1>1. /\ text \in Seq(Chars) /\ a \in Seq(Chars) /\ b \in Seq(Chars) /\ Digits(a) /\ Digits(b)
      /\ c \in Nat /\ \A i \in 1 .. c : text[i] \in {"-", "+"}
      /\ \A i \in 1 .. Len(a) : a[i] = text[c + i]
  BY Parts DEF IsSigned
<1>2. PICK P \in Nat, L \in Nat, m \in Nat, n \in Nat :
        /\ P = Point(text) /\ L = Len(text) /\ m = Len(a) /\ n = Len(b)
        /\ c + m + 1 = P /\ (P <= L => n = L - P) /\ (P > L => P = L + 1 /\ n = 0)
        /\ n <= scale
  <2>1. /\ Len(text) \in Nat /\ Point(text) \in 1 .. Len(text) + 1
        /\ Len(b) = IF Point(text) <= Len(text) THEN Len(text) - Point(text) ELSE 0
    BY <1>1, Parts DEF IsSigned
  <2>2. Len(a) \in Nat /\ Len(a) = Point(text) - 1 - c /\ Len(b) \in Nat
    BY <1>1 DEF IsSigned
  <2>3. c + Len(a) + 1 = Point(text)
    BY <1>1, <2>1, <2>2
  <2>4. QED
    BY <2>1, <2>2, <2>3
<1>3. \A i \in 1 .. n : P <= L /\ b[i] = text[P + i]
  <2>1. \A i \in 1 .. Len(text) - Point(text) : b[i] = text[Point(text) + i]
    BY <1>1, Parts DEF IsSigned
  <2>2. \A i \in 1 .. n : P <= L
    BY <1>2
  <2>3. QED
    BY <1>2, <2>1, <2>2
<1>4. P <= L => text[P] = "."
  BY SMTT(30), <1>1, <1>2, PointOf DEF IsPoint
<1>5. PICK d : d = a \o b
  OBVIOUS
<1>6. d \in Seq(Chars) /\ Len(d) = m + n /\ Digits(d)
      /\ \A j \in 1 .. m + n : d[j] = IF j <= m THEN a[j] ELSE b[j - m]
  BY <1>1, <1>2, <1>5, ConcatProperties, ConcatValue
<1> DEFINE pos == [j \in 1 .. m + n |-> IF j <= m THEN c + j ELSE P + (j - m)]
           place(i) == IF i < Point(text) THEN Point(text) - 1 - i ELSE Point(text) - i
           D == {i \in DOMAIN text : text[i] \in DOMAIN DigitOf}
           f == [i \in D |-> DigitOf[text[i]] * TenTo[scale + place(i)]]
<1>7. \A j \in 1 .. m + n : (j <= m => pos[j] = c + j) /\ (j > m => pos[j] = P + (j - m))
  OBVIOUS
<1> HIDE DEF pos
<1>8. ASSUME NEW j \in 1 .. m + n
      PROVE  pos[j] \in D /\ f[pos[j]] = DigitOf[d[j]] * TenTo[(scale - n) + ((m + n) - j)]
  <2>1. CASE j <= m
    <3>1. PICK i \in Nat : i = c + j /\ i \in 1 .. L /\ i < P /\ i = pos[j]
      <4>1. c + j \in Nat /\ c + j \in 1 .. L /\ c + j < P
        BY SMTT(30), <1>1, <1>2, <2>1
      <4>2. QED
        BY <1>7, <2>1, <4>1
    <3>2. text[i] = d[j]
      <4>1. j \in 1 .. Len(a) /\ d[j] = a[j]
        BY <1>2, <1>6, <2>1
      <4>2. QED
        BY <1>1, <3>1, <4>1
    <3>3. d[j] \in DOMAIN DigitOf
      BY <1>6 DEF Digits
    <3>4. i \in DOMAIN text
      BY <1>1, <1>2, <3>1
    <3>5. scale + place(i) = (scale - n) + ((m + n) - j)
      <4>1. place(i) = P - 1 - i
        BY <1>2, <3>1
      <4>2. P - 1 - i = m - j
        BY <1>1, <1>2, <3>1
      <4>3. scale + (m - j) = (scale - n) + ((m + n) - j)
        OBVIOUS
      <4>4. QED
        BY <4>1, <4>2, <4>3
    <3> HIDE DEF place
    <3>6. QED
      BY <3>1, <3>2, <3>3, <3>4, <3>5
  <2>2. CASE j > m
    <3>1. PICK i \in Nat : i = P + (j - m) /\ i \in 1 .. L /\ ~(i < P) /\ i = pos[j] /\ j - m \in 1 .. n
      <4>1. j - m \in 1 .. n
        BY <2>2
      <4>2. P + (j - m) \in Nat /\ P + (j - m) \in 1 .. L /\ ~(P + (j - m) < P)
        BY <1>2, <4>1
      <4>3. QED
        BY <1>7, <2>2, <4>1, <4>2
    <3>2. text[i] = d[j]
      <4>1. d[j] = b[j - m]
        BY <1>6, <2>2
      <4>2. QED
        BY <1>3, <3>1, <4>1
    <3>3. d[j] \in DOMAIN DigitOf
      BY <1>6 DEF Digits
    <3>4. i \in DOMAIN text
      BY <1>1, <1>2, <3>1
    <3>5. scale + place(i) = (scale - n) + ((m + n) - j)
      <4>1. place(i) = P - i
        BY <1>2, <3>1
      <4>2. P - i = m - j
        BY <3>1
      <4>3. scale + (m - j) = (scale - n) + ((m + n) - j)
        OBVIOUS
      <4>4. QED
        BY <4>1, <4>2, <4>3
    <3> HIDE DEF place
    <3>6. QED
      BY <3>1, <3>2, <3>3, <3>4, <3>5
  <2>3. QED
    BY <2>1, <2>2
<1>9. ASSUME NEW i \in D PROVE \E j \in 1 .. m + n : pos[j] = i
  <2>1. i \in 1 .. L /\ text[i] \in DOMAIN DigitOf
    BY <1>1, <1>2
  <2>2. \A e \in DOMAIN DigitOf : e \notin {"-", "+", "."}
    BY DigitFacts
  <2>3. ~(i <= c)
    <3>1. i <= c => i \in 1 .. c
      BY <2>1
    <3>2. QED
      BY <1>1, <2>1, <2>2, <3>1
  <2>4. i # P
    BY <1>2, <1>4, <2>1, <2>2
  <2>5. CASE i < P
    <3>1. i - c \in 1 .. m + n /\ i - c <= m /\ c + (i - c) = i
      BY <1>1, <1>2, <2>1, <2>3, <2>5
    <3>2. QED
      BY <1>7, <3>1
  <2>6. CASE i > P
    <3>1. (i - P) + m \in 1 .. m + n /\ (i - P) + m > m /\ P + (((i - P) + m) - m) = i
      BY SMTT(30), <1>2, <2>1, <2>6
    <3>2. QED
      BY <1>7, <3>1
  <2>7. QED
    BY <1>2, <2>1, <2>4, <2>5, <2>6
<1>10. \A i, j \in 1 .. m + n : pos[i] = pos[j] => i = j
  <2>1. ASSUME NEW i \in 1 .. m + n, NEW j \in 1 .. m + n, pos[i] = pos[j] PROVE i = j
    <3>1. /\ i <= m => pos[i] = c + i
          /\ i > m => pos[i] = P + (i - m)
          /\ j <= m => pos[j] = c + j
          /\ j > m => pos[j] = P + (j - m)
      BY <1>7
    <3>2. QED
      BY SMTT(30), <1>1, <1>2, <2>1, <3>1
  <2>2. QED
    BY <2>1
<1>11. ImageOf(pos, 1 .. m + n) = D
  BY <1>8, <1>9 DEF ImageOf
<1>12. Magnitude(text, scale) = SumFunction(f)
  BY DEF Magnitude
<1>13. SumFunction(f) = SumFunctionOnSet(f, D)
  BY DEF SumFunction
<1> HIDE DEF f, D
<1>14. SumFunctionOnSet(f, ImageOf(pos, 1 .. Len(d))) = DigitsValue(d) * TenTo[scale - n]
  <2>1. d \in Seq(Chars) /\ Digits(d)
    BY <1>6
  <2>2. scale - n \in Nat
    BY <1>2
  <2>. PICK e \in Nat : e = scale - n
    BY <2>2
  <2>3. PICK g, q : e = scale - n /\ g = f /\ q = pos
    OBVIOUS
  <2>4. \A i, j \in 1 .. Len(d) : q[i] = q[j] => i = j
    BY <1>6, <1>10, <2>3
  <2>5. \A j \in 1 .. Len(d) : g[q[j]] = DigitOf[d[j]] * TenTo[e + (Len(d) - j)]
    BY <1>6, <1>8, <2>3
  <2>6. SumFunctionOnSet(g, ImageOf(q, 1 .. Len(d))) = DigitsValue(d) * TenTo[e]
    BY <2>1, <2>4, <2>5, PlaceValues
  <2>7. QED
    BY <2>3, <2>6
<1>15. QED
  BY <1>2, <1>5, <1>6, <1>11, <1>12, <1>13, <1>14

-----------------------------------------------------------------------------
(* What the parser lets through.                                           *)

\* A first character and what follows it.
LEMMA FirstOf ==
  ASSUME NEW x \in Chars, NEW r \in Seq(Chars)
  PROVE  /\ <<x>> \o r \in Seq(Chars) /\ Len(<<x>> \o r) = Len(r) + 1
         /\ Head(<<x>> \o r) = x /\ Tail(<<x>> \o r) = r
         /\ (<<x>> \o r)[1] = x /\ \A i \in 1 .. Len(r) : (<<x>> \o r)[1 + i] = r[i]
<1>1. PICK s : s = <<x>> \o r
  OBVIOUS
<1>2. <<x>> \in Seq(Chars) /\ Len(<<x>>) = 1 /\ <<x>>[1] = x
  OBVIOUS
<1>3. /\ s \in Seq(Chars) /\ Len(s) = 1 + Len(r)
      /\ \A i \in 1 .. 1 + Len(r) : s[i] = IF i <= 1 THEN <<x>>[i] ELSE r[i - 1]
  BY <1>1, <1>2, ConcatProperties
<1>4. Len(r) \in Nat
  OBVIOUS
<1>5. Len(s) = Len(r) + 1 /\ s # << >> /\ s[1] = x
  BY <1>2, <1>3, <1>4
<1>6. \A i \in 1 .. Len(r) : s[1 + i] = r[i]
  <2> TAKE i \in 1 .. Len(r)
  <2>1. 1 + i \in 1 .. 1 + Len(r) /\ ~(1 + i <= 1) /\ (1 + i) - 1 = i
    BY <1>4
  <2>2. QED
    BY <1>3, <2>1
<1>7. Tail(s) = r
  <2>1. /\ Tail(s) \in Seq(Chars) /\ Len(Tail(s)) = Len(s) - 1
        /\ \A i \in 1 .. Len(Tail(s)) : Tail(s)[i] = s[i + 1]
    BY <1>3, <1>5, HeadTailProperties
  <2>2. Len(Tail(s)) = Len(r)
    BY <1>4, <1>5, <2>1
  <2>3. \A i \in 1 .. Len(r) : Tail(s)[i] = r[i]
    <3> TAKE i \in 1 .. Len(r)
    <3>1. i + 1 = 1 + i
      OBVIOUS
    <3>2. QED
      BY <1>6, <2>1, <2>2, <3>1
  <2>4. QED
    BY <2>1, <2>2, <2>3, SeqEqual
<1>8. Head(s) = x
  BY <1>3, <1>5
<1>9. QED
  BY <1>1, <1>3, <1>5, <1>6, <1>7, <1>8

\* A text that is not empty is its head before its tail.
LEMMA FirstAndRest ==
  ASSUME NEW s \in Seq(Chars), s # << >>
  PROVE  Head(s) \in Chars /\ Tail(s) \in Seq(Chars) /\ s = <<Head(s)>> \o Tail(s)
<1>1. PICK r : r = Tail(s)
  OBVIOUS
<1>2. /\ Head(s) \in Chars /\ r \in Seq(Chars) /\ Len(r) = Len(s) - 1
      /\ \A i \in 1 .. Len(r) : r[i] = s[i + 1]
  BY <1>1, HeadTailProperties
<1>3. PICK x, t : x \in Chars /\ x = Head(s) /\ t = <<x>> \o r
  BY <1>2
<1>4. /\ t \in Seq(Chars) /\ Len(t) = Len(r) + 1
      /\ t[1] = x /\ \A i \in 1 .. Len(r) : t[1 + i] = r[i]
  BY <1>2, <1>3, FirstOf
<1>5. Len(s) \in Nat \ {0} /\ s[1] = x
  BY <1>3, EmptySeq
<1>6. ASSUME NEW i \in 1 .. Len(s) PROVE s[i] = t[i]
  <2>1. CASE i = 1
    BY <1>4, <1>5, <2>1
  <2>2. CASE i # 1
    <3>1. i - 1 \in 1 .. Len(r) /\ (i - 1) + 1 = i /\ 1 + (i - 1) = i
      BY <1>2, <1>5, <2>2
    <3>2. r[i - 1] = s[(i - 1) + 1] /\ t[1 + (i - 1)] = r[i - 1]
      BY <1>2, <1>4, <3>1
    <3>3. QED
      BY <3>1, <3>2
  <2>3. QED
    BY <2>1, <2>2
<1>7. Len(s) = Len(t)
  BY <1>2, <1>4, <1>5
<1>8. s = t
  BY <1>4, <1>6, <1>7, SeqEqual
<1>9. QED
  BY <1>1, <1>2, <1>3, <1>8

\* The parts of a text of digits are texts of digits.
LEMMA DigitsOfParts ==
  ASSUME NEW a \in Seq(Chars), NEW b \in Seq(Chars), Digits(a \o b)
  PROVE  Digits(a) /\ Digits(b)
<1>1. PICK s : s = a \o b
  OBVIOUS
<1>2. /\ s \in Seq(Chars) /\ Len(s) = Len(a) + Len(b) /\ Len(a) \in Nat /\ Len(b) \in Nat
      /\ \A i \in 1 .. Len(a) + Len(b) : s[i] = IF i <= Len(a) THEN a[i] ELSE b[i - Len(a)]
  BY <1>1, ConcatProperties
<1>3. \A i \in 1 .. Len(a) + Len(b) : s[i] \in DOMAIN DigitOf
  <2>1. Digits(s) /\ s \in Seq(Chars) /\ Len(s) = Len(a) + Len(b)
    BY <1>1, <1>2
  <2>2. DOMAIN s = 1 .. Len(a) + Len(b)
    BY <2>1
  <2>3. QED
    BY <2>1, <2>2 DEF Digits
<1>4. \A i \in 1 .. Len(a) : a[i] \in DOMAIN DigitOf
  <2> TAKE i \in 1 .. Len(a)
  <2>1. i \in 1 .. Len(a) + Len(b) /\ i <= Len(a)
    BY <1>2
  <2>2. QED
    BY <1>2, <1>3, <2>1
<1>5. \A i \in 1 .. Len(b) : b[i] \in DOMAIN DigitOf
  <2> TAKE i \in 1 .. Len(b)
  <2>1. Len(a) + i \in 1 .. Len(a) + Len(b) /\ ~(Len(a) + i <= Len(a)) /\ (Len(a) + i) - Len(a) = i
    BY <1>2
  <2>2. s[Len(a) + i] = b[i]
    BY <1>2, <2>1
  <2>3. QED
    BY <1>3, <2>1, <2>2
<1>6. QED
  BY <1>4, <1>5 DEF Digits

\* What ParseInt makes of a text with c signs, its own, and then the digits a.
IsParsed(text, c, a, b, k, v, u) ==
  /\ IsSigned(text, c, a, b)
  /\ v \in Nat /\ v = DigitsValue(a \o b) * TenTo[k]
  /\ u \in -MaxInt - 1 .. MaxInt
  /\ c = 1 /\ text[1] = "-" => u = -v
  /\ ~(c = 1 /\ text[1] = "-") => u = v

\* When it succeeds, the text has at most one sign before its digits.
LEMMA ParseSigned ==
  ASSUME NEW text \in Seq(Chars), NEW scale \in Nat, IntPart(text) # << >>,
         NEW a0, a0 = IntPart(text), NEW b, b = FracPart(text), Len(b) <= scale,
         NEW result, result = ParseInt(a0 \o b \o Zeros(scale - Len(b))), result.ok
  PROVE  \E c \in {0, 1} : \E a, v : IsParsed(text, c, a, b, scale - Len(b), v, result.units)
<1>1. /\ a0 \in Seq(Chars) /\ Len(a0) = Point(text) - 1 /\ b \in Seq(Chars)
      /\ \A i \in 1 .. Point(text) - 1 : a0[i] = text[i]
      /\ Len(text) \in Nat /\ Point(text) \in 1 .. Len(text) + 1
  BY Parts
<1>2. Len(b) \in Nat /\ Len(a0) \in Nat \ {0} /\ Point(text) > 1
  <2>1. Len(a0) \in Nat \ {0}
    BY <1>1, EmptySeq
  <2>2. QED
    BY <1>1, <2>1
<1>3. PICK k \in Nat : k = scale - Len(b)
  BY <1>2
<1>4. PICK z : z = Zeros(k) /\ z \in Seq(Chars)
  <2>1. "0" \in Chars
    BY DigitFacts DEF Chars, DigitOf
  <2>2. Zeros(k) \in [1 .. k -> Chars]
    BY <2>1 DEF Zeros
  <2>3. QED
    BY <2>2
<1>5. PICK body : body = a0 \o b \o z
  OBVIOUS
<1>6. PICK x \in Chars, r \in Seq(Chars) : x = Head(a0) /\ r = Tail(a0) /\ a0 = <<x>> \o r
  BY <1>1, FirstAndRest
<1>7. x = text[1] /\ x = a0[1]
  <2>1. 1 \in 1 .. Point(text) - 1
    BY <1>1, <1>2
  <2>2. a0[1] = x
    BY <1>6, FirstOf
  <2>3. QED
    BY <1>1, <2>1, <2>2
<1>8. PICK t : t = r \o b \o z /\ t \in Seq(Chars)
  BY <1>1, <1>4, <1>6, ConcatProperties
<1>9. body = <<x>> \o t
  <2>1. <<x>> \in Seq(Chars) /\ r \o b \in Seq(Chars)
    BY <1>1, <1>6, ConcatProperties
  <2>2. (<<x>> \o r) \o b = <<x>> \o (r \o b)
    BY SMTT(30), <1>1, <1>6, <2>1, ConcatAssociative
  <2>3. (<<x>> \o (r \o b)) \o z = <<x>> \o ((r \o b) \o z)
    BY SMTT(30), <1>4, <2>1, ConcatAssociative
  <2>4. QED
    BY <1>5, <1>6, <1>8, <2>2, <2>3
<1>10. body \in Seq(Chars) /\ body # << >> /\ Head(body) = x /\ Tail(body) = t
  <2>1. body \in Seq(Chars) /\ Len(body) = Len(t) + 1 /\ Head(body) = x /\ Tail(body) = t
    BY SMTT(30), <1>8, <1>9, FirstOf
  <2>2. Len(t) \in Nat
    BY <1>8
  <2>3. QED
    BY <2>1, <2>2
<1>11. ParseInt(body).ok /\ result = ParseInt(body)
  BY <1>3, <1>4, <1>5
<1>12. ~Failed.ok
  BY DEF Failed
<1>13. CASE x \in {"-", "+"}
  <2>1. PICK n, u : n = DigitsValue(t) /\ u = IF x = "-" THEN -n ELSE n
    OBVIOUS
  <2>2. ParseInt(body) = IF t # << >> /\ Digits(t) /\ u \in -MaxInt - 1 .. MaxInt
                         THEN Parsed(u) ELSE Failed
    BY <1>10, <1>13, <2>1 DEF ParseInt
  <2>3. Digits(t) /\ u \in -MaxInt - 1 .. MaxInt /\ ParseInt(body) = Parsed(u)
    BY <1>11, <1>12, <2>2
  <2>4. u = ParseInt(body).units
    BY <2>3 DEF Parsed
  <2>5. Digits(r) /\ Digits(b)
    <3>1. r \o b \in Seq(Chars)
      BY <1>1, <1>6, ConcatProperties
    <3>2. Digits(r \o b)
      BY <1>4, <1>8, <2>3, <3>1, DigitsOfParts
    <3>3. QED
      BY <1>1, <1>6, <3>2, DigitsOfParts
  <2>6. n = DigitsValue(r \o b) * TenTo[k] /\ n \in Nat
    <3>1. DigitsValue(r \o b \o Zeros(k)) = DigitsValue(r \o b) * TenTo[k]
      <4>1. b \in Seq(Chars)
        BY <1>1
      <4>2. QED
        BY ZenonT(30), <2>5, <4>1, ZerosAfter
    <3>2. n \in Nat
      BY <1>8, <2>1, <2>3, HornerExists, ValueIs
    <3>3. QED
      BY <1>4, <1>8, <2>1, <3>1, <3>2
  <2>7. IsSigned(text, 1, r, b)
    <3>1. 1 \in Nat /\ 1 < Point(text) /\ \A i \in 1 .. 1 : text[i] \in {"-", "+"}
      BY <1>1, <1>2, <1>7, <1>13
    <3>2. Len(a0) = Len(r) + 1 /\ (\A i \in 1 .. Len(r) : a0[1 + i] = r[i]) /\ Len(r) \in Nat
      BY <1>6, FirstOf
    <3>3. Len(r) = Point(text) - 1 - 1
      BY <1>1, <3>2
    <3>4. \A i \in 1 .. Len(r) : r[i] = text[1 + i]
      <4>1. \A i \in 1 .. Len(r) : 1 + i \in 1 .. Point(text) - 1
        BY <1>1, <3>3
      <4>2. QED
        BY <1>1, <3>2, <4>1
    <3>5. QED
      BY <1>6, <2>5, <3>1, <3>3, <3>4 DEF IsSigned
  <2>8. (x = "-" => u = -n) /\ (x # "-" => u = n) /\ u \in Int
    BY <2>1, <2>6
  <2>9. IsParsed(text, 1, r, b, k, n, u)
    BY <1>7, <2>3, <2>6, <2>7, <2>8 DEF IsParsed
  <2>10. QED
    BY <1>3, <1>11, <2>4, <2>9
<1>14. CASE x \notin {"-", "+"}
  <2>1. PICK n : n = DigitsValue(body)
    OBVIOUS
  <2>2. ParseInt(body) = IF Digits(body) /\ n \in -MaxInt - 1 .. MaxInt
                         THEN Parsed(n) ELSE Failed
    BY <1>10, <1>14, <2>1 DEF ParseInt
  <2>3. Digits(body) /\ n \in -MaxInt - 1 .. MaxInt /\ ParseInt(body) = Parsed(n)
    BY <1>11, <1>12, <2>2
  <2>4. n = ParseInt(body).units
    BY <2>3 DEF Parsed
  <2>5. Digits(a0) /\ Digits(b)
    <3>1. a0 \o b \in Seq(Chars)
      BY <1>1, ConcatProperties
    <3>2. Digits(a0 \o b)
      BY <1>4, <1>5, <2>3, <3>1, DigitsOfParts
    <3>3. QED
      BY <1>1, <3>2, DigitsOfParts
  <2>6. n = DigitsValue(a0 \o b) * TenTo[k] /\ n \in Nat
    <3>1. DigitsValue(a0 \o b \o Zeros(k)) = DigitsValue(a0 \o b) * TenTo[k]
      BY <1>1, <2>5, ZerosAfter
    <3>2. n \in Nat
      BY <1>10, <2>1, <2>3, HornerExists, ValueIs
    <3>3. QED
      BY <1>4, <1>5, <2>1, <3>1, <3>2
  <2>7. IsSigned(text, 0, a0, b)
    <3>1. 0 \in Nat /\ 0 < Point(text) /\ \A i \in 1 .. 0 : text[i] \in {"-", "+"}
      BY <1>1, <1>2
    <3>2. Len(a0) = Point(text) - 1 - 0
      BY <1>1
    <3>3. \A i \in 1 .. Len(a0) : a0[i] = text[0 + i]
      <4>1. \A i \in 1 .. Len(a0) : i \in 1 .. Point(text) - 1 /\ 0 + i = i
        BY <1>1
      <4>2. QED
        BY <1>1, <4>1
    <3>4. QED
      BY <1>1, <2>5, <3>1, <3>2, <3>3 DEF IsSigned
  <2>8. n \in Int
    BY <2>6
  <2>9. IsParsed(text, 0, a0, b, k, n, n)
    BY <2>3, <2>6, <2>7 DEF IsParsed
  <2>10. QED
    BY <1>3, <1>11, <2>4, <2>9
<1>15. QED
  BY <1>13, <1>14

\* The text after a minus sign, seen from the whole.
LEMMA SignedAfterMinus ==
  ASSUME NEW text \in Seq(Chars), NEW s \in Seq(Chars), s = <<"-">> \o text,
         NEW c, NEW a, NEW b, IsSigned(text, c, a, b)
  PROVE  IsSigned(s, c + 1, a, b) /\ s[1] = "-" /\ (c > 0 => s[2] = text[1])
<1>1. /\ Len(text) \in Nat /\ Len(s) = Len(text) + 1 /\ s[1] = "-"
      /\ \A i \in 1 .. Len(text) : s[1 + i] = text[i]
  <2>1. "-" \in Chars
    BY DEF Chars
  <2>2. QED
    BY <2>1, FirstOf
<1>2. PICK p, L \in Nat : p = Point(text) /\ L = Len(text) /\ p \in 1 .. L + 1
  BY Parts
<1>3. /\ c \in Nat /\ c < p /\ \A i \in 1 .. c : text[i] \in {"-", "+"}
      /\ a \in Seq(Chars) /\ Len(a) = p - 1 - c
      /\ \A i \in 1 .. Len(a) : a[i] = text[c + i]
      /\ b = FracPart(text) /\ Digits(a) /\ Digits(b)
  BY <1>2 DEF IsSigned
<1>4. \A i \in 2 .. L + 1 : s[i] = text[i - 1]
  <2> TAKE i \in 2 .. L + 1
  <2>1. i - 1 \in 1 .. L /\ 1 + (i - 1) = i
    OBVIOUS
  <2>2. QED
    BY <1>1, <1>2, <2>1
<1>5. Point(s) = p + 1
  <2>1. /\ p \in 1 .. L + 1 /\ (\A i \in 1 .. L : i < p => text[i] # ".")
        /\ p <= L => text[p] = "."
    BY <1>2, PointOf DEF IsPoint
  <2>2. \A i \in 1 .. L + 1 : i < p + 1 => s[i] # "."
    <3> TAKE i \in 1 .. L + 1
    <3>1. CASE i = 1
      BY <1>1, <3>1
    <3>2. CASE i # 1
      <4>1. i \in 2 .. L + 1 /\ i - 1 \in 1 .. L /\ (i < p + 1 => i - 1 < p)
        BY <2>1, <3>2
      <4>2. QED
        BY <1>4, <2>1, <4>1
    <3>3. QED
      BY <3>1, <3>2
  <2>3. p + 1 <= L + 1 => s[p + 1] = "."
    <3>1. p + 1 <= L + 1 => p <= L /\ p \in 1 .. L /\ 1 + p = p + 1
      BY <2>1
    <3>2. QED
      BY <1>1, <1>2, <2>1, <3>1
  <2>4. IsPoint(s, p + 1)
    BY <1>1, <1>2, <2>1, <2>2, <2>3 DEF IsPoint
  <2>5. QED
    BY <2>4, PointOf
<1>6. FracPart(s) = b
  <2>1. /\ FracPart(s) \in Seq(Chars)
        /\ Len(FracPart(s)) = IF Point(s) <= Len(s) THEN Len(s) - Point(s) ELSE 0
        /\ \A i \in 1 .. Len(s) - Point(s) : FracPart(s)[i] = s[Point(s) + i]
    BY Parts
  <2>2. /\ b \in Seq(Chars)
        /\ Len(b) = IF p <= L THEN L - p ELSE 0
        /\ \A i \in 1 .. L - p : b[i] = text[p + i]
    BY <1>2, <1>3, Parts
  <2>3. Len(FracPart(s)) = Len(b)
    BY <1>1, <1>2, <1>5, <2>1, <2>2
  <2>4. \A i \in 1 .. Len(b) : FracPart(s)[i] = b[i]
    <3> TAKE i \in 1 .. Len(b)
    <3>1. i \in 1 .. L - p /\ i \in 1 .. Len(s) - Point(s) /\ (p + 1) + i \in 2 .. L + 1
          /\ ((p + 1) + i) - 1 = p + i
      BY <1>1, <1>2, <1>5, <2>2
    <3>2. FracPart(s)[i] = s[(p + 1) + i]
      BY <1>5, <2>1, <3>1
    <3>3. s[(p + 1) + i] = text[((p + 1) + i) - 1]
      BY <1>4, <3>1
    <3>4. QED
      BY <2>2, <3>1, <3>2, <3>3
  <2>5. QED
    BY <2>1, <2>2, <2>3, <2>4, SeqEqual
<1>7. \A i \in 1 .. c + 1 : s[i] \in {"-", "+"}
  <2> TAKE i \in 1 .. c + 1
  <2>1. CASE i = 1
    BY <1>1, <2>1
  <2>2. CASE i # 1
    <3>1. i \in 2 .. L + 1 /\ i - 1 \in 1 .. c
      BY <1>2, <1>3, <2>2
    <3>2. QED
      BY <1>3, <1>4, <3>1
  <2>3. QED
    BY <2>1, <2>2
<1>8. \A i \in 1 .. Len(a) : a[i] = s[(c + 1) + i]
  <2> TAKE i \in 1 .. Len(a)
  <2>1. (c + 1) + i \in 2 .. L + 1 /\ ((c + 1) + i) - 1 = c + i
    BY <1>2, <1>3
  <2>2. QED
    BY <1>3, <1>4, <2>1
<1>9. c + 1 \in Nat /\ c + 1 < p + 1 /\ Len(a) = (p + 1) - 1 - (c + 1)
  BY <1>2, <1>3
<1>10. IsSigned(s, c + 1, a, b)
  BY <1>3, <1>5, <1>6, <1>7, <1>8, <1>9 DEF IsSigned
<1>11. c > 0 => s[2] = text[1]
  <2>1. c > 0 => 2 \in 2 .. L + 1 /\ 2 - 1 = 1
    BY <1>2, <1>3
  <2>2. QED
    BY <1>4, <2>1
<1>12. QED
  BY <1>1, <1>10, <1>11

\* The minus signs of a text are among its signs.
LEMMA NegationsOf ==
  ASSUME NEW text, NEW c, NEW a, NEW b, IsSigned(text, c, a, b)
  PROVE  /\ (\A i \in 1 .. c : text[i] # "-") => Negations(text) = 0
         /\ c = 2 /\ text[1] = "-" /\ text[2] = "-" => Negations(text) = 2
<1>1. PICK P, L \in Nat : P = Point(text) /\ L = Len(text) /\ P \in 1 .. L + 1 /\ text \in Seq(Chars)
  <2>1. text \in Seq(Chars)
    BY DEF IsSigned
  <2>2. Len(text) \in Nat /\ Point(text) \in 1 .. Len(text) + 1
    BY <2>1, Parts
  <2>3. QED
    BY <2>1, <2>2
<1>2. /\ c \in Nat /\ c < P /\ a \in Seq(Chars) /\ Len(a) = P - 1 - c
      /\ \A i \in 1 .. Len(a) : a[i] = text[c + i]
      /\ b = FracPart(text) /\ Digits(a) /\ Digits(b)
  BY <1>1 DEF IsSigned
<1>3. \A e \in DOMAIN DigitOf : e # "-"
  BY DigitFacts
<1>4. ASSUME NEW i \in 1 .. L, i > c PROVE text[i] # "-"
  <2>1. CASE i < P
    <3>1. i - c \in 1 .. Len(a) /\ c + (i - c) = i
      BY <1>1, <1>2, <1>4, <2>1
    <3>2. a[i - c] \in DOMAIN DigitOf
      BY <1>2, <3>1 DEF Digits
    <3>3. QED
      BY <1>2, <1>3, <3>1, <3>2
  <2>2. CASE i = P
    BY <1>1, <2>2, PointOf DEF IsPoint
  <2>3. CASE i > P
    <3>1. /\ b \in Seq(Chars) /\ Len(b) = IF P <= L THEN L - P ELSE 0
          /\ \A j \in 1 .. L - P : b[j] = text[P + j]
      BY <1>1, <1>2, Parts
    <3>2. i - P \in 1 .. L - P /\ P + (i - P) = i /\ P <= L
      BY <1>1, <2>3
    <3>3. b[i - P] \in DOMAIN DigitOf
      BY <1>2, <3>1, <3>2 DEF Digits
    <3>4. QED
      BY <1>3, <3>1, <3>2, <3>3
  <2>4. QED
    BY <1>1, <2>1, <2>2, <2>3
<1> DEFINE M == {i \in DOMAIN text : text[i] = "-"}
<1>5. DOMAIN text = 1 .. L
  BY <1>1
<1>6. ASSUME \A i \in 1 .. c : text[i] # "-" PROVE Negations(text) = 0
  <2>1. M = {}
    BY <1>2, <1>4, <1>5, <1>6
  <2>2. QED
    BY <2>1, FS_EmptySet DEF Negations
<1>7. ASSUME c = 2, text[1] = "-", text[2] = "-" PROVE Negations(text) = 2
  <2>1. \A i \in M : i = 1 \/ i = 2
    BY <1>4, <1>5, <1>7
  <2>2. 1 \in M /\ 2 \in M
    BY <1>1, <1>2, <1>5, <1>7
  <2>3. M = {1, 2}
    BY <2>1, <2>2
  <2>4. Cardinality({1, 2}) = 2
    <3>1. {1, 2} = {1} \union {2} /\ 2 \notin {1}
      OBVIOUS
    <3>2. IsFiniteSet({1}) /\ Cardinality({1}) = 1
      BY FS_Singleton
    <3>3. Cardinality({1} \union {2}) = 1 + 1
      BY <3>1, <3>2, FS_AddElement
    <3>4. QED
      BY <3>1, <3>3
  <2>5. QED
    BY <2>3, <2>4 DEF Negations
<1>8. QED
  BY <1>6, <1>7

\* One more than the largest wraps around to the least.
LEMMA WrapsAround ==
  Int64(MaxInt + 1) < 0
<1>1. PICK H \in Nat \ {0} : H = MaxInt + 1 /\ MaxInt = H - 1 /\ TwoTo[IntWidth] = 2 * H
  BY Widths
<1>2. PICK n \in Int : n = Int64(H) /\ -H <= n /\ n < H /\ (n - H) % (2 * H) = 0
  <2>1. /\ Int64(H) \in -MaxInt - 1 .. MaxInt
        /\ (Int64(H) - H) % TwoTo[IntWidth] = 0
    BY Int64Keeps
  <2>2. QED
    BY <1>1, <2>1
<1>3. PICK M \in Nat \ {0}, y \in Int : M = 2 * H /\ y = n - H
  OBVIOUS
<1>4. y + M \in Nat /\ y + M < M /\ y = M * (-1) + (y + M) /\ -1 \in Int
  BY <1>2, <1>3
<1>5. y + M = y % M
  BY <1>4, DivisionUnique
<1>6. QED
  BY <1>1, <1>2, <1>3, <1>5

\* A positive figure that parses is the number its text writes.
LEMMA Accepted ==
  ASSUME NEW s \in Seq(Chars), NEW scale \in Nat,
         NEW result, result = parseFixedPoint(s, scale), result.ok
  PROVE  /\ result.units \in Int
         /\ result.units > 0 => /\ result.units = Magnitude(s, scale)
                                /\ Negations(s) \in {0, 2}
<1> DEFINE negative == s # << >> /\ Head(s) = "-"
<1>1. PICK t \in Seq(Chars) : /\ t = IF negative THEN Tail(s) ELSE s
                              /\ negative => s = <<"-">> \o t
  <2>1. negative => Tail(s) \in Seq(Chars) /\ s = <<Head(s)>> \o Tail(s)
    BY FirstAndRest
  <2>2. QED
    BY <2>1
<1>2. PICK a0, b, inner : /\ a0 = IntPart(t) /\ b = FracPart(t)
                          /\ inner = ParseInt(a0 \o b \o Zeros(scale - Len(b)))
  OBVIOUS
<1>3. /\ a0 # << >> /\ ~(Len(b) > scale) /\ inner.ok
      /\ result.units = IF negative THEN Int64(-inner.units) ELSE inner.units
  <2>1. PICK n : n = IF negative THEN Int64(-inner.units) ELSE inner.units
    OBVIOUS
  <2>2. result = IF a0 = << >> \/ Point(t) = Len(t) \/ Len(b) > scale \/ ~inner.ok
                 THEN Failed ELSE Parsed(n)
    BY <1>1, <1>2, <2>1 DEF parseFixedPoint
  <2>3. ~Failed.ok /\ Parsed(n).units = n
    BY DEF Failed, Parsed
  <2>4. QED
    BY <2>1, <2>2, <2>3
<1> HIDE DEF negative
<1>4. b \in Seq(Chars) /\ Len(b) \in Nat /\ Len(b) <= scale
  <2>1. b \in Seq(Chars)
    BY <1>2, Parts
  <2>2. Len(b) \in Nat
    BY <2>1
  <2>3. QED
    BY <1>3, <2>1, <2>2
<1>5. PICK k \in Nat : k = scale - Len(b)
  BY SMTT(30), <1>4
<1>6. PICK c \in {0, 1} : \E a, v : IsParsed(t, c, a, b, k, v, inner.units)
  <2>1. IntPart(t) # << >> /\ a0 = IntPart(t) /\ b = FracPart(t) /\ Len(b) <= scale
        /\ inner = ParseInt(a0 \o b \o Zeros(scale - Len(b))) /\ inner.ok
    BY <1>2, <1>3, <1>4
  <2>2. \E c \in {0, 1} : \E a, v : IsParsed(t, c, a, b, scale - Len(b), v, inner.units)
    BY ZenonT(30), <2>1, ParseSigned
  <2>3. QED
    BY <1>5, <2>2
<1>7. PICK a, v, u : u = inner.units /\ IsParsed(t, c, a, b, k, v, u)
  BY <1>6
<1>8. /\ IsSigned(t, c, a, b) /\ v \in Nat /\ v = DigitsValue(a \o b) * TenTo[k]
      /\ u \in -MaxInt - 1 .. MaxInt
      /\ c = 1 /\ t[1] = "-" => u = -v
      /\ ~(c = 1 /\ t[1] = "-") => u = v
  BY <1>7 DEF IsParsed
<1>9. MaxInt \in Nat /\ u \in Int
  BY <1>8, Widths
<1>10. CASE ~negative
  <2>1. t = s /\ result.units = u
    BY <1>1, <1>3, <1>7, <1>10
  <2>2. c = 1 => s[1] # "-"
    <3>1. c = 1 => s # << >> /\ Head(s) = s[1]
      <4>1. c < Point(s) /\ Point(s) \in 1 .. Len(s) + 1 /\ Len(s) \in Nat
        BY <1>8, <2>1, Parts DEF IsSigned
      <4>2. c = 1 => Len(s) # 0
        BY <4>1
      <4>3. QED
        BY <4>2
    <3>2. QED
      BY <1>10, <3>1 DEF negative
  <2>3. u = v
    BY <1>8, <2>1, <2>2
  <2>4. Magnitude(s, scale) = v
    BY <1>4, <1>5, <1>8, <2>1, MagnitudeOf
  <2>5. Negations(s) = 0
    <3>1. \A i \in 1 .. c : s[i] # "-"
      BY <2>2
    <3>2. QED
      BY <1>8, <2>1, <3>1, NegationsOf
  <2>6. QED
    BY <1>9, <2>1, <2>3, <2>4, <2>5
<1>11. CASE negative
  <2>1. result.units = Int64(-u) /\ -u \in Int
    BY <1>3, <1>7, <1>9, <1>11
  <2>2. /\ Int64(-u) \in -MaxInt - 1 .. MaxInt
        /\ -u \in -MaxInt - 1 .. MaxInt => Int64(-u) = -u
    BY <2>1, Int64Keeps
  <2>3. Int64(-u) \in Int
    BY <1>9, <2>2
  <2>4. ASSUME Int64(-u) > 0 PROVE c = 1 /\ t[1] = "-" /\ Int64(-u) = v
    <3>1. c = 1 /\ t[1] = "-"
      <4>1. SUFFICES ASSUME u = v PROVE FALSE
        BY <1>8
      <4>2. -u \in -MaxInt - 1 .. MaxInt /\ ~(-u > 0)
        BY <1>8, <1>9, <4>1
      <4>3. QED
        BY <2>2, <2>4, <4>2
    <3>2. u = -v /\ -u = v
      BY <1>8, <3>1
    <3>3. v # MaxInt + 1
      <4>1. v = MaxInt + 1 => Int64(-u) < 0
        BY <3>2, WrapsAround
      <4>2. QED
        BY <2>3, <2>4, <4>1
    <3>4. v \in -MaxInt - 1 .. MaxInt
      BY SMTT(30), <1>8, <1>9, <3>2, <3>3
    <3>5. QED
      BY <2>2, <3>1, <3>2, <3>4
  <2>5. IsSigned(s, c + 1, a, b) /\ s[1] = "-" /\ (c > 0 => s[2] = t[1])
    BY <1>1, <1>8, <1>11, SignedAfterMinus
  <2>6. Magnitude(s, scale) = v
    BY <1>4, <1>5, <1>8, <2>5, MagnitudeOf
  <2>7. c = 1 /\ t[1] = "-" => Negations(s) = 2
    <3>1. c = 1 => c + 1 = 2 /\ c > 0
      OBVIOUS
    <3>2. QED
      BY <2>5, <3>1, NegationsOf
  <2>8. QED
    BY <2>1, <2>3, <2>4, <2>6, <2>7
<1>12. QED
  BY <1>10, <1>11

\* A plain decimal is parsed as what it writes, if that fits a column.
LEMMA PlainParses ==
  ASSUME NEW text \in Seq(Chars), NEW scale \in Nat, Plain(text, scale)
  PROVE  /\ Magnitude(text, scale) \in Nat
         /\ FitsColumn(Magnitude(text, scale)) =>
              parseFixedPoint(text, scale) = Parsed(Magnitude(text, scale))
<1>1. PICK L \in Nat : L = Len(text) /\ DOMAIN text = 1 .. L
  OBVIOUS
<1>2. PICK p \in 2 .. L + 1 :
        /\ Digits(SubSeq(text, 1, p - 1))
        /\ \/ p = L + 1
           \/ text[p] = "." /\ p < L /\ Digits(SubSeq(text, p + 1, L))
  BY <1>1 DEF Plain, MatchesDecimal
<1>3. \A i \in 1 .. p - 1 : text[i] \in DOMAIN DigitOf
  <2>1. \A i \in 1 .. p - 1 : text[i] \in Chars
    BY <1>1, <1>2
  <2>2. /\ SubSeq(text, 1, p - 1) \in Seq(Chars)
        /\ Len(SubSeq(text, 1, p - 1)) = IF 1 <= p - 1 THEN (p - 1) - 1 + 1 ELSE 0
        /\ \A i \in 1 .. (p - 1) - 1 + 1 : SubSeq(text, 1, p - 1)[i] = text[1 + i - 1]
    BY <2>1, SubSeqProperties
  <2>3. PICK a : a = SubSeq(text, 1, p - 1)
    OBVIOUS
  <2>4. /\ DOMAIN a = 1 .. p - 1 /\ Digits(a)
        /\ \A i \in 1 .. p - 1 : a[i] = text[i]
    BY <1>2, <2>2, <2>3
  <2>5. QED
    BY <2>4 DEF Digits
<1>4. Point(text) = p
  <2>1. \A c \in DOMAIN DigitOf : c # "."
    BY DigitFacts
  <2>2. \A i \in 1 .. L : i < p => text[i] # "."
    <3>1. \A i \in 1 .. L : i < p => i \in 1 .. p - 1
      OBVIOUS
    <3>2. QED
      BY <1>3, <2>1, <3>1
  <2>3. p <= L => text[p] = "."
    BY <1>2
  <2>4. IsPoint(text, p)
    BY <1>1, <1>2, <2>2, <2>3 DEF IsPoint
  <2>5. QED
    BY <2>4, PointOf
<1>5. PICK a, b : a = IntPart(text) /\ b = FracPart(text)
  OBVIOUS
<1>6. /\ a \in Seq(Chars) /\ Len(a) = p - 1 /\ \A i \in 1 .. p - 1 : a[i] = text[i]
      /\ b \in Seq(Chars) /\ Len(b) = IF p <= L THEN L - p ELSE 0
  BY <1>1, <1>4, <1>5, Parts
<1>7. Digits(a)
  BY <1>2, <1>4, <1>5 DEF IntPart
<1>8. Digits(b)
  <2>1. CASE p = L + 1
    BY <1>6, <2>1 DEF Digits
  <2>2. CASE p # L + 1
    BY <1>1, <1>2, <1>4, <1>5, <2>2 DEF FracPart
  <2>3. QED
    BY <2>1, <2>2
<1>9. Len(b) \in Nat /\ Len(b) <= scale
  <2>1. CASE p = L + 1
    BY <1>6, <2>1
  <2>2. CASE p # L + 1
    <3>1. text[p] = "." /\ p \in DOMAIN text /\ Len(b) = L - p
      BY <1>1, <1>2, <1>6, <2>2
    <3>2. L - p <= scale
      BY <1>1, <3>1 DEF Plain
    <3>3. QED
      BY <1>6, <3>1, <3>2
  <2>3. QED
    BY <2>1, <2>2
<1>10. IsDecimal(text, scale)
  <2>1. p > 1 /\ p # L
    BY <1>2
  <2>2. QED
    BY <1>1, <1>4, <1>5, <1>7, <1>8, <1>9, <2>1 DEF IsDecimal
<1>11. IsSigned(text, 0, a, b)
  <2>1. 0 \in Nat /\ 0 < Point(text) /\ \A i \in 1 .. 0 : text[i] \in {"-", "+"}
    BY <1>2, <1>4
  <2>2. Len(a) = Point(text) - 1 - 0 /\ \A i \in 1 .. Len(a) : a[i] = text[0 + i]
    BY <1>2, <1>4, <1>6
  <2>3. QED
    BY <1>5, <1>6, <1>7, <1>8, <2>1, <2>2 DEF IsSigned
<1>12. PICK k \in Nat : k = scale - Len(b)
  BY <1>9
<1>13. Magnitude(text, scale) = DigitsValue(a \o b) * TenTo[k]
  BY <1>9, <1>11, <1>12, MagnitudeOf
<1>14. DigitsValue(a \o b \o Zeros(k)) = DigitsValue(a \o b) * TenTo[k]
  BY <1>6, <1>7, <1>8, ZerosAfter
<1>15. UnitsOf(text, scale) = Magnitude(text, scale)
  BY <1>5, <1>12, <1>13, <1>14 DEF UnitsOf
<1>16. UnitsOf(text, scale) \in Nat
       /\ (UnitsOf(text, scale) <= MaxInt =>
             parseFixedPoint(text, scale) = Parsed(UnitsOf(text, scale)))
  BY <1>10, ParseDecimal
<1>17. ASSUME NEW n \in Nat, FitsColumn(n) PROVE n <= MaxInt
  <2>1. MaxInt \in Nat /\ TenTo[ColumnDigits] \in Nat /\ TenTo[ColumnDigits] <= MaxInt + 1
    BY Widths
  <2>2. n < TenTo[ColumnDigits]
    BY <1>17 DEF FitsColumn
  <2>3. QED
    BY <2>1, <2>2
<1>18. QED
  BY <1>15, <1>16, <1>17

-----------------------------------------------------------------------------
(* The payment on its way.                                                 *)

\* What a request has to satisfy to be stored.
AcceptedRequest(r) ==
  /\ r \in Requests
  /\ Errors(r) = {}
  /\ \A n \in Columns(NewTransaction(r)) : FitsColumn(n)

RowIsTheRequests ==
  row # None =>
    /\ AcceptedRequest(request)
    /\ row = NewTransaction(request)
    /\ response = [code |-> 201, body |-> Written(row)]

EventIsTheRows ==
  event # None =>
    /\ AcceptedRequest(request)
    /\ row = NewTransaction(request)
    /\ event = [figures |-> Written(row), currency |-> request.currency]

OutcomeIsTheEvents ==
  outcome # None =>
    /\ AcceptedRequest(request)
    /\ row = NewTransaction(request)
    /\ outcome = [figures |-> Written(row),
                  status |-> IF request.currency = "supported" THEN "completed" ELSE "failed"]

AnswerHasACause ==
  request # None =>
    /\ request \in Requests
    /\ response.code = 201 \/ ~AcceptedRequest(request)

\* Whatever exists of a payment stands for its one request, and so for the
\* transaction that NewTransaction makes of it: the services only hand it on.
DataInv ==
  /\ RowIsTheRequests
  /\ EventIsTheRows
  /\ OutcomeIsTheEvents
  /\ AnswerHasACause
  /\ read # None => request \in Requests /\ ReadBackIsTheAnswer
  /\ fact # None => outcome # None /\ DatabasesAgree

\* The requests are of their type, and None is none of them.
LEMMA RequestFacts ==
  ASSUME NEW r \in Requests
  PROVE  r.amount \in Seq(Chars) /\ r.rate \in Seq(Chars) /\ r # None
         /\ r.currency \in {"supported", "unsupported", "malformed"}
         /\ r.fields \in {"valid", "invalid"}
BY PaymentDataAssumption DEF RequestType

\* The conditions under which neither Execute nor NewTransaction refuses.
LEMMA NoErrors ==
  ASSUME NEW r
  PROVE  Errors(r) = {} <=>
           /\ ParseMoney(r.amount).ok /\ ParseFXRate(r.rate).ok
           /\ ~(NewTransaction(r).source <= 0) /\ ~(NewTransaction(r).destination <= 0)
           /\ ~(NewTransaction(r).rate <= 0)
           /\ r.currency # "malformed" /\ r.fields # "invalid"
<1>1. ParseErrors(r) = {} <=> ParseMoney(r.amount).ok /\ ParseFXRate(r.rate).ok
  BY DEF ParseErrors
<1>2. PICK tx : tx = NewTransaction(r)
  OBVIOUS
<1>3. FieldErrors(r) = {} <=>
        /\ ~(tx.source <= 0) /\ ~(tx.destination <= 0) /\ ~(tx.rate <= 0)
        /\ r.currency # "malformed" /\ r.fields # "invalid"
  BY <1>2 DEF FieldErrors
<1>4. Errors(r) = {} <=> ParseErrors(r) = {} /\ FieldErrors(r) = {}
  BY DEF Errors
<1>5. QED
  BY <1>1, <1>2, <1>3, <1>4

\* The transaction a request stands for, field by field.
LEMMA TransactionOf ==
  ASSUME NEW r
  PROVE  /\ NewTransaction(r).source = ParseMoney(r.amount).units
         /\ NewTransaction(r).rate = ParseFXRate(r.rate).units
         /\ NewTransaction(r).destination
              = Multiply(ParseMoney(r.amount).units, ParseFXRate(r.rate).units)
         /\ NewTransaction(r).created = r.at
         /\ NewTransaction(r) = [source |-> NewTransaction(r).source,
                                 destination |-> NewTransaction(r).destination,
                                 rate |-> NewTransaction(r).rate,
                                 created |-> NewTransaction(r).created]
BY DEF NewTransaction

\* Positive figures, within their columns, of an accepted request.
LEMMA AcceptedFigures ==
  ASSUME NEW r, AcceptedRequest(r), NEW tx, tx = NewTransaction(r)
  PROVE  /\ tx.source \in Nat \ {0} /\ tx.source < TenTo[ColumnDigits]
         /\ tx.destination \in Nat \ {0} /\ tx.destination < TenTo[ColumnDigits]
         /\ tx.rate \in Nat \ {0} /\ tx.rate < TenTo[ColumnDigits]
         /\ tx.source = Magnitude(r.amount, moneyScale) /\ Negations(r.amount) \in {0, 2}
         /\ tx.rate = Magnitude(r.rate, fxRateScaleDigits) /\ Negations(r.rate) \in {0, 2}
         /\ ExactDestination(tx) \in Int /\ tx.destination = Int64(ExactDestination(tx))
<1>1. r \in Requests /\ Errors(r) = {} /\ \A n \in Columns(tx) : FitsColumn(n)
  BY DEF AcceptedRequest
<1>2. r.amount \in Seq(Chars) /\ r.rate \in Seq(Chars)
  BY <1>1, RequestFacts
<1>3. moneyScale \in Nat /\ fxRateScaleDigits \in Nat
  BY PaymentDataAssumption
<1>4. PICK m, x : /\ m = parseFixedPoint(r.amount, moneyScale)
                  /\ x = parseFixedPoint(r.rate, fxRateScaleDigits)
  OBVIOUS
<1>5. /\ m.ok /\ x.ok /\ ~(tx.source <= 0) /\ ~(tx.destination <= 0) /\ ~(tx.rate <= 0)
      /\ tx.source = m.units /\ tx.rate = x.units /\ tx.destination = Multiply(m.units, x.units)
  BY <1>1, <1>4, NoErrors, TransactionOf DEF ParseMoney, ParseFXRate
<1>6. /\ m.units \in Int
      /\ m.units > 0 => m.units = Magnitude(r.amount, moneyScale) /\ Negations(r.amount) \in {0, 2}
  BY <1>2, <1>3, <1>4, <1>5, Accepted
<1>7. /\ x.units \in Int
      /\ x.units > 0 => x.units = Magnitude(r.rate, fxRateScaleDigits) /\ Negations(r.rate) \in {0, 2}
  BY <1>2, <1>3, <1>4, <1>5, Accepted
<1>8. PICK a \in Int, b \in Int : a = m.units /\ b = x.units
  BY <1>6, <1>7
<1>9. ExactDestination(tx) \in Int /\ Multiply(a, b) = Int64(ExactDestination(tx))
  BY <1>5, <1>8, MultiplyRounds
<1>10. Int64(ExactDestination(tx)) \in Int
  <2>1. Int64(ExactDestination(tx)) \in -MaxInt - 1 .. MaxInt /\ MaxInt \in Nat
    BY <1>9, Int64Keeps, Widths
  <2>2. QED
    BY <2>1
<1>11. /\ tx.source < TenTo[ColumnDigits] /\ tx.destination < TenTo[ColumnDigits]
       /\ tx.rate < TenTo[ColumnDigits]
  BY <1>1 DEF Columns, FitsColumn
<1>12. tx.source \in Nat \ {0} /\ tx.rate \in Nat \ {0} /\ tx.destination \in Nat \ {0}
  BY <1>5, <1>6, <1>7, <1>8, <1>9, <1>10
<1>13. m.units > 0 /\ x.units > 0
  BY <1>5, <1>12
<1>14. QED
  BY <1>5, <1>6, <1>7, <1>8, <1>9, <1>11, <1>12, <1>13

\* What the rest of the platform makes of the strings of such a transaction.
LEMMA WrittenFigures ==
  ASSUME NEW r, AcceptedRequest(r), NEW tx, tx = NewTransaction(r), NEW w, w = Written(tx)
  PROVE  /\ ParseMoney(w.source) = Parsed(tx.source)
         /\ ParseMoney(w.destination) = Parsed(tx.destination)
         /\ ParseFXRate(w.rate) = Parsed(tx.rate)
         /\ isPositiveDecimal(w.source) /\ isPositiveDecimal(w.destination)
         /\ isPositiveDecimal(w.rate)
         /\ DecimalUnits(w.source, moneyScale) = tx.source
         /\ DecimalUnits(w.destination, moneyScale) = tx.destination
         /\ DecimalUnits(w.rate, fxRateScaleDigits) = tx.rate
         /\ FitsColumn(tx.source) /\ FitsColumn(tx.destination) /\ FitsColumn(tx.rate)
<1>1. ASSUME NEW n \in Nat \ {0}, n < TenTo[ColumnDigits], NEW scale \in Nat \ {0}
      PROVE  /\ parseFixedPoint(formatFixedPoint(n, scale), scale) = Parsed(n)
             /\ isPositiveDecimal(formatFixedPoint(n, scale))
             /\ DecimalUnits(formatFixedPoint(n, scale), scale) = n
             /\ FitsColumn(n)
  <2>1. PICK text : text = formatFixedPoint(n, scale)
    OBVIOUS
  <2>2. IsFormatted(text, n, scale)
    BY <1>1, <2>1, FormatShape
  <2>3. n <= MaxInt
    <3>1. MaxInt \in Nat /\ TenTo[ColumnDigits] \in Nat /\ TenTo[ColumnDigits] <= MaxInt + 1
      BY Widths
    <3>2. QED
      BY <1>1, <3>1
  <2>4. n \in Nat /\ n # 0
    OBVIOUS
  <2>5. parseFixedPoint(text, scale) = Parsed(n)
    BY <2>2, <2>3, <2>4, FormattedParses
  <2>6. isPositiveDecimal(text)
    BY <2>2, <2>4, FormattedMatches
  <2>7. DecimalUnits(text, scale) = n
    BY <2>2, <2>4, FormattedUnits
  <2>8. QED
    BY <1>1, <2>1, <2>5, <2>6, <2>7 DEF FitsColumn
<1>2. moneyScale \in Nat \ {0} /\ fxRateScaleDigits \in Nat \ {0}
  BY PaymentDataAssumption
<1>3. PICK a \in Nat \ {0}, b \in Nat \ {0}, c \in Nat \ {0} :
        /\ a = tx.source /\ b = tx.destination /\ c = tx.rate
        /\ a < TenTo[ColumnDigits] /\ b < TenTo[ColumnDigits] /\ c < TenTo[ColumnDigits]
  BY AcceptedFigures
<1>4. /\ w.source = formatFixedPoint(a, moneyScale)
      /\ w.destination = formatFixedPoint(b, moneyScale)
      /\ w.rate = formatFixedPoint(c, fxRateScaleDigits)
  BY <1>3 DEF Written
<1>5. /\ parseFixedPoint(w.source, moneyScale) = Parsed(a) /\ isPositiveDecimal(w.source)
      /\ DecimalUnits(w.source, moneyScale) = a /\ FitsColumn(a)
  BY <1>1, <1>2, <1>3, <1>4
<1>6. /\ parseFixedPoint(w.destination, moneyScale) = Parsed(b) /\ isPositiveDecimal(w.destination)
      /\ DecimalUnits(w.destination, moneyScale) = b /\ FitsColumn(b)
  BY <1>1, <1>2, <1>3, <1>4
<1>7. /\ parseFixedPoint(w.rate, fxRateScaleDigits) = Parsed(c) /\ isPositiveDecimal(w.rate)
      /\ DecimalUnits(w.rate, fxRateScaleDigits) = c /\ FitsColumn(c)
  BY <1>1, <1>2, <1>3, <1>4
<1>8. QED
  BY <1>3, <1>5, <1>6, <1>7 DEF ParseMoney, ParseFXRate

-----------------------------------------------------------------------------
(* The invariant.                                                          *)

\* Nothing exists at first.
LEMMA InitData == Init => DataInv
BY DEF Init, DataInv, RowIsTheRequests, EventIsTheRows, OutcomeIsTheEvents, AnswerHasACause

\* Before the request there is nothing.
LEMMA NothingBefore ==
  ASSUME DataInv, request = None
  PROVE  row = None /\ event = None /\ read = None /\ outcome = None /\ fact = None
<1>1. None \notin Requests
  BY PaymentDataAssumption
<1>2. request \notin Requests /\ ~AcceptedRequest(request)
  BY <1>1 DEF AcceptedRequest
<1>3. QED
  BY <1>2 DEF DataInv, RowIsTheRequests, EventIsTheRows, OutcomeIsTheEvents

\* A request that is refused leaves nothing behind.
LEMMA AnswerKeeps ==
  ASSUME DataInv, NEW r \in Requests, request = None, ~AcceptedRequest(r),
         NEW code, Answer(r, code)
  PROVE  DataInv'
<1>1. row' = None /\ event' = None /\ read' = None /\ outcome' = None /\ fact' = None
  BY NothingBefore DEF Answer
<1>2. request' = r
  BY DEF Answer
<1>3. AnswerHasACause'
  BY <1>2 DEF AnswerHasACause, AcceptedRequest
<1>4. QED
  BY <1>1, <1>3 DEF DataInv, RowIsTheRequests, EventIsTheRows, OutcomeIsTheEvents

\* 400: a field is refused.
LEMMA RejectKeeps ==
  ASSUME DataInv, NEW r \in Requests, Reject(r)
  PROVE  DataInv'
<1>1. ~AcceptedRequest(r)
  BY DEF Reject, AcceptedRequest
<1>2. QED
  BY <1>1, AnswerKeeps DEF Reject

\* 500: a figure does not fit its column.
LEMMA OverflowKeeps ==
  ASSUME DataInv, NEW r \in Requests, Overflow(r)
  PROVE  DataInv'
<1>1. ~AcceptedRequest(r)
  BY DEF Overflow, AcceptedRequest
<1>2. QED
  BY <1>1, AnswerKeeps DEF Overflow

\* The row, the event and the answer are made of the same transaction.
LEMMA CreateKeeps ==
  ASSUME DataInv, NEW r \in Requests, Create(r)
  PROVE  DataInv'
<1>1. PICK tx : tx = NewTransaction(r)
  OBVIOUS
<1>2. /\ request = None /\ request' = r /\ row' = tx
      /\ response' = [code |-> 201, body |-> Written(tx)]
      /\ event' = [figures |-> Written(tx), currency |-> r.currency]
      /\ read' = read /\ outcome' = outcome /\ fact' = fact
  BY <1>1 DEF Create
<1>3. AcceptedRequest(r)
  BY DEF Create, AcceptedRequest
<1>4. read' = None /\ outcome' = None /\ fact' = None
  BY <1>2, NothingBefore
<1>5. AcceptedRequest(request') /\ row' = NewTransaction(request')
  BY <1>1, <1>2, <1>3
<1>6. RowIsTheRequests' /\ EventIsTheRows' /\ AnswerHasACause'
  <2>1. RowIsTheRequests'
    BY <1>2, <1>5 DEF RowIsTheRequests, AcceptedRequest
  <2>2. EventIsTheRows'
    BY <1>2, <1>5 DEF EventIsTheRows, AcceptedRequest
  <2>3. AnswerHasACause'
    BY <1>2 DEF AnswerHasACause, AcceptedRequest
  <2>4. QED
    BY <2>1, <2>2, <2>3
<1>7. QED
  BY <1>4, <1>6 DEF DataInv, OutcomeIsTheEvents

\* The columns parse, as the units they were formatted from.
LEMMA GetKeeps ==
  ASSUME DataInv, Get
  PROVE  DataInv'
<1>1. /\ row # None /\ request' = request /\ response' = response /\ row' = row
      /\ event' = event /\ outcome' = outcome /\ fact' = fact
  BY DEF Get
<1>2. PICK r, tx : /\ r = request /\ tx = row /\ AcceptedRequest(r) /\ tx = NewTransaction(r)
                   /\ response = [code |-> 201, body |-> Written(tx)]
  BY <1>1 DEF DataInv, RowIsTheRequests
<1>3. PICK w : w = Written(tx)
  OBVIOUS
<1>4. /\ ParseMoney(w.source) = Parsed(tx.source)
      /\ ParseMoney(w.destination) = Parsed(tx.destination)
      /\ ParseFXRate(w.rate) = Parsed(tx.rate)
  BY <1>2, <1>3, WrittenFigures
<1>5. PICK s, d, x : /\ s = ParseMoney(formatFixedPoint(row.source, moneyScale))
                     /\ d = ParseMoney(formatFixedPoint(row.destination, moneyScale))
                     /\ x = ParseFXRate(formatFixedPoint(row.rate, fxRateScaleDigits))
  OBVIOUS
<1>6. /\ s.ok /\ d.ok /\ x.ok
      /\ s.units = tx.source /\ d.units = tx.destination /\ x.units = tx.rate
  <2>1. /\ w.source = formatFixedPoint(tx.source, moneyScale)
        /\ w.destination = formatFixedPoint(tx.destination, moneyScale)
        /\ w.rate = formatFixedPoint(tx.rate, fxRateScaleDigits)
    BY <1>3 DEF Written
  <2>2. s = Parsed(tx.source) /\ d = Parsed(tx.destination) /\ x = Parsed(tx.rate)
    BY <1>2, <1>4, <1>5, <2>1
  <2>3. QED
    BY <2>2 DEF Parsed
<1>7. read' = [code |-> 200,
               body |-> Written([source |-> s.units, destination |-> d.units,
                                 rate |-> x.units, created |-> row.created])]
  BY <1>5, <1>6 DEF Get
<1>8. [source |-> s.units, destination |-> d.units, rate |-> x.units, created |-> row.created] = tx
  BY <1>2, <1>6, TransactionOf
<1>9. read' = [code |-> 200, body |-> response'.body]
  BY <1>1, <1>2, <1>7, <1>8
<1>10. request' \in Requests
  BY <1>1, <1>2 DEF AcceptedRequest
<1>11. ReadBackIsTheAnswer'
  BY <1>9 DEF ReadBackIsTheAnswer
<1>12. /\ RowIsTheRequests' /\ EventIsTheRows' /\ OutcomeIsTheEvents' /\ AnswerHasACause'
  BY <1>1 DEF DataInv, RowIsTheRequests, EventIsTheRows, OutcomeIsTheEvents, AnswerHasACause,
              AcceptedRequest
<1>13. fact' # None => outcome' # None /\ DatabasesAgree'
  BY <1>1 DEF DataInv, DatabasesAgree
<1>14. QED
  BY <1>10, <1>11, <1>12, <1>13 DEF DataInv

\* The figures pass isPositiveDecimal, so only the currency decides.
LEMMA ProcessKeeps ==
  ASSUME DataInv, Process
  PROVE  DataInv'
<1>1. /\ event # None /\ outcome = None /\ request' = request /\ response' = response
      /\ row' = row /\ event' = event /\ read' = read /\ fact' = fact
  BY DEF Process
<1>2. PICK r, tx : /\ r = request /\ tx = row /\ AcceptedRequest(r) /\ tx = NewTransaction(r)
                   /\ event = [figures |-> Written(tx), currency |-> r.currency]
  BY <1>1 DEF DataInv, EventIsTheRows
<1>3. PICK w : w = Written(tx)
  OBVIOUS
<1>4. isPositiveDecimal(w.source) /\ isPositiveDecimal(w.destination) /\ isPositiveDecimal(w.rate)
  BY <1>2, <1>3, WrittenFigures
<1>5. event.figures = w /\ event.currency = r.currency
  BY <1>2, <1>3
<1>6. outcome' = [figures |-> w,
                  status |-> IF r.currency = "supported" THEN "completed" ELSE "failed"]
  BY <1>4, <1>5 DEF Process
<1>7. OutcomeIsTheEvents'
  BY <1>1, <1>2, <1>3, <1>6 DEF OutcomeIsTheEvents, AcceptedRequest
<1>8. /\ RowIsTheRequests' /\ EventIsTheRows' /\ AnswerHasACause'
  BY <1>1 DEF DataInv, RowIsTheRequests, EventIsTheRows, AnswerHasACause, AcceptedRequest
<1>9. fact' = None
  BY <1>1 DEF DataInv
<1>10. read' # None => request' \in Requests /\ ReadBackIsTheAnswer'
  BY <1>1 DEF DataInv, ReadBackIsTheAnswer
<1>11. QED
  BY <1>7, <1>8, <1>9, <1>10 DEF DataInv

\* ClickHouse is sent decimals that it reads as the units of MariaDB.
LEMMA StoreKeeps ==
  ASSUME DataInv, Store
  PROVE  DataInv'
<1>1. /\ outcome # None /\ request' = request /\ response' = response
      /\ row' = row /\ event' = event /\ read' = read /\ outcome' = outcome
  BY DEF Store
<1>2. PICK r, tx : /\ r = request /\ tx = row /\ AcceptedRequest(r) /\ tx = NewTransaction(r)
                   /\ outcome.figures = Written(tx)
  BY <1>1 DEF DataInv, OutcomeIsTheEvents
<1>3. PICK w : w = Written(tx)
  OBVIOUS
<1>4. /\ isPositiveDecimal(w.source) /\ isPositiveDecimal(w.destination)
      /\ isPositiveDecimal(w.rate)
      /\ DecimalUnits(w.source, moneyScale) = tx.source
      /\ DecimalUnits(w.destination, moneyScale) = tx.destination
      /\ DecimalUnits(w.rate, fxRateScaleDigits) = tx.rate
      /\ FitsColumn(tx.source) /\ FitsColumn(tx.destination) /\ FitsColumn(tx.rate)
  BY <1>2, <1>3, WrittenFigures
<1>5. MatchesDecimal(w.source) /\ MatchesDecimal(w.destination) /\ MatchesDecimal(w.rate)
  BY <1>4 DEF isPositiveDecimal
<1>6. PICK stored : stored = [source |-> tx.source, destination |-> tx.destination,
                              rate |-> tx.rate, created |-> w.created]
  OBVIOUS
<1>7. /\ \A t \in {w.source, w.destination, w.rate} : MatchesDecimal(t)
      /\ \A n \in Columns(stored) : FitsColumn(n)
  BY <1>4, <1>5, <1>6 DEF Columns
<1>8. fact' = [figures |-> stored, status |-> outcome.status]
  BY <1>2, <1>3, <1>4, <1>6, <1>7 DEF Store
<1>9. stored = [tx EXCEPT !.created = FormatTime(@)]
  <2>1. w.created = FormatTime(tx.created)
    BY <1>3 DEF Written
  <2>2. PICK a, b, c, d : tx = [source |-> a, destination |-> b, rate |-> c, created |-> d]
    BY <1>2 DEF NewTransaction
  <2>3. QED
    BY <1>6, <2>1, <2>2
<1>10. DatabasesAgree'
  BY <1>1, <1>2, <1>8, <1>9 DEF DatabasesAgree
<1>11. /\ RowIsTheRequests' /\ EventIsTheRows' /\ OutcomeIsTheEvents' /\ AnswerHasACause'
  BY <1>1 DEF DataInv, RowIsTheRequests, EventIsTheRows, OutcomeIsTheEvents, AnswerHasACause,
              AcceptedRequest
<1>12. read' # None => request' \in Requests /\ ReadBackIsTheAnswer'
  BY <1>1 DEF DataInv, ReadBackIsTheAnswer
<1>13. QED
  BY <1>1, <1>10, <1>11, <1>12 DEF DataInv

\* It holds from the request on, whichever service acts next: Create makes the
\* row and the event of one transaction; GET, the processor and the analytics
\* consumer find in their strings the units these were written from.
THEOREM FiguresAreHandedOn == Spec => []DataInv
<1>1. DataInv /\ [Next]_vars => DataInv'
  <2> SUFFICES ASSUME DataInv, [Next]_vars PROVE DataInv'
    OBVIOUS
  <2>1. ASSUME NEW r \in Requests, Reject(r) PROVE DataInv'
    BY <2>1, RejectKeeps
  <2>2. ASSUME NEW r \in Requests, Overflow(r) PROVE DataInv'
    BY <2>2, OverflowKeeps
  <2>3. ASSUME NEW r \in Requests, Create(r) PROVE DataInv'
    BY <2>3, CreateKeeps
  <2>4. CASE Get
    BY <2>4, GetKeeps
  <2>5. CASE Process
    BY <2>5, ProcessKeeps
  <2>6. CASE Store
    BY <2>6, StoreKeeps
  <2>7. CASE UNCHANGED vars
    BY <2>7 DEF vars, DataInv, RowIsTheRequests, EventIsTheRows, OutcomeIsTheEvents,
                AnswerHasACause, AcceptedRequest, ReadBackIsTheAnswer, DatabasesAgree
  <2>8. QED
    BY <2>1, <2>2, <2>3, <2>4, <2>5, <2>6, <2>7 DEF Next
<1>2. QED
  BY <1>1, InitData, PTL DEF Spec

-----------------------------------------------------------------------------
(* The properties.                                                         *)

\* The amounts of MariaDB are the numbers the client wrote, whatever zeros,
\* missing fraction or doubled signs parseFixedPoint let through.
THEOREM AmountsAlwaysAsWritten == Spec => []AmountsAsWritten
<1>1. DataInv => AmountsAsWritten
  <2> SUFFICES ASSUME DataInv, row # None PROVE AmountsAsWritten
    BY DEF AmountsAsWritten
  <2>1. PICK r, tx : r = request /\ tx = row /\ AcceptedRequest(r) /\ tx = NewTransaction(r)
    BY DEF DataInv, RowIsTheRequests
  <2>2. /\ tx.source = Magnitude(r.amount, moneyScale) /\ Negations(r.amount) \in {0, 2}
        /\ tx.rate = Magnitude(r.rate, fxRateScaleDigits) /\ Negations(r.rate) \in {0, 2}
    BY <2>1, AcceptedFigures
  <2>3. QED
    BY <2>1, <2>2 DEF AmountsAsWritten
<1>2. QED
  BY <1>1, FiguresAreHandedOn, PTL

\* NewTransaction and the INSERT refuse no payment that is well formed and fits.
THEOREM NothingRefusedWithoutCause == Spec => []RefusedForACause
<1>1. ASSUME NEW r \in Requests, r.currency # "malformed", r.fields # "invalid",
             Plain(r.amount, moneyScale), Plain(r.rate, fxRateScaleDigits),
             NEW tx, tx = [source |-> Magnitude(r.amount, moneyScale),
                           rate |-> Magnitude(r.rate, fxRateScaleDigits)],
             tx.source # 0, tx.rate # 0, ExactDestination(tx) # 0,
             FitsColumn(tx.source), FitsColumn(tx.rate), FitsColumn(ExactDestination(tx))
      PROVE  AcceptedRequest(r)
  <2>1. moneyScale \in Nat /\ fxRateScaleDigits \in Nat
    BY PaymentDataAssumption
  <2>2. r.amount \in Seq(Chars) /\ r.rate \in Seq(Chars)
    BY RequestFacts
  <2>3. PICK a \in Nat \ {0}, b \in Nat \ {0} :
          /\ tx.source = a /\ a = Magnitude(r.amount, moneyScale) /\ FitsColumn(a)
          /\ tx.rate = b /\ b = Magnitude(r.rate, fxRateScaleDigits) /\ FitsColumn(b)
    BY <1>1, <2>1, <2>2, PlainParses
  <2>4. parseFixedPoint(r.amount, moneyScale) = Parsed(a)
    BY <1>1, <2>1, <2>2, <2>3, PlainParses
  <2>5. parseFixedPoint(r.rate, fxRateScaleDigits) = Parsed(b)
    BY <1>1, <2>1, <2>2, <2>3, PlainParses
  <2>6. /\ ParseMoney(r.amount).ok /\ ParseFXRate(r.rate).ok
        /\ ParseMoney(r.amount).units = a /\ ParseFXRate(r.rate).units = b
    BY <2>4, <2>5 DEF ParseMoney, ParseFXRate, Parsed
  <2>7. PICK d : d = ExactDestination(tx)
    OBVIOUS
  <2>8. d \in Int /\ Multiply(a, b) = Int64(d)
    BY <2>3, <2>7, MultiplyRounds
  <2>9. d \in Nat
    <3>1. PICK f \in Nat \ {0} : f = FXRateScale
      BY Widths
    <3>2. PICK x \in Nat : x = a * b
      OBVIOUS
    <3>3. 2 * a * b = 2 * x
      BY <3>2
    <3>4. 2 * x + f \in Nat /\ 2 * f \in Nat \ {0}
      OBVIOUS
    <3>5. (2 * x + f) \div (2 * f) \in Nat
      BY <3>4, DivisionOf
    <3>6. d = (2 * x + f) \div (2 * f)
      BY <2>3, <2>7, <3>1, <3>3 DEF ExactDestination
    <3>7. QED
      BY <3>5, <3>6
  <2>10. Int64(d) = d
    <3>1. MaxInt \in Nat /\ TenTo[ColumnDigits] \in Nat /\ TenTo[ColumnDigits] <= MaxInt + 1
      BY Widths
    <3>2. d < TenTo[ColumnDigits]
      BY <1>1, <2>7 DEF FitsColumn
    <3>3. d \in -MaxInt - 1 .. MaxInt
      BY <2>9, <3>1, <3>2
    <3>4. QED
      BY <2>8, <3>3, Int64Keeps
  <2>11. PICK t : t = NewTransaction(r)
    OBVIOUS
  <2>12. t.source = a /\ t.rate = b /\ t.destination = d
    BY <2>6, <2>8, <2>10, <2>11, TransactionOf
  <2>13. ~(t.source <= 0) /\ ~(t.rate <= 0) /\ ~(t.destination <= 0)
    BY <1>1, <2>7, <2>9, <2>12
  <2>14. Errors(r) = {}
    BY <1>1, <2>6, <2>11, <2>13, NoErrors
  <2>15. \A n \in Columns(t) : FitsColumn(n)
    BY <1>1, <2>3, <2>7, <2>12 DEF Columns
  <2>16. QED
    BY <2>11, <2>14, <2>15 DEF AcceptedRequest
<1>2. DataInv => RefusedForACause
  <2> SUFFICES ASSUME DataInv, request # None, response.code # 201 PROVE RefusedForACause
    BY DEF RefusedForACause
  <2>1. PICK r \in Requests : r = request /\ ~AcceptedRequest(r)
    BY DEF DataInv, AnswerHasACause
  <2>2. PICK tx : tx = [source |-> Magnitude(r.amount, moneyScale),
                        rate |-> Magnitude(r.rate, fxRateScaleDigits)]
    OBVIOUS
  <2>3. \/ r.currency = "malformed" \/ r.fields = "invalid"
        \/ ~Plain(r.amount, moneyScale) \/ ~Plain(r.rate, fxRateScaleDigits)
        \/ tx.source = 0 \/ tx.rate = 0 \/ ExactDestination(tx) = 0
        \/ ~FitsColumn(tx.source) \/ ~FitsColumn(tx.rate) \/ ~FitsColumn(ExactDestination(tx))
    BY <1>1, <2>1, <2>2
  <2>4. \/ r.currency = "malformed" \/ r.fields = "invalid"
        \/ ~Plain(r.amount, moneyScale) \/ ~Plain(r.rate, fxRateScaleDigits)
        \/ \E n \in {tx.source, tx.rate, ExactDestination(tx)} : n = 0 \/ ~FitsColumn(n)
    BY <2>3
  <2>5. QED
    BY <2>1, <2>2, <2>4 DEF RefusedForACause
<1>3. QED
  BY <1>1, <1>2, FiguresAreHandedOn, PTL

\* Money.Multiply rounds half up, and what it stores differs from the exact
\* conversion by a multiple of the range of int64 only.
THEOREM ConversionAlwaysExact == Spec => []ConversionExact
<1>1. DataInv => ConversionExact
  <2> SUFFICES ASSUME DataInv, row # None PROVE ConversionExact
    BY DEF ConversionExact
  <2>1. PICK r, tx : tx = row /\ AcceptedRequest(r) /\ tx = NewTransaction(r)
    BY DEF DataInv, RowIsTheRequests
  <2>2. PICK d \in Int : d = ExactDestination(tx) /\ tx.destination = Int64(d)
    BY <2>1, AcceptedFigures
  <2>3. (Int64(d) - d) % TwoTo[IntWidth] = 0
    BY Int64Keeps
  <2>4. QED
    BY <2>1, <2>2, <2>3 DEF ConversionExact
<1>2. QED
  BY <1>1, FiguresAreHandedOn, PTL

\* The positive side of ConversionNeverOverflows: a conversion that fits an int64
\* is stored as it is, so that the wrap is the only way to a wrong amount.
THEOREM FittingConversionIsExact ==
  Spec => [](row # None /\ ExactDestination(row) <= MaxInt =>
               row.destination = ExactDestination(row))
<1>1. ASSUME DataInv, row # None, ExactDestination(row) <= MaxInt
      PROVE  row.destination = ExactDestination(row)
  <2>1. PICK r, tx : tx = row /\ AcceptedRequest(r) /\ tx = NewTransaction(r)
    BY <1>1 DEF DataInv, RowIsTheRequests
  <2>2. PICK d \in Int : d = ExactDestination(tx) /\ tx.destination = Int64(d)
    BY <2>1, AcceptedFigures
  <2>3. d \in Nat
    <3>1. PICK a \in Nat, b \in Nat : a = tx.source /\ b = tx.rate
      BY <2>1, AcceptedFigures
    <3>2. PICK f \in Nat \ {0} : f = FXRateScale
      BY Widths
    <3>3. PICK x \in Nat : x = a * b
      OBVIOUS
    <3>4. 2 * x + f \in Nat /\ 2 * f \in Nat \ {0} /\ 2 * a * b = 2 * x
      BY <3>3
    <3>5. (2 * x + f) \div (2 * f) \in Nat
      BY <3>4, DivisionOf
    <3>6. QED
      BY <2>2, <3>1, <3>2, <3>4, <3>5 DEF ExactDestination
  <2>4. MaxInt \in Nat
    BY Widths
  <2>5. d \in -MaxInt - 1 .. MaxInt
    BY <1>1, <2>1, <2>2, <2>3, <2>4
  <2>6. Int64(d) = d
    BY <2>5, Int64Keeps
  <2>7. QED
    BY <2>1, <2>2, <2>6
<1>2. QED
  BY <1>1, FiguresAreHandedOn, PTL

\* GET parses what the columns hold and answers what POST did.
THEOREM ReadBackAlwaysTheAnswer == Spec => []ReadBackIsTheAnswer
<1>1. DataInv => ReadBackIsTheAnswer
  BY DEF DataInv, ReadBackIsTheAnswer
<1>2. QED
  BY <1>1, FiguresAreHandedOn, PTL

\* payment-processor finds nothing to refuse in the figures of an event.
THEOREM ProcessorAlwaysAgrees == Spec => []ProcessorAgrees
<1>1. DataInv => ProcessorAgrees
  BY DEF DataInv, OutcomeIsTheEvents, ProcessorAgrees
<1>2. QED
  BY <1>1, FiguresAreHandedOn, PTL

\* ClickHouse has the figures of MariaDB.
THEOREM DatabasesAlwaysAgree == Spec => []DatabasesAgree
<1>1. DataInv => DatabasesAgree
  BY DEF DataInv, DatabasesAgree
<1>2. QED
  BY <1>1, FiguresAreHandedOn, PTL
=============================================================================
