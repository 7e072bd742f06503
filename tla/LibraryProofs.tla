--------------------------- MODULE LibraryProofs ---------------------------
(***************************************************************************)
(* Theorems about the parts of the script library that compute: the random *)
(* numbers (Drand48) and the digest (Sha1).                                *)
(*                                                                         *)
(* The digits and carries of Drand48 are one multiplication and addition   *)
(* modulo 2^48, for every width of a digit, multiplier, seed and number of *)
(* draws.  The sequence they are held against is a recursive function; the *)
(* induction it takes is done with sets of naturals.                       *)
(*                                                                         *)
(* What SHA1Update is given, in whatever pieces, is what the context has   *)
(* compressed and buffers, and SHA1Final pads it as the algorithm says,    *)
(* for every length of a message.                                          *)
(***************************************************************************)
EXTENDS Drand48, Sha1, WellFoundedInduction, SequenceTheorems, TLAPS

-----------------------------------------------------------------------------
(* Induction.                                                               *)

Less == {p \in Nat \X Nat : p[1] < p[2]}

LEMMA LessWellFounded == IsWellFoundedOn(Less, Nat)
<1>1. OpToRel(<, Nat) = Less
  BY DEF OpToRel, Less
<1>2. QED
  BY <1>1, NatLessThanWellFounded

LEMMA Smallest ==
    ASSUME NEW T, T \subseteq Nat, T # {}
    PROVE  \E n \in T : \A m \in T : n <= m
<1>1. \E n \in T : \A m \in T : ~(<<m, n>> \in Less)
  BY LessWellFounded, WFMin
<1>2. \A m, n \in Nat : m < n => <<m, n>> \in Less
  BY DEF Less
<1>3. \A m, n \in Nat : ~(m < n) => n <= m
  OBVIOUS
<1>4. QED
  BY <1>1, <1>2, <1>3

LEMMA Induction ==
    ASSUME NEW S, 0 \in S, \A n \in Nat : n \in S => n + 1 \in S
    PROVE  \A n \in Nat : n \in S
<1> SUFFICES ASSUME Nat \ S # {}
             PROVE  FALSE
  OBVIOUS
<1>1. PICK n \in Nat \ S : \A m \in Nat \ S : n <= m
  BY Smallest
<1>2. n # 0 /\ n - 1 \in Nat /\ n - 1 + 1 = n /\ ~(n <= n - 1)
  BY <1>1
<1>3. n - 1 \in S
  BY <1>1, <1>2
<1>4. QED
  BY <1>1, <1>2, <1>3

-----------------------------------------------------------------------------
(* Division.                                                                *)

LEMMA Products ==
    ASSUME NEW a \in Int, NEW b \in Int
    PROVE  a * b \in Int
OBVIOUS

LEMMA Division ==
    ASSUME NEW n \in Int, NEW m \in Nat \ {0}
    PROVE  /\ n \div m \in Int /\ n % m \in 0 .. m - 1
           /\ n = m * (n \div m) + (n % m)
OBVIOUS

LEMMA Quotient ==
    ASSUME NEW n \in Int, NEW m \in Nat \ {0}, NEW q \in Int, NEW r \in 0 .. m - 1,
           n = m * q + r
    PROVE  n \div m = q /\ n % m = r
<1>1. PICK d \in Int : d = n \div m
  BY Division
<1>2. PICK e \in 0 .. m - 1 : e = n % m
  BY Division
<1>3. n = m * d + e
  BY <1>1, <1>2, Division
<1>4. m * (d - q) = r - e
  BY <1>3
<1>5. ~(d - q >= 1)
  <2>1. d - q >= 1 => m * (d - q) >= m
    OBVIOUS
  <2>2. QED
    BY <1>4, <2>1
<1>6. ~(q - d >= 1)
  <2>1. q - d >= 1 => m * (q - d) >= m
    OBVIOUS
  <2>2. m * (q - d) = e - r
    BY <1>3
  <2>3. QED
    BY <2>1, <2>2
<1>7. d = q
  BY <1>5, <1>6
<1>8. r = e
  BY <1>4, <1>7
<1>9. QED
  BY <1>1, <1>2, <1>7, <1>8

-----------------------------------------------------------------------------
(* Digits.                                                                  *)

Digits3 == [1 .. 3 -> Digit]

LEMMA BaseIs == Base \in Nat \ {0} /\ Base >= 2
BY BaseAssumption

LEMMA LowIs ==
    ASSUME NEW n \in Int
    PROVE  Low(n) \in Digit /\ \E d \in Int : n = Base * d + Low(n)
<1>1. n \div Base \in Int /\ n % Base \in 0 .. Base - 1 /\ n = Base * (n \div Base) + (n % Base)
  BY BaseIs, Division
<1>2. QED
  BY <1>1 DEF Low, Digit

\* A product of two digits has two digits.
LEMMA MulIs ==
    ASSUME NEW m \in Digit, NEW n \in Digit
    PROVE  \E l, h \in Digit : Mul(m, n) = <<l, h>> /\ m * n = l + Base * h
<1>1. m \in 0 .. Base - 1 /\ n \in 0 .. Base - 1 /\ Base \in Nat \ {0}
  BY BaseIs DEF Digit
<1>2. m * n \in Int
  BY <1>1
<1>3. PICK d \in Int : d = (m * n) \div Base
  BY <1>1, <1>2, Division
<1>4. PICK l \in Digit : l = (m * n) % Base /\ m * n = Base * d + l
  BY <1>1, <1>2, <1>3, Division DEF Digit
<1>5. l \in 0 .. Base - 1
  BY <1>4 DEF Digit
<1>6. d >= 0
  <2>1. m * n >= 0
    BY <1>1
  <2>2. ~(d <= -1)
    <3>1. d <= -1 => Base * d <= -Base
      BY <1>1
    <3>2. QED
      BY <1>1, <1>4, <1>5, <2>1, <3>1
  <2>3. QED
    BY <2>2
<1>7. d < Base
  <2>1. m * n <= (Base - 1) * (Base - 1)
    <3>1. m * n <= m * (Base - 1)
      BY <1>1
    <3>2. m * (Base - 1) <= (Base - 1) * (Base - 1)
      BY <1>1
    <3>3. QED
      BY <1>1, <1>2, <3>1, <3>2
  <2>2. (Base - 1) * (Base - 1) < Base * Base
    BY <1>1
  <2>3. d >= Base => Base * d >= Base * Base
    BY <1>1
  <2>4. Base * d <= m * n
    BY <1>1, <1>2, <1>4, <1>5
  <2>5. Base * d \in Int /\ Base * Base \in Int /\ (Base - 1) * (Base - 1) \in Int
    BY <1>1, Products
  <2>6. \A a, b, c, e \in Int : ~(e <= a /\ a <= b /\ b < c /\ c <= e)
    OBVIOUS
  <2>7. ~(d >= Base)
    BY <1>2, <2>1, <2>2, <2>3, <2>4, <2>5, <2>6
  <2>8. QED
    BY <1>1, <2>7
<1>8. Low(d) = d
  <2>1. d \in 0 .. Base - 1 /\ d = Base * 0 + d
    BY <1>1, <1>6, <1>7
  <2>2. d % Base = d
    BY <1>1, <2>1, Quotient
  <2>3. QED
    BY <2>2 DEF Low
<1>9. Mul(m, n) = <<l, d>>
  BY <1>3, <1>4, <1>8 DEF Mul, High, Low
<1>10. m * n = l + Base * d /\ d \in Digit
  BY <1>1, <1>4, <1>5, <1>6, <1>7 DEF Digit
<1>11. QED
  BY <1>4, <1>9, <1>10

\* What a sum of two digits leaves and what it carries.
LEMMA CarryIs ==
    ASSUME NEW m \in Digit, NEW n \in Digit
    PROVE  /\ Low(m + n) \in Digit /\ Carry(m, n) \in {0, 1}
           /\ m + n = Low(m + n) + Base * Carry(m, n)
<1>1. m \in 0 .. Base - 1 /\ n \in 0 .. Base - 1 /\ Base \in Nat \ {0}
  BY BaseIs DEF Digit
<1>2. CASE m + n > Base - 1
  <2>0. \A a, b, c \in Int : a + b = c * 1 + (a + b - c) /\ a + b = a + b - c + c * 1
    OBVIOUS
  <2>1. m + n - Base \in 0 .. Base - 1 /\ m + n = Base * 1 + (m + n - Base)
    BY <1>1, <1>2, <2>0
  <2>2. Low(m + n) = m + n - Base
    <3>1. PICK t \in Int, d \in 0 .. Base - 1 : t = m + n /\ d = m + n - Base
      BY <1>1, <2>1
    <3>2. \A q \in Int : t = Base * q + d => t % Base = d
      BY <1>1, Quotient
    <3>3. t = Base * 1 + d
      BY <1>1, <3>1
    <3>4. t % Base = d
      BY <3>2, <3>3
    <3>5. QED
      BY <3>1, <3>4 DEF Low
  <2>3. Carry(m, n) = 1
    BY <1>1, <1>2 DEF Carry
  <2>4. m + n = m + n - Base + Base * 1
    BY <1>1, <2>0
  <2>5. QED
    BY <2>1, <2>2, <2>3, <2>4 DEF Digit
<1>3. CASE ~(m + n > Base - 1)
  <2>1. m + n \in 0 .. Base - 1 /\ m + n = Base * 0 + (m + n)
    BY <1>1, <1>3
  <2>2. (m + n) % Base = m + n
    BY <1>1, <2>1, Quotient
  <2>3. QED
    BY <1>1, <1>3, <2>1, <2>2 DEF Low, Carry, Digit
<1>4. QED
  BY <1>2, <1>3

LEMMA CarryDigits ==
    ASSUME NEW m \in Digit, NEW n \in Digit
    PROVE  \E y, k \in Digit : y = Low(m + n) /\ k = Carry(m, n) /\ m + n = y + Base * k
<1>1. {0, 1} \subseteq Digit
  BY BaseIs DEF Digit
<1>2. Low(m + n) \in Digit /\ Carry(m, n) \in Digit /\ m + n = Low(m + n) + Base * Carry(m, n)
  BY <1>1, CarryIs
<1>3. QED
  BY <1>2

LEMMA ValueIs ==
    ASSUME NEW x \in Digits3
    PROVE  Value(x) \in 0 .. Modulus - 1
<1>1. PICK x1, x2, x3 \in 0 .. Base - 1 : x1 = x[1] /\ x2 = x[2] /\ x3 = x[3]
  BY DEF Digits3, Digit
<1>2. Base \in Nat \ {0}
  BY BaseIs
<1>3. Base * x2 <= Base * (Base - 1) /\ Base * x2 \in Nat
  BY <1>2
<1>4. Base * Base * x3 <= Base * Base * (Base - 1) /\ Base * Base * x3 \in Nat
  <2>1. PICK bb \in Nat : bb = Base * Base
    BY <1>2
  <2>2. bb * x3 <= bb * (Base - 1) /\ bb * x3 \in Nat
    BY <1>2, <2>1
  <2>3. QED
    BY <2>1, <2>2
<1>5. Base - 1 + Base * (Base - 1) + Base * Base * (Base - 1) = Base * Base * Base - 1
  BY <1>2
<1>6. /\ Base * (Base - 1) \in Int /\ Base * Base * (Base - 1) \in Int
      /\ Base * Base * Base \in Int
  BY <1>2
<1>7. x1 + Base * x2 + Base * Base * x3 \in 0 .. Base * Base * Base - 1
  BY <1>2, <1>3, <1>4, <1>5, <1>6
<1>8. QED
  BY <1>1, <1>7 DEF Value, Modulus

-----------------------------------------------------------------------------
(* One step of the generator.                                               *)

LEMMA DigitsAreInts ==
    /\ Digit \subseteq Int /\ {0, 1} \subseteq Digit
    /\ \A x \in Digits3 : x[1] \in Digit /\ x[2] \in Digit /\ x[3] \in Digit
    /\ \A a, b, c \in Digit : <<a, b, c>> \in Digits3
BY BaseIs DEF Digit, Digits3

LEMMA NextIs ==
    ASSUME NEW x \in Digits3
    PROVE  Next48(x) \in Digits3 /\ Value(Next48(x)) = Step48(Value(x))
<1>1. PICK a0, a1, a2 \in Digit : a0 = A[1] /\ a1 = A[2] /\ a2 = A[3]
  BY DigitsAssumption, DigitsAreInts DEF Digits3
<1>2. PICK x0, x1, x2 \in Digit : x0 = x[1] /\ x1 = x[2] /\ x2 = x[3]
  BY DigitsAreInts
<1>3. PICK p0, p1 \in Digit : Mul(a0, x0) = <<p0, p1>> /\ a0 * x0 = p0 + Base * p1
  BY MulIs
<1>4. PICK q0, q1 \in Digit : Mul(a0, x1) = <<q0, q1>> /\ a0 * x1 = q0 + Base * q1
  BY MulIs
<1>5. PICK r0, r1 \in Digit : Mul(a1, x0) = <<r0, r1>> /\ a1 * x0 = r0 + Base * r1
  BY MulIs
<1>6. PICK y0, k0 \in Digit :
          y0 = Low(p0 + C) /\ k0 = Carry(p0, C) /\ p0 + C = y0 + Base * k0
  BY CarryDigits, DigitsAssumption
<1>7. PICK s, k1 \in Digit :
          s = Low(p1 + k0) /\ k1 = Carry(p1, k0) /\ p1 + k0 = s + Base * k1
  BY CarryDigits
<1>8. PICK m, k2 \in Digit :
          m = Low(s + q0) /\ k2 = Carry(s, q0) /\ s + q0 = m + Base * k2
  BY CarryDigits
<1>9. PICK y1, k3 \in Digit :
          y1 = Low(m + r0) /\ k3 = Carry(m, r0) /\ m + r0 = y1 + Base * k3
  BY CarryDigits
<1>10. PICK u \in Int : u = k2 + k1 + k3 + q1 + r1 + a0 * x2 + a1 * x1 + a2 * x0
  BY DigitsAreInts
<1>11. PICK y2 \in Digit, t \in Int : y2 = Low(u) /\ u = Base * t + y2
  BY LowIs
<1>12. Next48(x) = <<y0, y1, y2>>
  <2>1. /\ Mul(A[1], x[1])[1] = p0 /\ Mul(A[1], x[1])[2] = p1
        /\ Mul(A[1], x[2])[1] = q0 /\ Mul(A[1], x[2])[2] = q1
        /\ Mul(A[2], x[1])[1] = r0 /\ Mul(A[2], x[1])[2] = r1
    BY <1>1, <1>2, <1>3, <1>4, <1>5
  <2>2. QED
    BY <2>1, <1>1, <1>2, <1>6, <1>7, <1>8, <1>9, <1>10, <1>11 DEF Next48
<1>13. Next48(x) \in Digits3
  BY <1>12, DigitsAreInts
<1>14. PICK v \in 0 .. Modulus - 1 : v = Value(Next48(x)) /\ v = y0 + Base * y1 + Base * Base * y2
  <2>1. Value(Next48(x)) = y0 + Base * y1 + Base * Base * y2
    BY <1>12 DEF Value
  <2>2. QED
    BY <1>13, <2>1, ValueIs
<1>15. PICK n \in Int : n = Value(A) * Value(x) + C
                        /\ n = (a0 + Base * a1 + Base * Base * a2)
                               * (x0 + Base * x1 + Base * Base * x2) + C
  <2>1. Value(A) = a0 + Base * a1 + Base * Base * a2
    BY <1>1 DEF Value
  <2>2. Value(x) = x0 + Base * x1 + Base * Base * x2
    BY <1>2 DEF Value
  <2>3. (a0 + Base * a1 + Base * Base * a2) * (x0 + Base * x1 + Base * Base * x2) + C \in Int
    BY BaseIs, DigitsAreInts, DigitsAssumption
  <2>4. QED
    BY <2>1, <2>2, <2>3
<1>16. \E d \in Int : n = Modulus * d + v
  <2>1. \E d \in Int :
            (a0 + Base * a1 + Base * Base * a2) * (x0 + Base * x1 + Base * Base * x2) + C
            = Base * Base * Base * d + (y0 + Base * y1 + Base * Base * y2)
    <3>1. /\ Base \in Int /\ C \in Int /\ t \in Int
          /\ a0 \in Int /\ a1 \in Int /\ a2 \in Int /\ x0 \in Int /\ x1 \in Int /\ x2 \in Int
          /\ p0 \in Int /\ p1 \in Int /\ q0 \in Int /\ q1 \in Int /\ r0 \in Int /\ r1 \in Int
          /\ y0 \in Int /\ k0 \in Int /\ s \in Int /\ k1 \in Int /\ m \in Int /\ k2 \in Int
          /\ y1 \in Int /\ k3 \in Int /\ y2 \in Int
      BY BaseIs, DigitsAreInts, DigitsAssumption
    <3>2. PICK w \in Int : w = a0 * x2 + a1 * x1 + a2 * x0
      BY <3>1
    <3>3. PICK z \in Int : z = a1 * x2 + a2 * x1 + Base * (a2 * x2)
      BY <3>1
    <3>4. (a0 + Base * a1 + Base * Base * a2) * (x0 + Base * x1 + Base * Base * x2)
          = a0 * x0 + Base * (a0 * x1) + Base * (a1 * x0) + Base * Base * w + Base * Base * Base * z
      BY <3>1, <3>2, <3>3
    <3>5. a0 * x0 + Base * (a0 * x1) + Base * (a1 * x0) + C
          = p0 + C + Base * (p1 + q0 + r0) + Base * Base * (q1 + r1)
      BY <1>3, <1>4, <1>5, <3>1
    <3>6. p0 + C + Base * (p1 + q0 + r0) = y0 + Base * (p1 + k0 + q0 + r0)
      BY <1>6, <3>1
    <3>7. p1 + k0 + q0 + r0 = y1 + Base * (k1 + k2 + k3)
      <4>1. /\ p1 + k0 = s + Base * k1 /\ s + q0 = m + Base * k2
            /\ m + r0 = y1 + Base * k3
        BY <1>7, <1>8, <1>9
      <4>2. /\ Base * k1 \in Int /\ Base * k2 \in Int /\ Base * k3 \in Int
            /\ Base * (k1 + k2 + k3) = Base * k1 + Base * k2 + Base * k3
        BY <3>1
      <4>3. p1 + k0 + q0 + r0 = y1 + Base * k1 + Base * k2 + Base * k3
        BY <3>1, <4>1, <4>2
      <4>4. QED
        BY <3>1, <4>2, <4>3
    <3>8. Base * (p1 + k0 + q0 + r0) = Base * y1 + Base * Base * (k1 + k2 + k3)
      BY <3>1, <3>7
    <3>9. Base * Base * (k1 + k2 + k3) + Base * Base * (q1 + r1) + Base * Base * w
          = Base * Base * Base * t + Base * Base * y2
      <4>1. k1 + k2 + k3 + q1 + r1 + w = Base * t + y2
        BY <1>10, <1>11, <3>1, <3>2
      <4>2. Base * Base * (k1 + k2 + k3 + q1 + r1 + w) = Base * Base * (Base * t + y2)
        BY <4>1
      <4>3. QED
        BY <3>1, <4>2
    <3>10. (a0 + Base * a1 + Base * Base * a2) * (x0 + Base * x1 + Base * Base * x2) + C
           = Base * Base * Base * (t + z) + (y0 + Base * y1 + Base * Base * y2)
      BY <3>1, <3>4, <3>5, <3>6, <3>8, <3>9
    <3>11. PICK d \in Int : d = t + z
      BY <3>1
    <3>12. QED
      BY <3>10, <3>11
  <2>2. QED
    BY <1>14, <1>15, <2>1 DEF Modulus
<1>17. n % Modulus = v
  <2>1. Modulus \in Nat \ {0}
    BY BaseIs DEF Modulus
  <2>2. QED
    BY <1>16, <2>1, Quotient
<1>18. QED
  BY <1>13, <1>14, <1>15, <1>17 DEF Step48

-----------------------------------------------------------------------------
(* The sequence of a seed.                                                  *)

LEMMA StepIsInt ==
    ASSUME NEW n \in Int
    PROVE  Step48(n) \in Int
<1>1. Modulus \in Nat \ {0} /\ C \in Int /\ Value(A) \in Int
  BY BaseIs, DigitsAssumption, DigitsAreInts, ValueIs DEF Modulus, Digits3
<1>2. Value(A) * n + C \in Int
  BY <1>1
<1>3. QED
  BY <1>1, <1>2, Division DEF Step48

LEMMA SeedIs ==
    ASSUME NEW s \in Int
    PROVE  /\ Srand48(s) \in Digits3 /\ Value(Srand48(s)) \in Int
           /\ Srand48(s) = <<X[1], s % Base, (s \div Base) % Base>>
<1>1. s \div Base \in Int
  BY BaseIs, Division
<1>2. Low(s) \in Digit /\ High(s) \in Digit /\ X[1] \in Digit
  BY <1>1, LowIs, DigitsAssumption, DigitsAreInts DEF High, Digits3
<1>3. Srand48(s) \in Digits3
  BY <1>2, DigitsAreInts DEF Srand48
<1>4. Srand48(s) = <<X[1], s % Base, (s \div Base) % Base>>
  BY DEF Srand48, High, Low
<1>5. QED
  BY <1>3, <1>4, ValueIs

\* The steps from v can be taken any number of times.
LEMMA StepsExist ==
    ASSUME NEW v \in Int
    PROVE  \A n \in Nat : \E f \in [0 .. n -> Int] :
               f[0] = v /\ \A i \in 1 .. n : f[i] = Step48(f[i - 1])
<1> DEFINE S == {n \in Nat : \E f \in [0 .. n -> Int] :
                                 f[0] = v /\ \A i \in 1 .. n : f[i] = Step48(f[i - 1])}
<1>1. 0 \in S
  <2>1. PICK f : f = [i \in 0 .. 0 |-> v]
    OBVIOUS
  <2>2. f \in [0 .. 0 -> Int] /\ f[0] = v
    BY <2>1
  <2>3. \A i \in 1 .. 0 : f[i] = Step48(f[i - 1])
    OBVIOUS
  <2>4. QED
    BY <2>2, <2>3
<1>2. ASSUME NEW n \in Nat, n \in S
      PROVE  n + 1 \in S
  <2>1. PICK f \in [0 .. n -> Int] : f[0] = v /\ \A i \in 1 .. n : f[i] = Step48(f[i - 1])
    BY <1>2
  <2>2. PICK next \in Int : next = Step48(f[n])
    BY StepIsInt
  <2>3. PICK g : g = [i \in 0 .. n + 1 |-> IF i = n + 1 THEN next ELSE f[i]]
    OBVIOUS
  <2>4. /\ g \in [0 .. n + 1 -> Int] /\ g[n + 1] = next
        /\ \A i \in 0 .. n : g[i] = f[i]
    BY <2>3
  <2>5. g[0] = v
    BY <2>1, <2>4
  <2>6. \A i \in 1 .. n + 1 : g[i] = Step48(g[i - 1])
    <3> TAKE i \in 1 .. n + 1
    <3>1. i - 1 \in 0 .. n /\ g[i - 1] = f[i - 1]
      BY <2>4
    <3>2. CASE i = n + 1
      BY <2>2, <2>4, <3>1, <3>2
    <3>3. CASE i # n + 1
      <4>1. i \in 1 .. n /\ i \in 0 .. n
        BY <3>3
      <4>2. QED
        BY <2>1, <2>4, <3>1, <4>1
    <3>4. QED
      BY <3>2, <3>3
  <2>7. \E h \in [0 .. n + 1 -> Int] : h[0] = v /\ \A i \in 1 .. n + 1 : h[i] = Step48(h[i - 1])
    BY <2>4, <2>5, <2>6
  <2>8. n + 1 \in Nat
    OBVIOUS
  <2>9. QED
    BY <2>7, <2>8
<1>3. \A n \in Nat : n \in S => n + 1 \in S
  BY <1>2
<1> HIDE DEF S
<1>4. \A n \in Nat : n \in S
  BY <1>1, <1>3, Induction
<1>5. QED
  BY <1>4 DEF S

\* What the sequence of a seed is defined to be, it is.
LEMMA SequenceIs ==
    ASSUME NEW s \in Int
    PROVE  /\ Sequence(s)[0] = Value(Srand48(s))
           /\ \A i \in 1 .. MaxDraws : Sequence(s)[i] = Step48(Sequence(s)[i - 1])
<1>1. PICK v \in Int : v = Value(Srand48(s)) /\ v = Value(<<X[1], s % Base, (s \div Base) % Base>>)
  BY SeedIs
<1>2. MaxDraws \in Nat
  BY ScriptsAssumption
<1>3. PICK f \in [0 .. MaxDraws -> Int] :
          f[0] = v /\ \A i \in 1 .. MaxDraws : f[i] = Step48(f[i - 1])
  BY <1>2, StepsExist
<1>4. f = [i \in 0 .. MaxDraws |-> IF i = 0 THEN v ELSE Step48(f[i - 1])]
  <2>1. \A i \in 0 .. MaxDraws : f[i] = IF i = 0 THEN v ELSE Step48(f[i - 1])
    <3>1. \A i \in 0 .. MaxDraws : i = 0 \/ i \in 1 .. MaxDraws
      BY <1>2
    <3>2. QED
      BY <1>3, <3>1
  <2>2. QED
    BY <2>1
<1> DEFINE g == Sequence(s)
<1>5. g = [i \in 0 .. MaxDraws |-> IF i = 0 THEN v ELSE Step48(g[i - 1])]
  BY <1>1, <1>4 DEF Sequence
<1> HIDE DEF g
<1>6. g[0] = v /\ \A i \in 1 .. MaxDraws : g[i] = Step48(g[i - 1])
  <2>1. 0 \in 0 .. MaxDraws /\ \A i \in 1 .. MaxDraws : i \in 0 .. MaxDraws /\ i # 0
    BY <1>2
  <2>2. QED
    BY <1>5, <2>1
<1>7. QED
  BY <1>1, <1>6 DEF g

-----------------------------------------------------------------------------
(* The interval.                                                            *)

LEMMA HalfBase == \E h \in Nat \ {0} : Base = 2 * h /\ Base \div 2 = h
<1>1. PICK h \in Int : h = Base \div 2
  BY BaseIs, Division
<1>2. Base = 2 * h + 0
  BY <1>1, BaseAssumption, Division
<1>3. h \in Nat \ {0}
  BY <1>2, BaseIs
<1>4. QED
  BY <1>1, <1>2, <1>3

LEMMA RandMaxIs == RandMax \in Nat \ {0}
<1>1. PICK h \in Nat \ {0} : Base = 2 * h
  BY HalfBase
<1>2. PICK n \in Nat, q \in Nat : n = Base * Base /\ q = 2 * (h * h) /\ n = 2 * q + 0
  BY <1>1
<1>3. n \div 2 = q
  BY <1>2, Quotient
<1>4. h * h >= 1
  BY <1>1
<1>5. q >= 2
  BY <1>2, <1>4
<1>6. QED
  BY <1>2, <1>3, <1>5 DEF RandMax

\* serverLrand48 gives the high bits of the whole number.
LEMMA HighBits ==
    ASSUME NEW x \in Digits3
    PROVE  Lrand48(x) = Value(x) \div (2 * Base) /\ Lrand48(x) \in Int
<1>1. PICK h \in Nat \ {0} : Base = 2 * h /\ Base \div 2 = h
  BY HalfBase
<1>2. PICK x1, x2, x3 \in 0 .. Base - 1 : x1 = x[1] /\ x2 = x[2] /\ x3 = x[3]
  BY DigitsAreInts DEF Digit
<1>3. Base \in Nat \ {0} /\ x1 \in Int /\ x2 \in Int /\ x3 \in Int
  BY BaseIs
<1>4. PICK e \in Int, b \in 0 .. 1 : e = x2 \div 2 /\ x2 = 2 * e + b
  <2>1. x2 \div 2 \in Int /\ x2 % 2 \in 0 .. 2 - 1 /\ x2 = 2 * (x2 \div 2) + (x2 % 2)
    BY <1>3, Division
  <2>2. QED
    BY <2>1
<1>5. PICK q \in Int : q = x3 * h + e
  BY <1>1, <1>3
<1>6. PICK r \in Int : r = x1 + Base * b
  BY <1>3
<1>7. r \in 0 .. 2 * Base - 1
  <2>1. b = 0 \/ b = 1
    OBVIOUS
  <2>2. CASE b = 0
    BY <1>3, <1>6, <2>2
  <2>3. CASE b = 1
    BY <1>3, <1>6, <2>3
  <2>4. QED
    BY <2>1, <2>2, <2>3
<1>8. PICK n \in Int : n = Value(x) /\ n = x1 + Base * x2 + Base * Base * x3
  BY <1>2, <1>3 DEF Value
<1>9. n = (2 * Base) * q + r
  <2>1. Base * x2 = Base * (2 * e) + Base * b
    BY <1>3, <1>4
  <2>2. Base * Base * x3 = 2 * Base * (x3 * h)
    BY <1>1, <1>3
  <2>3. (2 * Base) * q = 2 * Base * (x3 * h) + Base * (2 * e)
    BY <1>1, <1>3, <1>5
  <2>4. QED
    BY <1>3, <1>6, <1>8, <2>1, <2>2, <2>3
<1>10. n \div (2 * Base) = q
  <2>1. PICK m \in Nat \ {0} : m = 2 * Base
    BY <1>3
  <2>2. QED
    BY <1>7, <1>9, <2>1, Quotient
<1>11. Lrand48(x) = q
  BY <1>1, <1>2, <1>4, <1>5 DEF Lrand48
<1>12. QED
  BY <1>8, <1>10, <1>11

\* The place in the interval that a fraction of all the numbers gives.
LEMMA InInterval ==
    ASSUME NEW max \in Nat \ {0}, NEW k \in 0 .. max - 1, NEW lo \in Int, NEW hi \in Int, lo <= hi,
           NEW n \in Int, n = (k * (hi - lo + 1)) \div max + lo
    PROVE  /\ n \in lo .. hi
           /\ (n - lo) * max <= k * (hi - lo + 1)
           /\ k * (hi - lo + 1) < (n - lo + 1) * max
<1>1. PICK size \in Nat \ {0} : size = hi - lo + 1
  OBVIOUS
<1>2. PICK z \in Nat : z = k * size
  BY <1>1
<1>3. PICK q \in Int, r \in 0 .. max - 1 : q = z \div max /\ z = max * q + r
  BY <1>2, Division
<1>4. n - lo = q
  BY <1>1, <1>2, <1>3
<1>5. q * max <= z /\ z < (q + 1) * max
  BY <1>3
<1>6. q >= 0
  <2>1. q <= -1 => (q + 1) * max <= 0
    OBVIOUS
  <2>2. QED
    BY <1>2, <1>5, <2>1
<1>7. q < size
  <2>1. q >= size => q * max >= size * max
    BY <1>1
  <2>2. k * size < max * size
    BY <1>1
  <2>3. size * max = max * size /\ q * max \in Int /\ size * max \in Int
    BY <1>1
  <2>4. ~(q >= size)
    BY <1>2, <1>5, <2>1, <2>2, <2>3
  <2>5. QED
    BY <1>1, <2>4
<1>8. n \in lo .. hi
  BY <1>1, <1>4, <1>6, <1>7
<1>9. QED
  BY <1>1, <1>2, <1>4, <1>5, <1>8

LEMMA EmptyArguments ==
    ASSUME NEW args, DOMAIN args = 1 .. Len(args), Len(args) = 0
    PROVE  args = <<>>
OBVIOUS

LEMMA DrawnIs ==
    ASSUME NEW x \in Digits3, NEW args \in RandomArgs, args # <<>>,
           MathRandom(x, args).err = "none"
    PROVE  LET k == (Value(x) \div (2 * Base)) % RandMax
               b == Bounds(args)
               n == MathRandom(x, args).n
           IN  /\ n \in b[1] .. b[2]
               /\ (n - b[1]) * RandMax <= k * (b[2] - b[1] + 1)
               /\ k * (b[2] - b[1] + 1) < (n - b[1] + 1) * RandMax
<1>1. PICK k \in 0 .. RandMax - 1 :
          k = Lrand48(x) % RandMax /\ k = (Value(x) \div (2 * Base)) % RandMax
  BY HighBits, RandMaxIs, Division
<1>2. /\ Len(args) \in Nat /\ DOMAIN args = 1 .. Len(args)
      /\ \A i \in DOMAIN args : IsInt(args[i]) => args[i].n \in Int
  BY ScriptsAssumption
<1>3. PICK m : m = MathRandom(x, args)
  OBVIOUS
<1>4. m.err = "none"
  BY <1>3
<1>5. CASE Len(args) \in 1 .. 2 /\ \A i \in DOMAIN args : IsInt(args[i])
  <2>1. PICK lo, hi \in Int : Bounds(args) = <<lo, hi>>
    <3>1. CASE Len(args) = 1
      <4>1. args[1].n \in Int
        BY <1>2, <1>5, <3>1
      <4>2. Bounds(args) = <<1, args[1].n>>
        BY <3>1 DEF Bounds
      <4>3. PICK lo, hi \in Int : lo = 1 /\ hi = args[1].n
        BY <4>1
      <4>4. QED
        BY <4>2, <4>3
    <3>2. CASE Len(args) = 2
      <4>1. args[1].n \in Int /\ args[2].n \in Int
        BY <1>2, <1>5, <3>2
      <4>2. Bounds(args) = <<args[1].n, args[2].n>>
        BY <3>2 DEF Bounds
      <4>3. QED
        BY <4>1, <4>2
    <3>3. QED
      BY <1>5, <3>1, <3>2
  <2>2. m = IF lo > hi THEN [err |-> "interval is empty", n |-> 0]
            ELSE [err |-> "none", n |-> (k * (hi - lo + 1)) \div RandMax + lo]
    <3>1. ~(Len(args) > 2)
      <4>1. PICK n \in 1 .. 2 : n = Len(args)
        BY <1>5
      <4>2. ~(n > 2)
        OBVIOUS
      <4>3. QED
        BY <4>1, <4>2, Zenon
    <3>2. Bounds(args)[1] = lo /\ Bounds(args)[2] = hi
      BY <2>1
    <3>3. QED
      BY <1>1, <1>3, <1>5, <3>1, <3>2 DEF MathRandom
  <2>3. lo <= hi
    <3>1. ~(lo > hi)
      BY <1>4, <2>2
    <3>2. QED
      BY <3>1
  <2>4. PICK n \in Int : n = m.n /\ n = (k * (hi - lo + 1)) \div RandMax + lo
    <3>1. k * (hi - lo + 1) \in Int
      BY RandMaxIs
    <3>2. (k * (hi - lo + 1)) \div RandMax + lo \in Int
      BY <3>1, RandMaxIs, Division
    <3>3. ~(lo > hi)
      BY <2>3
    <3>4. m = [err |-> "none", n |-> (k * (hi - lo + 1)) \div RandMax + lo]
      BY <2>2, <3>3
    <3>5. m.n = (k * (hi - lo + 1)) \div RandMax + lo
      BY <3>4
    <3>6. QED
      BY <3>2, <3>5
  <2>5. /\ n \in lo .. hi
        /\ (n - lo) * RandMax <= k * (hi - lo + 1)
        /\ k * (hi - lo + 1) < (n - lo + 1) * RandMax
    BY <2>3, <2>4, RandMaxIs, InInterval
  <2>6. QED
    BY <1>1, <1>3, <2>1, <2>4, <2>5
<1>6. CASE ~(Len(args) \in 1 .. 2 /\ \A i \in DOMAIN args : IsInt(args[i]))
  <2>1. Len(args) # 0
    BY <1>2, EmptyArguments
  <2>2. CASE Len(args) > 2
    <3>1. m = [err |-> "wrong number of arguments", n |-> 0]
      <4>1. ~(Len(args) \in 1 .. 2)
        <5>1. \A l \in Nat : l > 2 => ~(l \in 1 .. 2)
          OBVIOUS
        <5>2. QED
          BY <1>2, <2>2, <5>1, Zenon
      <4>2. MathRandom(x, args) = [err |-> "wrong number of arguments", n |-> 0]
        BY <2>2, <4>1, Zenon DEF MathRandom
      <4>3. QED
        BY <1>3, <4>2
    <3>2. QED
      BY <1>4, <3>1
  <2>3. CASE Len(args) \in 1 .. 2 /\ \E i \in DOMAIN args : ~IsInt(args[i])
    <3>1. m = [err |-> "number expected", n |-> 0]
      BY <1>2, <1>3, <2>3 DEF MathRandom
    <3>2. QED
      BY <1>4, <3>1
  <2>4. QED
    BY <1>2, <1>6, <2>1, <2>2, <2>3
<1>7. QED
  BY <1>5, <1>6

-----------------------------------------------------------------------------
(* The invariant: the digits are those of the sequence's present place.     *)

RngInv ==
    /\ rng \in Digits3 /\ seed \in Int /\ draws \in 0 .. MaxDraws
    /\ Value(rng) = Sequence(seed)[draws]
    /\ draws > 0 => asked \in RandomArgs /\ drawn = MathRandom(rng, asked)

LEMMA RngInvInit == RngInit => RngInv
<1> SUFFICES ASSUME RngInit
             PROVE  RngInv
  OBVIOUS
<1>1. PICK x1, x2, x3 \in Digit : x1 = X[1] /\ x2 = X[2] /\ x3 = X[3]
  BY DigitsAssumption, DigitsAreInts DEF Digits3
<1>2. Base \in Nat \ {0} /\ x2 \in 0 .. Base - 1 /\ x3 \in 0 .. Base - 1
  BY BaseIs DEF Digit
<1>3. PICK s \in Int : s = seed /\ s = Base * x3 + x2
  BY <1>1, <1>2 DEF RngInit
<1>4. s % Base = x2 /\ s \div Base = x3
  BY <1>2, <1>3, Quotient
<1>5. x3 % Base = x3
  <2>1. x3 = Base * 0 + x3
    BY <1>2
  <2>2. QED
    BY <1>2, <2>1, Quotient
<1>6. Srand48(s) = <<x1, x2, x3>>
  BY <1>1, <1>4, <1>5 DEF Srand48, Low, High
<1>7. X = <<x1, x2, x3>>
  <2>1. X \in [1 .. 3 -> Digit]
    BY DigitsAssumption
  <2>2. \A i \in 1 .. 3 : X[i] = <<x1, x2, x3>>[i]
    BY <1>1
  <2>3. <<x1, x2, x3>> \in [1 .. 3 -> Digit]
    OBVIOUS
  <2>4. QED
    BY <2>1, <2>2, <2>3
<1>8. rng = Srand48(s) /\ draws = 0
  BY <1>6, <1>7 DEF RngInit
<1>9. 0 \in 0 .. MaxDraws /\ ~(0 > 0)
  BY ScriptsAssumption
<1>10. QED
  BY <1>3, <1>8, <1>9, SeedIs, SequenceIs DEF RngInv

LEMMA RngInvNext == RngInv /\ [RngNext]_rngVars => RngInv'
<1> SUFFICES ASSUME RngInv, [RngNext]_rngVars
             PROVE  RngInv'
  OBVIOUS
<1>1. CASE \E s \in Seeds : RandomSeed(s)
  <2>1. PICK s \in Int : rng' = Srand48(s) /\ seed' = s /\ draws' = 0
    BY <1>1, ScriptsAssumption DEF RandomSeed
  <2>2. 0 \in 0 .. MaxDraws /\ ~(0 > 0)
    BY ScriptsAssumption
  <2>3. QED
    BY <2>1, <2>2, SeedIs, SequenceIs DEF RngInv
<1>2. CASE \E args \in RandomArgs : Random(args)
  <2>1. PICK args \in RandomArgs : Random(args)
    BY <1>2
  <2>2. /\ draws < MaxDraws /\ rng' = Next48(rng) /\ drawn' = MathRandom(rng', args)
        /\ draws' = draws + 1 /\ asked' = args /\ seed' = seed
    BY <2>1 DEF Random
  <2>3. rng' \in Digits3 /\ Value(rng') = Step48(Value(rng))
    BY <2>2, NextIs DEF RngInv
  <2>4. MaxDraws \in Nat /\ draws \in 0 .. MaxDraws
    BY ScriptsAssumption DEF RngInv
  <2>5. draws + 1 \in 1 .. MaxDraws /\ draws + 1 - 1 = draws /\ draws + 1 \in 0 .. MaxDraws
    BY <2>2, <2>4
  <2>6. Sequence(seed)[draws + 1] = Step48(Sequence(seed)[draws])
    BY <2>5, SequenceIs DEF RngInv
  <2>7. QED
    BY <2>2, <2>3, <2>5, <2>6 DEF RngInv
<1>3. CASE UNCHANGED rngVars
  BY <1>3 DEF rngVars, RngInv
<1>4. QED
  BY <1>1, <1>2, <1>3 DEF RngNext

-----------------------------------------------------------------------------
(* The theorems.                                                            *)

\* next of rand.c, its digits multiplied and its carries added one by one, is
\* drand48's step of the whole number, whichever of the 2^48 that is.
THEOREM NextIsCongruential ==
    ASSUME NEW x \in [1 .. 3 -> Digit]
    PROVE  Next48(x) \in [1 .. 3 -> Digit] /\ Value(Next48(x)) = Step48(Value(x))
BY NextIs DEF Digits3

\* After any seed and any number of draws the generator is where drand48's
\* sequence is, and what math.random gave lies in its interval, where the high
\* bits put it.
THEOREM SequenceDrawn == RngSpec => []RandomSequence
<1>1. RngInv => RandomSequence
  <2> SUFFICES ASSUME RngInv
               PROVE  RandomSequence
    OBVIOUS
  <2>1. rng \in Digits3 /\ Value(rng) = Sequence(seed)[draws]
    BY DEF RngInv
  <2>2. CASE draws > 0 /\ drawn.err = "none" /\ asked # <<>>
    <3>1. asked \in RandomArgs /\ drawn = MathRandom(rng, asked)
      BY <2>2 DEF RngInv
    <3>2. QED
      BY <2>1, <2>2, <3>1, DrawnIs DEF RandomSequence
  <2>3. CASE ~(draws > 0 /\ drawn.err = "none" /\ asked # <<>>)
    BY <2>1, <2>3 DEF RandomSequence
  <2>4. QED
    BY <2>2, <2>3
<1>2. QED
  BY <1>1, RngInvInit, RngInvNext, PTL DEF RngSpec

-----------------------------------------------------------------------------
(* Sequences of anything.                                                   *)

IsSeq(s) == \E S : s \in Seq(S)

LEMMA AnySeq ==
    ASSUME NEW s, IsSeq(s)
    PROVE  Len(s) \in Nat /\ DOMAIN s = 1 .. Len(s) /\ s = [i \in 1 .. Len(s) |-> s[i]]
<1>1. PICK S : s \in Seq(S)
  BY DEF IsSeq
<1>2. Len(s) \in Nat /\ s \in [1 .. Len(s) -> S]
  BY <1>1, LenProperties, SeqDef
<1>3. QED
  BY <1>2

LEMMA FunctionSeq ==
    ASSUME NEW n \in Nat, NEW f, f = [i \in 1 .. n |-> f[i]]
    PROVE  IsSeq(f) /\ Len(f) = n
<1> DEFINE S == {f[i] : i \in 1 .. n}
<1>1. f \in [1 .. n -> S]
  OBVIOUS
<1>2. f \in Seq(S)
  BY <1>1, SeqDef
<1>3. Len(f) = n
  BY <1>1, <1>2, LenProperties
<1>4. QED
  BY <1>2, <1>3 DEF IsSeq

LEMMA Joined ==
    ASSUME NEW s, NEW t, IsSeq(s), IsSeq(t)
    PROVE  /\ IsSeq(s \o t) /\ Len(s \o t) = Len(s) + Len(t)
           /\ \A i \in 1 .. Len(s) : (s \o t)[i] = s[i]
           /\ \A i \in 1 .. Len(t) : (s \o t)[Len(s) + i] = t[i]
<1>1. PICK S, T : s \in Seq(S) /\ t \in Seq(T)
  BY DEF IsSeq
<1>2. s \in Seq(S \cup T) /\ t \in Seq(S \cup T)
  BY <1>1, SeqMonotonic
<1>3. Len(s) \in Nat /\ Len(t) \in Nat
  BY <1>1, LenProperties
<1>4. \A i \in 1 .. Len(t) : Len(s) + i \in 1 .. Len(s) + Len(t) /\ ~(Len(s) + i <= Len(s))
                             /\ Len(s) + i - Len(s) = i
  BY <1>3
<1>5. \A i \in 1 .. Len(s) : i \in 1 .. Len(s) + Len(t) /\ i <= Len(s)
  BY <1>3
<1>6. QED
  BY <1>2, <1>4, <1>5, ConcatProperties DEF IsSeq

LEMMA OneSeq ==
    ASSUME NEW x
    PROVE  IsSeq(<<x>>) /\ Len(<<x>>) = 1 /\ <<x>>[1] = x
<1>1. <<x>> \in Seq({x}) /\ Len(<<x>>) = 1 /\ <<x>>[1] = x
  OBVIOUS
<1>2. QED
  BY <1>1 DEF IsSeq

\* u is what s has after a elements, n of them.
IsCut(u, s, a, n) ==
    /\ IsSeq(u) /\ Len(u) = n /\ DOMAIN u = 1 .. n
    /\ \A i \in 1 .. n : u[i] = s[a + i]

LEMMA CutOut ==
    ASSUME NEW s, IsSeq(s), NEW a \in Nat, NEW n \in Nat, a + n <= Len(s)
    PROVE  IsCut(SubSeq(s, a + 1, a + n), s, a, n)
<1>1. PICK S : s \in Seq(S)
  BY DEF IsSeq
<1>2. Len(s) \in Nat /\ \A i \in 1 .. Len(s) : s[i] \in S
  BY <1>1, LenProperties, ElementOfSeq
<1>3. \A i \in a + 1 .. a + n : s[i] \in S
  BY <1>2
<1> DEFINE u == SubSeq(s, a + 1, a + n)
<1>4. CASE n = 0
  <2>1. u = <<>>
    BY <1>1, <1>4, SubSeqProperties
  <2>2. u \in Seq(S) /\ Len(u) = 0
    BY <2>1, EmptySeq
  <2>3. QED
    BY <1>4, <2>2, AnySeq DEF IsSeq, IsCut
<1>5. CASE n > 0
  <2>1. a + 1 \in 1 .. Len(s) /\ a + n \in 1 .. Len(s) /\ a + 1 <= a + n
    BY <1>2, <1>5
  <2>2. u \in Seq(S) /\ Len(u) = a + n - (a + 1) + 1
        /\ \A i \in 1 .. Len(u) : u[i] = s[a + 1 + i - 1]
    BY <1>1, <1>3, <2>1, SubSeqProperties
  <2>3. Len(u) = n /\ \A i \in 1 .. n : a + 1 + i - 1 = a + i
    <3>1. a + n - (a + 1) + 1 = n
      OBVIOUS
    <3>2. \A i \in 1 .. n : a + 1 + i - 1 = a + i
      OBVIOUS
    <3>3. QED
      BY <2>2, <3>1, <3>2
  <2>4. QED
    BY <2>2, <2>3, AnySeq DEF IsSeq, IsCut
<1>6. QED
  BY <1>4, <1>5

-----------------------------------------------------------------------------
(* SHA1Update: what a context has absorbed.                                 *)

\* The counts are those of the bits of s.
Counted(c, s) ==
    /\ c.low = (Len(s) * BitsPerByte) % CountWord
    /\ c.high = (Len(s) * BitsPerByte) \div CountWord

\* The whole blocks of s were compressed, the rest is in the buffer.
Stored(c, s) ==
    /\ IsSeq(c.blocks) /\ Len(c.blocks) = Len(s) \div Block
    /\ \A n \in 0 .. Len(c.blocks) - 1 : \A k \in 1 .. Block :
           c.blocks[n + 1][k] = s[Block * n + k]
    /\ \A k \in 1 .. Len(s) % Block : c.buffer[k] = s[Block * (Len(s) \div Block) + k]

Absorbed(c, s) == Counted(c, s) /\ Stored(c, s)

LEMMA WordBits ==
    \E w \in Nat \ {0} : CountWord = BitsPerByte * Block * w
<1>1. CountWord \in Nat \ {0} /\ CountWord % 512 = 0
  BY CountAssumption DEF Block, BitsPerByte
<1>2. CountWord = 512 * (CountWord \div 512) /\ CountWord \div 512 \in Int
  BY <1>1, Division
<1>3. PICK w \in Int : w = CountWord \div 512
  BY <1>2
<1>4. CountWord = 512 * w /\ w \in Nat \ {0}
  BY <1>1, <1>2, <1>3
<1>5. BitsPerByte * Block * w = 512 * w
  BY <1>3 DEF Block, BitsPerByte
<1>6. QED
  BY <1>4, <1>5

LEMMA EightTimes ==
    ASSUME NEW n \in Nat
    PROVE  \E q \in Int, r \in 0 .. CountWord - 1 :
               q = (n * 8) \div CountWord /\ r = (n * 8) % CountWord /\ n * 8 = CountWord * q + r
<1>1. PICK b \in Int : b = n * 8
  OBVIOUS
<1>2. b \div CountWord \in Int /\ b % CountWord \in 0 .. CountWord - 1
      /\ b = CountWord * (b \div CountWord) + (b % CountWord)
  BY CountAssumption, Division
<1>3. QED
  BY <1>1, <1>2

LEMMA PlaceInBuffer ==
    ASSUME NEW c, NEW s, IsSeq(s), Counted(c, s)
    PROVE  InBuffer(c) = Len(s) % Block
<1>1. PICK L \in Nat : L = Len(s)
  BY AnySeq
<1>2. PICK w \in Nat \ {0} : CountWord = 512 * w
  BY WordBits DEF Block, BitsPerByte
<1>3. PICK h \in Int, l \in Int : h = (L * 8) \div CountWord /\ l = (L * 8) % CountWord
                                  /\ L * 8 = CountWord * h + l
  BY EightTimes
<1>4. PICK v \in Int : v = w * h
  BY <1>2
<1>5. CountWord * h = 512 * v
  BY <1>2, <1>4
<1>6. l = 8 * (L - 64 * v) + 0
  BY <1>3, <1>5
<1>7. l \div 8 = L - 64 * v
  <2>1. L - 64 * v \in Int /\ 0 \in 0 .. 8 - 1
    OBVIOUS
  <2>2. QED
    BY <1>6, <2>1, Quotient
<1>8. PICK n \in Int, j \in 0 .. 63 : n = L \div 64 /\ j = L % 64 /\ L = 64 * n + j
  BY Division
<1>9. L - 64 * v = 64 * (n - v) + j
  BY <1>8
<1>10. (L - 64 * v) % 64 = j
  <2>1. n - v \in Int /\ L - 64 * v \in Int /\ j \in 0 .. 64 - 1
    BY <1>8
  <2>2. QED
    BY <1>9, <2>1, Quotient
<1>11. c.low = l
  BY <1>1, <1>3 DEF Counted, BitsPerByte
<1>12. QED
  BY <1>1, <1>7, <1>8, <1>10, <1>11 DEF InBuffer, BitsPerByte, Block

\* Two numbers are added digit by digit, the carry seen in the wrap.
LEMMA Wrap ==
    ASSUME NEW M \in Nat \ {0}, NEW a \in Int, NEW b \in Int,
           NEW h \in Int, NEW l \in 0 .. M - 1, a = M * h + l,
           NEW q \in Int, NEW r \in 0 .. M - 1, b = M * q + r
    PROVE  /\ (l + b) % M \in Int
           /\ (a + b) % M = (l + b) % M
           /\ (l + b) % M < l => (a + b) \div M = h + 1 + q
           /\ ~((l + b) % M < l) => (a + b) \div M = h + q
<1>1. PICK p \in Int, g \in Int : p = M * q /\ g = M * h
  OBVIOUS
<1>2. PICK e \in {0, 1} : e = IF l + r < M THEN 0 ELSE 1
  OBVIOUS
<1>3. PICK d \in Int, low \in Int : d = M * e /\ low = l + r - d
  BY <1>2
<1>4. d = IF l + r < M THEN 0 ELSE M
  BY <1>2, <1>3
<1>5. low \in 0 .. M - 1 /\ (low < l <=> e = 1)
  BY <1>2, <1>3, <1>4
<1>6. PICK x \in Int, y \in Int : x = l + b /\ y = a + b
  OBVIOUS
<1>7. PICK i \in Int, j \in Int : i = q + e /\ j = h + q + e
  BY <1>2
<1>8. M * i = p + d /\ M * j = g + p + d
  BY <1>1, <1>2, <1>3, <1>7
<1>9. x = M * i + low /\ y = M * j + low
  BY <1>1, <1>3, <1>6, <1>8
<1>10. x % M = low
  BY <1>5, <1>9, Quotient
<1>11. y % M = low /\ y \div M = j
  BY <1>5, <1>9, Quotient
<1>12. QED
  BY <1>2, <1>5, <1>6, <1>7, <1>10, <1>11

LEMMA CountKept ==
    ASSUME NEW c, NEW s, NEW t, IsSeq(s), IsSeq(t), Counted(c, s)
    PROVE  /\ CountLow(c, Len(t)) = (Len(s \o t) * BitsPerByte) % CountWord
           /\ CountHigh(c, Len(t)) = (Len(s \o t) * BitsPerByte) \div CountWord
<1>1. PICK L \in Nat, len \in Nat : L = Len(s) /\ len = Len(t) /\ Len(s \o t) = L + len
  BY AnySeq, Joined
<1>2. PICK M \in Nat \ {0} : M = CountWord
  BY CountAssumption
<1>3. PICK h \in Int, l \in 0 .. M - 1 :
          h = (L * 8) \div M /\ l = (L * 8) % M /\ L * 8 = M * h + l
  BY <1>1, <1>2, EightTimes
<1>4. PICK q \in Int, r \in 0 .. M - 1 :
          q = (len * 8) \div M /\ r = (len * 8) % M /\ len * 8 = M * q + r
  BY <1>1, <1>2, EightTimes
<1>5. PICK a \in Int, b \in Int : a = L * 8 /\ b = len * 8 /\ (L + len) * 8 = a + b
  OBVIOUS
<1>6. a = M * h + l /\ b = M * q + r
  BY <1>3, <1>4, <1>5
<1>7. /\ (l + b) % M \in Int
      /\ (a + b) % M = (l + b) % M
      /\ (l + b) % M < l => (a + b) \div M = h + 1 + q
      /\ ~((l + b) % M < l) => (a + b) \div M = h + q
  BY <1>6, Wrap
<1>8. c.low = l /\ c.high = h
  BY <1>1, <1>2, <1>3 DEF Counted, BitsPerByte
<1>9. PICK low \in Int : low = (l + b) % M
  BY <1>7
<1>10. CountLow(c, len) = low
  BY <1>2, <1>5, <1>8, <1>9 DEF CountLow, BitsPerByte
<1>11. (a + b) \div M = h + (IF low < l THEN 1 ELSE 0) + q
  BY <1>7, <1>9
<1>12. CountHigh(c, len) = (a + b) \div M
  BY <1>2, <1>4, <1>8, <1>10, <1>11 DEF CountHigh, BitsPerByte
<1>13. QED
  BY <1>1, <1>2, <1>5, <1>7, <1>9, <1>10, <1>12 DEF BitsPerByte

\* z is s, of L elements, and t, of len.
Join(z, s, t, L, len) ==
    IsSeq(s) /\ IsSeq(t) /\ Len(s) = L /\ Len(t) = len /\ z = s \o t

JoinAt(z, s, t, L, len) ==
    /\ Len(z) = L + len
    /\ \A k \in 1 .. L : z[k] = s[k]
    /\ \A k \in 1 .. len : z[L + k] = t[k]

LEMMA JoinIs ==
    ASSUME NEW z, NEW s, NEW t, NEW L \in Nat, NEW len \in Nat, Join(z, s, t, L, len)
    PROVE  JoinAt(z, s, t, L, len)
<1>1. IsSeq(s) /\ IsSeq(t) /\ Len(s) = L /\ Len(t) = len
  BY DEF Join
<1>2. /\ Len(s \o t) = Len(s) + Len(t)
      /\ \A k \in 1 .. Len(s) : (s \o t)[k] = s[k]
      /\ \A i \in 1 .. Len(t) : (s \o t)[Len(s) + i] = t[i]
  BY <1>1, Joined
<1>3. QED
  BY <1>1, <1>2 DEF Join, JoinAt

\* The parts of an update whose data fit in the buffer.
LEMMA UpdateShort ==
    ASSUME NEW c, NEW t, NEW j, NEW len, j = InBuffer(c), len = Len(t), ~Fills(j, len)
    PROVE  /\ ShaUpdate(c, t).blocks = c.blocks
           /\ ShaUpdate(c, t).buffer = CopyTo(c.buffer, j, t)
BY DEF ShaUpdate

\* Of s, n whole blocks and r bytes.
StoredAs(u, s, n, r) ==
    /\ n = Len(s) \div 64 /\ r = Len(s) % 64
    /\ IsSeq(u.blocks) /\ Len(u.blocks) = n
    /\ \A m \in 0 .. n - 1 : \A k \in 1 .. 64 : u.blocks[m + 1][k] = s[64 * m + k]
    /\ \A k \in 1 .. r : u.buffer[k] = s[64 * n + k]

LEMMA StoredWhen ==
    ASSUME NEW u, NEW s, NEW n \in Int, NEW r \in Int, StoredAs(u, s, n, r)
    PROVE  Stored(u, s)
<1> USE DEF StoredAs
<1>1. \A k \in 1 .. Len(s) % 64 : u.buffer[k] = s[64 * (Len(s) \div 64) + k]
  OBVIOUS
<1>2. \A m \in 0 .. Len(u.blocks) - 1 : \A k \in 1 .. 64 : u.blocks[m + 1][k] = s[64 * m + k]
  OBVIOUS
<1>3. QED
  BY <1>1, <1>2 DEF Stored, Block

LEMMA StoredShort ==
    ASSUME NEW c, NEW z, NEW s, NEW t, NEW L \in Nat, NEW len \in Nat, Join(z, s, t, L, len),
           Absorbed(c, s), ~Fills(InBuffer(c), len)
    PROVE  Stored(ShaUpdate(c, t), z)
<1> JoinAt(z, s, t, L, len)
  BY JoinIs
<1>1. L = Len(s) /\ len = Len(t) /\ Len(z) = L + len /\ IsSeq(s) /\ IsSeq(t)
  <2>1. Len(z) = L + len
    BY DEF JoinAt
  <2>2. QED
    BY <2>1 DEF Join
<1>0. \A a \in 1 .. len : z[L + a] = t[a]
  BY DEF JoinAt
<1>2. PICK n \in Int, j \in 0 .. 63 : n = L \div 64 /\ j = L % 64 /\ L = 64 * n + j
  BY Division
<1>3. InBuffer(c) = j
  BY <1>1, <1>2, PlaceInBuffer DEF Absorbed, Block
<1>4. j + len \in 0 .. 63
  <2>1. ~Fills(j, len)
    BY <1>1, <1>3
  <2>2. QED
    BY <2>1 DEF Fills, Block
<1>5. (L + len) \div 64 = n /\ (L + len) % 64 = j + len
  <2>1. PICK a \in Int, b \in 0 .. 63 : a = L + len /\ b = j + len /\ a = 64 * n + b
    BY <1>2, <1>4
  <2>2. QED
    BY <2>1, Quotient
<1> DEFINE u == ShaUpdate(c, t)
<1>6. u.blocks = c.blocks /\ u.buffer = CopyTo(c.buffer, j, t)
  BY <1>1, <1>3, UpdateShort
<1>7. /\ IsSeq(c.blocks) /\ Len(c.blocks) = n
      /\ \A m \in 0 .. n - 1 : \A k \in 1 .. 64 : c.blocks[m + 1][k] = s[64 * m + k]
      /\ \A k \in 1 .. j : c.buffer[k] = s[64 * n + k]
  BY <1>1, <1>2 DEF Absorbed, Stored, Block
<1>8. ASSUME NEW m \in 0 .. n - 1, NEW k \in 1 .. 64
      PROVE  c.blocks[m + 1][k] = z[64 * m + k]
  <2>1. PICK i \in 1 .. L : i = 64 * m + k
    BY <1>2
  <2>2. z[i] = s[i]
    BY DEF JoinAt
  <2>3. QED
    BY <1>7, <2>1, <2>2
<1>9. ASSUME NEW k \in 1 .. j + len
      PROVE  u.buffer[k] = z[64 * n + k]
  <2> HIDE DEF u
  <2>1. PICK i \in Int : i = 64 * n + k
    BY <1>2
  <2>2. DOMAIN t = 1 .. len /\ k \in 1 .. 64
    <3>1. DOMAIN t = 1 .. len
      BY <1>1, AnySeq
    <3>2. QED
      BY <1>4, <3>1
  <2>3. u.buffer[k] = IF k - j \in 1 .. len THEN t[k - j] ELSE c.buffer[k]
    BY <1>6, <2>2 DEF CopyTo, Block
  <2>4. ASSUME k <= j PROVE u.buffer[k] = z[i]
    <3>1. ~(k - j \in 1 .. len) /\ i \in 1 .. L /\ k \in 1 .. j
      <4>1. n >= 0
        BY <1>2
      <4>2. QED
        BY <1>2, <2>1, <2>4, <4>1
    <3>2. z[i] = s[i]
      BY <3>1 DEF JoinAt
    <3>3. u.buffer[k] = c.buffer[k]
      BY <2>3, <3>1
    <3>4. c.buffer[k] = s[i]
      <4>1. c.buffer[k] = s[64 * n + k]
        BY <1>7, <3>1
      <4>2. QED
        BY <2>1, <4>1
    <3>5. QED
      BY <3>2, <3>3, <3>4
  <2>5. ASSUME ~(k <= j) PROVE u.buffer[k] = z[i]
    <3>1. PICK m \in 1 .. len : m = k - j /\ i = L + m
      BY <1>2, <2>1, <2>5
    <3>2. z[L + m] = t[m]
      BY <1>0
    <3>3. QED
      BY <2>3, <3>1, <3>2
  <2>6. QED
    BY <2>1, <2>4, <2>5
<1>10. Len(z) \div 64 = n /\ Len(z) % 64 = j + len
  BY <1>1, <1>5
<1>11. IsSeq(u.blocks) /\ Len(u.blocks) = n
  BY <1>6, <1>7
<1>12. \A m \in 0 .. n - 1 : \A k \in 1 .. 64 : u.blocks[m + 1][k] = z[64 * m + k]
  BY <1>6, <1>8
<1> HIDE DEF u
<1>13. PICK r \in Int : r = j + len
  BY <1>1, <1>2
<1>14. \A k \in 1 .. r : u.buffer[k] = z[64 * n + k]
  BY <1>9, <1>13
<1>15. StoredAs(u, z, n, r)
  BY <1>10, <1>11, <1>12, <1>13, <1>14 DEF StoredAs
<1>16. Stored(u, z)
  BY <1>15, StoredWhen
<1>17. QED
  BY <1>16 DEF u

\* s is n blocks and the j bytes in the buffer, which d more fill.
Holds(c, s, L, n, j, d) ==
    L = 64 * n + j /\ d = 64 - j /\ \A k \in 1 .. j : c.buffer[k] = s[64 * n + k]

\* The completed buffer is the block of s \o t it stands for.
BlockAt(b, z, n) == \A k \in 1 .. 64 : b[k] = z[64 * n + k]

IsStart(v, t, d) == v = SubSeq(t, 1, d)

LEMMA Completed ==
    ASSUME NEW c, NEW cut, NEW z, NEW s, NEW t, NEW L \in Nat, NEW len \in Nat, Join(z, s, t, L, len),
           NEW n \in Nat, NEW j \in 0 .. 63, NEW fill \in Nat,
           Holds(c, s, L, n, j, fill), fill <= len, IsStart(cut, t, fill)
    PROVE  BlockAt(CopyTo(c.buffer, j, cut), z, n)
<1> JoinAt(z, s, t, L, len)
  BY JoinIs
<1>8. \A b \in 1 .. L : z[b] = s[b]
  BY DEF JoinAt
<1>9. \A b \in 1 .. len : z[L + b] = t[b]
  BY DEF JoinAt
<1> SUFFICES ASSUME NEW k \in 1 .. 64
             PROVE  CopyTo(c.buffer, j, cut)[k] = z[64 * n + k]
  BY DEF BlockAt
<1>1. PICK i \in Int : i = 64 * n + k
  OBVIOUS
<1>2. PICK a \in Nat : fill = 64 - j /\ a = 0 /\ a + 1 = 1 /\ a + fill = fill
  BY DEF Holds
<1>3. DOMAIN cut = 1 .. fill /\ \A m \in 1 .. fill : cut[m] = t[m]
  <2>1. a + fill <= Len(t) /\ \A m \in 1 .. fill : a + m = m
    BY <1>2 DEF Join
  <2>2. IsCut(SubSeq(t, a + 1, a + fill), t, a, fill)
    <3>1. IsSeq(t)
      BY DEF Join
    <3>2. QED
      BY <2>1, <3>1, CutOut
  <2>3. IsCut(cut, t, a, fill)
    BY <1>2, <2>2 DEF IsStart
  <2>4. QED
    BY <2>1, <2>3 DEF IsCut
<1>4. CopyTo(c.buffer, j, cut)[k] = IF k - j \in 1 .. fill THEN cut[k - j] ELSE c.buffer[k]
  BY <1>3 DEF CopyTo, Block
<1>5. ASSUME k <= j
      PROVE  CopyTo(c.buffer, j, cut)[k] = z[i]
  <2>1. ~(k - j \in 1 .. fill) /\ i \in 1 .. L
    BY <1>1, <1>2, <1>5 DEF Holds
  <2>2. z[i] = s[i]
    BY <1>8, <2>1
  <2>3. c.buffer[k] = s[i]
    <3>1. c.buffer[k] = s[64 * n + k]
      BY <1>5 DEF Holds
    <3>2. QED
      BY <1>1, <3>1
  <2>4. QED
    BY <1>4, <2>1, <2>2, <2>3
<1>6. ASSUME ~(k <= j)
      PROVE  CopyTo(c.buffer, j, cut)[k] = z[i]
  <2>1. PICK m \in 1 .. fill : m = k - j /\ i = L + m /\ m \in 1 .. len
    BY <1>1, <1>2, <1>6 DEF Holds
  <2>2. z[L + m] = t[m]
    BY <1>9, <2>1
  <2>3. cut[m] = t[m]
    BY <1>3
  <2>4. QED
    BY <1>4, <2>1, <2>2, <2>3
<1>7. QED
  BY <1>1, <1>5, <1>6

\* A cut of the data is one of s \o t.
LEMMA CutOfJoined ==
    ASSUME NEW z, NEW s, NEW t, NEW L \in Nat, NEW len \in Nat, Join(z, s, t, L, len),
           NEW a \in Nat, NEW d \in Nat, a + d <= len
    PROVE  IsCut(SubSeq(t, a + 1, a + d), z, L + a, d)
<1> JoinAt(z, s, t, L, len)
  BY JoinIs
<1> DEFINE u == SubSeq(t, a + 1, a + d)
<1>1. a + d <= Len(t) /\ IsSeq(t)
  BY DEF Join
<1>2. IsCut(u, t, a, d)
  BY <1>1, CutOut
<1> HIDE DEF u
<1>3. ASSUME NEW k \in 1 .. d
      PROVE  u[k] = z[L + a + k]
  <2>1. PICK m \in 1 .. len : m = a + k /\ L + m = L + a + k
    OBVIOUS
  <2>2. z[L + m] = t[m]
    <3>1. \A i \in 1 .. len : z[L + i] = t[i]
      BY DEF JoinAt
    <3>2. QED
      BY <3>1
  <2>3. u[k] = t[a + k]
    BY <1>2 DEF IsCut
  <2>4. QED
    BY <2>1, <2>2, <2>3
<1>4. QED
  BY <1>2, <1>3 DEF u, IsCut

\* The blocks of an update: those before, the completed buffer, w more.
SeqOf(s, n) == IsSeq(s) /\ Len(s) = n

Appends(new, old, first, tail) == new = old \o (<<first>> \o tail)

AppendedAt(new, old, first, tail, n, w) ==
    /\ SeqOf(new, n + 1 + w)
    /\ \A m \in 1 .. n : new[m] = old[m]
    /\ new[n + 1] = first
    /\ \A m \in 1 .. w : new[n + 1 + m] = tail[m]

LEMMA Appended ==
    ASSUME NEW old, NEW first, NEW tail, NEW n \in Nat, NEW w \in Nat,
           SeqOf(old, n), SeqOf(tail, w), NEW new, Appends(new, old, first, tail)
    PROVE  AppendedAt(new, old, first, tail, n, w)
<1>1. PICK one : one = <<first>> /\ IsSeq(one) /\ Len(one) = 1 /\ one[1] = first
  BY OneSeq
<1>2. PICK two : two = one \o tail
  OBVIOUS
<1>3. PICK e \in Nat, d \in Nat : e = 1 /\ d = e + w
  OBVIOUS
<1>4. Join(two, one, tail, e, w)
  BY <1>1, <1>2, <1>3 DEF Join, SeqOf
<1> JoinAt(two, one, tail, e, w)
  BY <1>4, JoinIs
<1>5. IsSeq(two)
  BY <1>1, <1>2, Joined DEF SeqOf
<1>6. Len(two) = d
  BY <1>3 DEF JoinAt
<1>7. \A m \in 1 .. e : two[m] = one[m]
  BY DEF JoinAt
<1>8. \A m \in 1 .. w : two[e + m] = tail[m]
  BY DEF JoinAt
<1>9. new = old \o two
  BY <1>1, <1>2 DEF Appends
<1>10. Join(new, old, two, n, d)
  BY <1>5, <1>6, <1>9 DEF Join, SeqOf
<1> JoinAt(new, old, two, n, d)
  BY <1>10, JoinIs
<1>11. \A m \in 1 .. n : new[m] = old[m]
  BY DEF JoinAt
<1>12. \A m \in 1 .. d : new[n + m] = two[m]
  BY DEF JoinAt
<1>13. SeqOf(new, n + 1 + w)
  <2>1. IsSeq(new)
    BY <1>5, <1>9, Joined DEF SeqOf
  <2>2. Len(new) = n + d
    BY DEF JoinAt
  <2>3. n + d = n + 1 + w
    BY <1>3
  <2>4. QED
    BY <2>1, <2>2, <2>3 DEF SeqOf
<1>14. two[e] = first /\ e \in 1 .. d /\ e \in 1 .. e
  BY <1>1, <1>3, <1>7
<1>15. new[n + 1] = first
  <2>1. new[n + e] = first
    BY <1>12, <1>14
  <2>2. QED
    BY <1>3, <2>1
<1>16. ASSUME NEW m \in 1 .. w
       PROVE  new[n + 1 + m] = tail[m]
  <2>1. PICK i \in 1 .. d : i = e + m
    BY <1>3
  <2>2. new[n + i] = two[i]
    BY <1>12
  <2>3. two[i] = tail[m]
    BY <1>8, <2>1
  <2>4. n + i = n + 1 + m
    BY <1>3, <2>1
  <2>5. QED
    BY <2>2, <2>3, <2>4
<1>17. QED
  BY <1>11, <1>13, <1>15, <1>16 DEF AppendedAt

\* The parts of an update whose data fill the buffer: it is completed, w whole
\* blocks and a rest follow.
Filled(u, c, t, j, len, fill, w, first, tail) ==
    /\ first = CopyTo(c.buffer, j, SubSeq(t, 1, fill))
    /\ tail = [n \in 1 .. w |-> SubSeq(t, fill + 64 * (n - 1) + 1, fill + 64 * n)]
    /\ Appends(u.blocks, c.blocks, first, tail)
    /\ u.buffer = CopyTo(first, 0, SubSeq(t, fill + 64 * w + 1, len))

LEMMA UpdateLong ==
    ASSUME NEW c, NEW t, NEW j, NEW len, j = InBuffer(c), len = Len(t), Fills(j, len),
           NEW w, w = (len - (64 - j)) \div 64
    PROVE  \E first, tail : Filled(ShaUpdate(c, t), c, t, j, len, 64 - j, w, first, tail)
<1> DEFINE fill == 64 - j
           first == CopyTo(c.buffer, j, SubSeq(t, 1, fill))
           tail == [n \in 1 .. w |-> SubSeq(t, fill + 64 * (n - 1) + 1, fill + 64 * n)]
<1>1. Filled(ShaUpdate(c, t), c, t, j, len, 64 - j, w, first, tail)
  BY DEF Filled, Appends, ShaUpdate, Block
<1> HIDE DEF first, tail
<1>2. QED
  BY <1>1

LEMMA StoredLong ==
    ASSUME NEW c, NEW z, NEW s, NEW t, NEW L \in Nat, NEW len \in Nat, Join(z, s, t, L, len),
           Absorbed(c, s), Fills(InBuffer(c), len)
    PROVE  Stored(ShaUpdate(c, t), z)
<1> JoinAt(z, s, t, L, len)
  BY JoinIs
<1>1. L = Len(s) /\ len = Len(t) /\ Len(z) = L + len /\ IsSeq(s) /\ IsSeq(t)
  <2>1. Len(z) = L + len
    BY DEF JoinAt
  <2>2. QED
    BY <2>1 DEF Join
<1>2. PICK n \in Nat, j \in 0 .. 63 : n = L \div 64 /\ j = L % 64 /\ L = 64 * n + j
  <2>1. PICK n \in Int, j \in 0 .. 63 : n = L \div 64 /\ j = L % 64 /\ L = 64 * n + j
    BY Division
  <2>2. n \in Nat
    BY <2>1
  <2>3. QED
    BY <2>1, <2>2
<1>3. InBuffer(c) = j
  BY <1>1, <1>2, PlaceInBuffer DEF Absorbed, Block
<1>4. 64 - j <= len
  <2>1. Fills(j, len)
    BY <1>3
  <2>2. QED
    BY <1>2, <2>1 DEF Fills, Block
<1>5. PICK fill \in 1 .. 64 : fill = 64 - j /\ fill <= len
  BY <1>4
<1>6. PICK w \in Nat, r \in 0 .. 63 : w = (len - fill) \div 64 /\ len - fill = 64 * w + r
  <2>1. PICK a \in Nat : a = len - fill
    BY <1>5
  <2>2. PICK w \in Int, r \in 0 .. 63 : w = a \div 64 /\ a = 64 * w + r
    BY Division
  <2>3. w \in Nat
    BY <2>2
  <2>4. QED
    BY <2>1, <2>2, <2>3
<1> DEFINE N == n + 1 + w
           u == ShaUpdate(c, t)
<1>7. (L + len) \div 64 = N /\ (L + len) % 64 = r
  <2>1. PICK a \in Int, q \in Int : a = L + len /\ q = N /\ a = 64 * q + r
    BY <1>2, <1>5, <1>6
  <2>2. QED
    BY <2>1, Quotient
<1>8. PICK first, tail :
          /\ first = CopyTo(c.buffer, j, SubSeq(t, 1, fill))
          /\ tail = [m \in 1 .. w |-> SubSeq(t, fill + 64 * (m - 1) + 1, fill + 64 * m)]
          /\ Appends(u.blocks, c.blocks, first, tail)
          /\ u.buffer = CopyTo(first, 0, SubSeq(t, fill + 64 * w + 1, len))
  <2>1. w = (len - (64 - j)) \div 64 /\ Fills(j, len)
    BY <1>3, <1>5, <1>6
  <2>2. \E first, tail : Filled(u, c, t, j, len, 64 - j, w, first, tail)
    BY <1>1, <1>3, <2>1, UpdateLong
  <2> HIDE DEF u
  <2>3. PICK first, tail : Filled(u, c, t, j, len, fill, w, first, tail)
    BY <1>5, <2>2
  <2>4. QED
    BY <2>3 DEF Filled
<1> HIDE DEF u
<1>9. /\ SeqOf(c.blocks, n)
      /\ \A m \in 0 .. n - 1 : \A k \in 1 .. 64 : c.blocks[m + 1][k] = s[64 * m + k]
      /\ \A k \in 1 .. j : c.buffer[k] = s[64 * n + k]
  BY <1>1, <1>2, SMTT(30) DEF Absorbed, Stored, Block, SeqOf
<1>10. \A k \in 1 .. 64 : first[k] = z[64 * n + k]
  <2>1. Holds(c, s, L, n, j, fill)
    BY <1>2, <1>5, <1>9 DEF Holds
  <2>2. PICK cut : IsStart(cut, t, fill)
    BY DEF IsStart
  <2>3. BlockAt(CopyTo(c.buffer, j, cut), z, n)
    <3>1. fill \in Nat /\ fill <= len
      BY <1>5
    <3>2. QED
      BY <2>1, <2>2, <3>1, Completed
  <2>4. first = CopyTo(c.buffer, j, cut)
    BY <1>8, <2>2 DEF IsStart
  <2>5. QED
    BY <2>3, <2>4 DEF BlockAt
<1>11. \A m \in 1 .. w : \A k \in 1 .. 64 : tail[m][k] = z[64 * (n + m) + k]
  <2> SUFFICES ASSUME NEW m \in 1 .. w
               PROVE  \A k \in 1 .. 64 : tail[m][k] = z[64 * (n + m) + k]
    OBVIOUS
  <2>1. PICK a \in Nat, d \in Nat : a = fill + 64 * (m - 1) /\ d = 64 /\ a + d = fill + 64 * m
    OBVIOUS
  <2>2. a + d <= len
    BY <1>6, <2>1
  <2>3. PICK v : v = SubSeq(t, a + 1, a + d)
    OBVIOUS
  <2>4. IsCut(v, z, L + a, d)
    BY <2>2, <2>3, CutOfJoined
  <2>5. tail[m] = v
    BY <1>8, <2>1, <2>3
  <2>6. L + a = 64 * (n + m)
    BY <1>2, <1>5, <2>1
  <2>7. QED
    BY <2>1, <2>4, <2>5, <2>6 DEF IsCut
<1>12. SeqOf(tail, w)
  BY <1>8, FunctionSeq DEF SeqOf
<1>13. /\ SeqOf(u.blocks, N)
       /\ \A m \in 1 .. n : u.blocks[m] = c.blocks[m]
       /\ u.blocks[n + 1] = first
       /\ \A m \in 1 .. w : u.blocks[n + 1 + m] = tail[m]
  <2>1. Appends(u.blocks, c.blocks, first, tail)
    BY <1>8
  <2>2. SeqOf(c.blocks, n)
    BY <1>9
  <2>3. AppendedAt(u.blocks, c.blocks, first, tail, n, w)
    BY <1>12, <2>1, <2>2, Appended
  <2>4. QED
    BY <2>3 DEF AppendedAt
<1>14. \A m \in 0 .. N - 1 : \A k \in 1 .. 64 : u.blocks[m + 1][k] = z[64 * m + k]
  <2> SUFFICES ASSUME NEW m \in 0 .. N - 1, NEW k \in 1 .. 64
               PROVE  u.blocks[m + 1][k] = z[64 * m + k]
    OBVIOUS
  <2>1. CASE m < n
    <3>1. m + 1 \in 1 .. n /\ m \in 0 .. n - 1
      BY <1>4, <2>1
    <3>2. u.blocks[m + 1][k] = s[64 * m + k]
      <4>1. u.blocks[m + 1] = c.blocks[m + 1]
        BY <1>13, <3>1
      <4>2. c.blocks[m + 1][k] = s[64 * m + k]
        BY <1>9, <3>1
      <4>3. QED
        BY <4>1, <4>2
    <3>3. PICK i \in 1 .. L : i = 64 * m + k
      BY <1>2, <1>4, <3>1
    <3>4. \A b \in 1 .. L : z[b] = s[b]
      BY DEF JoinAt
    <3>5. QED
      BY <3>2, <3>3, <3>4
  <2>2. CASE m = n
    BY <1>10, <1>13, <2>2
  <2>3. CASE m > n
    <3>1. PICK i \in 1 .. w : i = m - n /\ m = n + i /\ m + 1 = n + 1 + i
      BY <1>4, <2>3
    <3>2. u.blocks[n + 1 + i] = tail[i]
      BY <1>13
    <3>3. tail[i][k] = z[64 * (n + i) + k]
      BY <1>11
    <3>4. QED
      BY <3>1, <3>2, <3>3
  <2>4. QED
    BY <1>4, <2>1, <2>2, <2>3
<1>15. \A k \in 1 .. r : u.buffer[k] = z[64 * N + k]
  <2>1. PICK a \in Nat : a = fill + 64 * w /\ a + r = len
    BY <1>6
  <2>2. PICK v : v = SubSeq(t, a + 1, a + r)
    OBVIOUS
  <2>3. IsCut(v, z, L + a, r)
    <3>1. PICK d \in Nat : d = r /\ a + d <= len /\ a + d = a + r
      BY <2>1
    <3>2. IsCut(SubSeq(t, a + 1, a + d), z, L + a, d)
      BY <3>1, CutOfJoined
    <3>3. QED
      BY <2>2, <3>1, <3>2
  <2>4. L + a = 64 * N
    BY <1>2, <1>5, <2>1
  <2>5. u.buffer = CopyTo(first, 0, v)
    BY <1>8, <2>1, <2>2
  <2>6. ASSUME NEW k \in 1 .. r
        PROVE  u.buffer[k] = v[k]
    <3>1. k \in 1 .. 64 /\ k - 0 = k
      OBVIOUS
    <3>2. DOMAIN v = 1 .. r
      BY <2>3 DEF IsCut
    <3>3. QED
      BY <2>5, <3>1, <3>2 DEF CopyTo, Block
  <2>7. QED
    BY <2>3, <2>4, <2>6 DEF IsCut
<1>16. StoredAs(u, z, N, r)
  <2>1. N = Len(z) \div 64 /\ r = Len(z) % 64
    BY <1>1, <1>7
  <2>2. QED
    BY <1>13, <1>14, <1>15, <2>1 DEF StoredAs, SeqOf
<1>17. N \in Int
  BY <1>4
<1>18. Stored(u, z)
  BY <1>16, <1>17, StoredWhen
<1>19. QED
  BY <1>18 DEF u

\* SHA1Update: when counts, compressed blocks and buffer are those of the bytes
\* given so far, they are so again with the new data behind them, whatever its
\* length and wherever in the buffer the old data ended.
THEOREM UpdateAbsorbs ==
    ASSUME NEW c, NEW s, NEW t, IsSeq(s), IsSeq(t), Absorbed(c, s)
    PROVE  Absorbed(ShaUpdate(c, t), s \o t)
<1>1. PICK L \in Nat, len \in Nat : L = Len(s) /\ len = Len(t)
  BY AnySeq
<1>2. PICK z : z = s \o t
  OBVIOUS
<1>3. Join(z, s, t, L, len)
  BY <1>1, <1>2 DEF Join
<1>4. Stored(ShaUpdate(c, t), z)
  <2>1. CASE Fills(InBuffer(c), len)
    BY <1>3, <2>1, StoredLong
  <2>2. CASE ~Fills(InBuffer(c), len)
    BY <1>3, <2>2, StoredShort
  <2>3. QED
    BY <2>1, <2>2
<1>5. Counted(ShaUpdate(c, t), s \o t)
  <2>1. /\ CountLow(c, Len(t)) = (Len(s \o t) * BitsPerByte) % CountWord
        /\ CountHigh(c, Len(t)) = (Len(s \o t) * BitsPerByte) \div CountWord
    BY CountKept DEF Absorbed
  <2>2. ShaUpdate(c, t).low = CountLow(c, Len(t)) /\ ShaUpdate(c, t).high = CountHigh(c, Len(t))
    BY DEF ShaUpdate
  <2>3. QED
    BY <2>1, <2>2 DEF Counted
<1>6. QED
  BY <1>2, <1>4, <1>5 DEF Absorbed

LEMMA ContextAbsorbed ==
    Absorbed(Context, <<>>)
<1>1. CountWord \in Nat \ {0}
  BY CountAssumption
<1>2. (0 * 8) \div CountWord = 0 /\ (0 * 8) % CountWord = 0
  <2>1. PICK n \in Int : n = 0 * 8 /\ n = CountWord * 0 + 0 /\ 0 \in 0 .. CountWord - 1
    BY <1>1
  <2>2. n \div CountWord = 0 /\ n % CountWord = 0
    BY <1>1, <2>1, Quotient
  <2>3. QED
    BY <2>1, <2>2
<1>3. Len(<<>>) = 0 /\ IsSeq(<<>>)
  <2>1. <<>> \in Seq({}) /\ Len(<<>>) = 0
    BY EmptySeq
  <2>2. QED
    BY <2>1 DEF IsSeq
<1>4. 0 \div 64 = 0 /\ 0 % 64 = 0
  OBVIOUS
<1>5. Counted(Context, <<>>)
  BY <1>2, <1>3 DEF Counted, Context, BitsPerByte
<1>6. Stored(Context, <<>>)
  <2>1. Context.blocks = <<>>
    BY DEF Context
  <2>2. IsSeq(Context.blocks) /\ Len(Context.blocks) = 0
    BY <1>3, <2>1
  <2>3. \A m \in 0 .. 0 - 1 : FALSE
    OBVIOUS
  <2>4. \A k \in 1 .. 0 : FALSE
    OBVIOUS
  <2>5. StoredAs(Context, <<>>, 0, 0)
    BY <1>3, <1>4, <2>2, <2>3, <2>4 DEF StoredAs
  <2>6. QED
    BY <2>5, StoredWhen
<1>7. QED
  BY <1>5, <1>6 DEF Absorbed

-----------------------------------------------------------------------------
(* SHA1Final: the padding.                                                  *)

LEMMA Associates ==
    ASSUME NEW s, NEW t, NEW u, IsSeq(s), IsSeq(t), IsSeq(u)
    PROVE  (s \o t) \o u = s \o (t \o u)
<1>1. PICK S, T, U : s \in Seq(S) /\ t \in Seq(T) /\ u \in Seq(U)
  BY DEF IsSeq
<1>2. PICK V : V = S \cup T \cup U
  OBVIOUS
<1>3. s \in Seq(V) /\ t \in Seq(V) /\ u \in Seq(V)
  BY <1>1, <1>2, SeqMonotonic
<1>4. QED
  BY <1>3, ConcatAssociative

LEMMA Nothing ==
    ASSUME NEW s, IsSeq(s)
    PROVE  IsSeq(<<>>) /\ s \o <<>> = s /\ <<>> \o s = s
<1>1. PICK S : s \in Seq(S)
  BY DEF IsSeq
<1>2. QED
  BY <1>1, ConcatEmptySeq, EmptySeq DEF IsSeq

LEMMA SameSeq ==
    ASSUME NEW s, NEW t, NEW n \in Nat, SeqOf(s, n), SeqOf(t, n), \A i \in 1 .. n : s[i] = t[i]
    PROVE  s = t
<1>1. s = [i \in 1 .. n |-> s[i]] /\ t = [i \in 1 .. n |-> t[i]]
  BY AnySeq DEF SeqOf
<1>2. [i \in 1 .. n |-> s[i]] = [i \in 1 .. n |-> t[i]]
  OBVIOUS
<1>3. QED
  BY <1>1, <1>2

\* The zeros of the padding, k of them.
Filler(k) == [i \in 1 .. k |-> 0]

LEMMA FillerIs ==
    ASSUME NEW k \in Nat
    PROVE  SeqOf(Filler(k), k) /\ SeqOf(Filler(k + 1), k + 1)
           /\ Filler(k) \o <<0>> = Filler(k + 1) /\ Filler(0) = <<>>
<1>1. ASSUME NEW j \in Nat
      PROVE  SeqOf(Filler(j), j) /\ \A i \in 1 .. j : Filler(j)[i] = 0
  BY <1>1, FunctionSeq DEF Filler, SeqOf
<1>2. PICK e \in Nat : e = 1
  OBVIOUS
<1> DEFINE one == <<0>>
           z == Filler(k) \o one
<1>0. SeqOf(one, e) /\ one[1] = 0
  BY <1>2, OneSeq DEF SeqOf
<1>12. z = Filler(k) \o one
  OBVIOUS
<1> HIDE DEF one, z
<1>3. Join(z, Filler(k), one, k, e)
  BY <1>0, <1>1, <1>12 DEF Join, SeqOf
<1>4. JoinAt(z, Filler(k), one, k, e)
  BY <1>3, JoinIs
<1>5. SeqOf(z, k + 1)
  <2>1. IsSeq(z)
    BY <1>0, <1>1, <1>12, Joined DEF SeqOf
  <2>2. Len(z) = k + 1
    BY <1>2, <1>4 DEF JoinAt
  <2>3. QED
    BY <2>1, <2>2 DEF SeqOf
<1>6. ASSUME NEW i \in 1 .. k + 1
      PROVE  z[i] = 0
  <2>1. CASE i \in 1 .. k
    <3>1. z[i] = Filler(k)[i]
      BY <1>4, <2>1 DEF JoinAt
    <3>2. QED
      BY <1>1, <2>1, <3>1
  <2>2. CASE ~(i \in 1 .. k)
    <3>1. i = k + e /\ e \in 1 .. e /\ e = 1
      BY <1>2, <2>2
    <3>2. z[k + e] = one[e]
      BY <1>4, <3>1 DEF JoinAt
    <3>3. QED
      BY <1>0, <3>1, <3>2
  <2>3. QED
    BY <2>1, <2>2
<1>7. PICK d \in Nat : d = k + 1
  OBVIOUS
<1>8. SeqOf(Filler(d), d) /\ \A i \in 1 .. d : Filler(d)[i] = 0
  BY <1>1
<1>9. z = Filler(d)
  <2>1. SeqOf(z, d) /\ \A i \in 1 .. d : z[i] = Filler(d)[i]
    BY <1>5, <1>6, <1>7, <1>8
  <2>2. QED
    BY <1>8, <2>1, SameSeq
<1>10. Filler(0) = <<>>
  <2>1. SeqOf(Filler(0), 0)
    BY <1>1
  <2>2. SeqOf(<<>>, 0)
    <3>1. <<>> \in Seq({}) /\ Len(<<>>) = 0
      BY EmptySeq
    <3>2. QED
      BY <3>1 DEF SeqOf, IsSeq
  <2>3. QED
    BY <2>1, <2>2, SameSeq
<1>11. QED
  BY <1>1, <1>7, <1>8, <1>9, <1>10 DEF one, z

\* The message, its one bit and k bytes of zeros; the count that SHA1Final
\* appends; how many zeros come before it.
PaddedBy(m, k) == (m \o <<128>>) \o Filler(k)

Count(L) == Word((L * BitsPerByte) \div CountWord) \o Word((L * BitsPerByte) % CountWord)

Zeros(L) == (Block - 9 - L) % Block

LEMMA WordIs ==
    ASSUME NEW n
    PROVE  IsSeq(Word(n)) /\ Len(Word(n)) = 4
BY FunctionSeq DEF Word

LEMMA CountIs ==
    ASSUME NEW L
    PROVE  SeqOf(Count(L), 8)
<1>2. PICK a, b : a = Word((L * BitsPerByte) \div CountWord) /\ b = Word((L * BitsPerByte) % CountWord)
  OBVIOUS
<1>3. IsSeq(a) /\ IsSeq(b) /\ Len(a) = 4 /\ Len(b) = 4
  BY <1>2, WordIs
<1>4. IsSeq(a \o b) /\ Len(a \o b) = Len(a) + Len(b)
  BY <1>3, Joined
<1>5. Count(L) = a \o b
  BY <1>2 DEF Count
<1>6. QED
  BY <1>3, <1>4, <1>5 DEF SeqOf

LEMMA PaddedByIs ==
    ASSUME NEW m, IsSeq(m), NEW k \in Nat
    PROVE  /\ IsSeq(PaddedBy(m, k)) /\ Len(PaddedBy(m, k)) = Len(m) + 1 + k
           /\ PaddedBy(m, 0) = m \o <<128>>
           /\ PaddedBy(m, k) \o <<0>> = PaddedBy(m, k + 1)
<1>1. IsSeq(<<128>>) /\ Len(<<128>>) = 1 /\ IsSeq(<<0>>)
  BY OneSeq
<1>2. IsSeq(m \o <<128>>) /\ Len(m \o <<128>>) = Len(m) + 1
  BY <1>1, Joined
<1>3. IsSeq(Filler(k)) /\ Len(Filler(k)) = k /\ Filler(k) \o <<0>> = Filler(k + 1) /\ Filler(0) = <<>>
  BY FillerIs DEF SeqOf
<1>4. IsSeq(PaddedBy(m, k)) /\ Len(PaddedBy(m, k)) = Len(m) + 1 + k
  <2>1. PICK x, y : x = m \o <<128>> /\ y = Filler(k)
    OBVIOUS
  <2>2. IsSeq(x) /\ IsSeq(y) /\ Len(x) = Len(m) + 1 /\ Len(y) = k
    BY <1>2, <1>3, <2>1
  <2>3. IsSeq(x \o y) /\ Len(x \o y) = Len(x) + Len(y)
    BY <2>2, Joined
  <2>4. QED
    BY <2>1, <2>2, <2>3 DEF PaddedBy
<1>5. PaddedBy(m, 0) = m \o <<128>>
  BY <1>2, <1>3, Nothing DEF PaddedBy
<1>6. PaddedBy(m, k) \o <<0>> = PaddedBy(m, k + 1)
  <2>1. ((m \o <<128>>) \o Filler(k)) \o <<0>> = (m \o <<128>>) \o (Filler(k) \o <<0>>)
    <3>1. PICK x, y, o : x = m \o <<128>> /\ y = Filler(k) /\ o = <<0>>
      OBVIOUS
    <3>2. IsSeq(x) /\ IsSeq(y) /\ IsSeq(o)
      BY <1>1, <1>2, <1>3, <3>1
    <3>3. (x \o y) \o o = x \o (y \o o)
      BY <3>2, Associates, SMTT(30)
    <3>4. QED
      BY <3>1, <3>3
  <2>2. QED
    BY <1>3, <2>1 DEF PaddedBy
<1>7. QED
  BY <1>4, <1>5, <1>6

\* Padded is the message padded by Zeros, and its count.
LEMMA PaddedIs ==
    ASSUME NEW m, IsSeq(m)
    PROVE  Padded(m) = PaddedBy(m, Zeros(Len(m))) \o Count(Len(m))
<1> DEFINE z == Zeros(Len(m))
           w1 == Word((Len(m) * BitsPerByte) \div CountWord)
           w2 == Word((Len(m) * BitsPerByte) % CountWord)
<1>1. z \in Nat
  <2>1. PICK L \in Nat : L = Len(m)
    BY AnySeq
  <2>2. PICK n \in Int : n = 64 - 9 - L
    BY <2>1
  <2>3. n % 64 \in 0 .. 63
    BY <2>2, Division
  <2>4. QED
    BY <2>1, <2>2, <2>3 DEF Zeros, Block
<1>2. IsSeq(PaddedBy(m, z)) /\ IsSeq(w1) /\ IsSeq(w2)
  <2>1. IsSeq(w1) /\ IsSeq(w2)
    BY WordIs
  <2> HIDE DEF z
  <2>2. IsSeq(PaddedBy(m, z))
    BY <1>1, PaddedByIs
  <2>3. QED
    BY <2>1, <2>2
<1>3. Padded(m) = (PaddedBy(m, z) \o w1) \o w2
  BY DEF Padded, PaddedBy, Filler, Zeros
<1>4. Count(Len(m)) = w1 \o w2
  BY DEF Count
<1> HIDE DEF z, w1, w2
<1>5. Padded(m) = PaddedBy(m, z) \o Count(Len(m))
  <2>1. PICK p : p = PaddedBy(m, z)
    OBVIOUS
  <2>2. IsSeq(p) /\ IsSeq(w1) /\ IsSeq(w2)
    BY <1>2, <2>1
  <2>3. (p \o w1) \o w2 = p \o (w1 \o w2)
    BY <2>2, Associates, SMTT(30)
  <2>4. QED
    BY <1>3, <1>4, <2>1, <2>3
<1>6. QED
  BY <1>5 DEF z

\* The zeros end where the place of the count begins, and not before.
LEMMA PlaceOfCount ==
    ASSUME NEW L \in Nat, NEW k \in 0 .. Zeros(L)
    PROVE  /\ Zeros(L) \in 0 .. 63
           /\ (L + 1 + k) % 64 = 56 <=> k = Zeros(L)
           /\ (L + 1 + Zeros(L) + 8) % 64 = 0
<1>1. PICK n \in Int : n = 64 - 9 - L
  OBVIOUS
<1>2. PICK q \in Int, z \in 0 .. 63 : q = n \div 64 /\ z = n % 64 /\ n = 64 * q + z
  BY Division
<1>3. Zeros(L) = z
  BY <1>1, <1>2 DEF Zeros, Block
<1>4. PICK p \in Int : p = 0 - q
  BY <1>2
<1>5. PICK a \in Int, b \in Int : a = L + 1 + k /\ b = L + 1 + z + 8
  BY <1>3
<1>6. k \in 0 .. z /\ a = 64 * p + (56 - (z - k)) /\ b = 64 * (p + 1) + 0
  BY <1>1, <1>2, <1>3, <1>4, <1>5
<1>7. a % 64 = 56 <=> k = z
  <2>1. CASE z - k <= 56
    <3>1. PICK r \in 0 .. 63 : r = 56 - (z - k)
      BY <1>3, <2>1
    <3>2. a % 64 = r
      BY <1>6, <3>1, Quotient
    <3>3. QED
      BY <1>6, <3>1, <3>2
  <2>2. CASE z - k > 56
    <3>1. PICK r \in 0 .. 63, e \in Int : r = 120 - (z - k) /\ e = p - 1
      BY <1>6, <2>2
    <3>2. a = 64 * e + r
      BY <1>6, <3>1
    <3>3. a % 64 = r
      BY <3>2, Quotient
    <3>4. QED
      BY <1>6, <2>2, <3>1, <3>3
  <2>3. QED
    BY <1>3, <2>1, <2>2
<1>8. b % 64 = 0
  <2>1. PICK e \in Int : e = p + 1 /\ b = 64 * e + 0 /\ 0 \in 0 .. 63
    BY <1>6
  <2>2. QED
    BY <2>1, Quotient
<1>9. QED
  BY <1>3, <1>5, <1>7, <1>8

\* What a context stored of whole blocks is the stream of its blocks.
LEMMA StreamIs ==
    ASSUME NEW c, NEW s, IsSeq(s), Stored(c, s), Len(s) % 64 = 0
    PROVE  Stream(c.blocks) = s
<1>1. PICK L \in Nat : L = Len(s)
  BY AnySeq
<1>2. PICK n \in Int : n = L \div 64 /\ L = 64 * n
  <2>1. PICK n \in Int, r \in 0 .. 63 : n = L \div 64 /\ r = L % 64 /\ L = 64 * n + r
    BY Division
  <2>2. r = 0
    BY <1>1, <2>1
  <2>3. QED
    BY <2>1, <2>2
<1>3. Len(c.blocks) = n /\ \A m \in 0 .. n - 1 : \A k \in 1 .. 64 : c.blocks[m + 1][k] = s[64 * m + k]
  BY <1>1, <1>2 DEF Stored, Block
<1>4. ASSUME NEW i \in 1 .. L
      PROVE  c.blocks[(i - 1) \div 64 + 1][((i - 1) % 64) + 1] = s[i]
  <2>1. PICK a \in Int : a = i - 1
    OBVIOUS
  <2>2. PICK m \in Int, r \in 0 .. 63 : m = a \div 64 /\ r = a % 64 /\ a = 64 * m + r
    BY <2>1, Division
  <2>3. m \in 0 .. n - 1 /\ r + 1 \in 1 .. 64
    BY <1>2, <2>1, <2>2
  <2>4. c.blocks[m + 1][r + 1] = s[64 * m + (r + 1)]
    <3>1. PICK k \in 1 .. 64 : k = r + 1
      BY <2>3
    <3>2. c.blocks[m + 1][k] = s[64 * m + k]
      BY <1>3, <2>3
    <3>3. QED
      BY <3>1, <3>2
  <2>5. 64 * m + (r + 1) = i
    BY <2>1, <2>2
  <2>6. QED
    BY <2>1, <2>2, <2>4, <2>5
<1>5. s = [i \in 1 .. L |-> s[i]]
  BY <1>1, AnySeq
<1>6. Stream(c.blocks) = [i \in 1 .. L |-> c.blocks[(i - 1) \div 64 + 1][((i - 1) % 64) + 1]]
  BY <1>2, <1>3 DEF Stream, Block
<1>7. QED
  BY <1>4, <1>5, <1>6

-----------------------------------------------------------------------------
(* The digest.                                                              *)

\* What the context has absorbed at each point of sha1hex, and that the padding
\* has no more zeros than it needs.
ShaInv ==
    /\ digesting \in {"idle", "message", "padding", "digest"}
    /\ digesting # "idle" => IsSeq(hashed)
    /\ digesting = "message" => Absorbed(ctx, hashed)
    /\ digesting = "padding" =>
         /\ finalcount = Count(Len(hashed))
         /\ \E k \in 0 .. Zeros(Len(hashed)) : Absorbed(ctx, PaddedBy(hashed, k))
    /\ digesting = "digest" => Absorbed(ctx, Padded(hashed))

LEMMA BeginKeeps ==
    ASSUME NEW m \in Messages, Begin(m)
    PROVE  ShaInv'
<1>1. IsSeq(m)
  <2>1. PICK n \in Nat : n = Len(m) /\ m \in [1 .. n -> Nat]
    BY MessagesAssumption, CountAssumption
  <2>2. m = [i \in 1 .. n |-> m[i]]
    BY <2>1
  <2>3. QED
    BY <2>2, FunctionSeq
<1>2. Absorbed(ShaUpdate(Context, m), <<>> \o m)
  BY <1>1, ContextAbsorbed, Nothing, UpdateAbsorbs
<1>3. Absorbed(ctx', m)
  BY <1>1, <1>2, Nothing DEF Begin
<1>4. QED
  BY <1>1, <1>3 DEF Begin, ShaInv

LEMMA PadOneKeeps ==
    ASSUME ShaInv, PadOne
    PROVE  ShaInv'
<1>1. IsSeq(hashed) /\ Absorbed(ctx, hashed)
  BY DEF ShaInv, PadOne
<1>2. IsSeq(<<128>>)
  BY OneSeq
<1>3. Absorbed(ctx', hashed \o <<128>>)
  BY <1>1, <1>2, UpdateAbsorbs DEF PadOne
<1>4. Absorbed(ctx', PaddedBy(hashed, 0))
  BY <1>1, <1>3, PaddedByIs
<1>5. finalcount' = Count(Len(hashed))
  BY <1>1 DEF PadOne, Absorbed, Counted, Count
<1>6. 0 \in 0 .. Zeros(Len(hashed))
  <2>1. PICK n \in Int : n = 64 - 9 - Len(hashed)
    BY <1>1, AnySeq
  <2>2. n % 64 \in 0 .. 63
    BY Division
  <2>3. QED
    BY <2>1, <2>2 DEF Zeros, Block
<1>7. hashed' = hashed /\ digesting' = "padding"
  BY DEF PadOne
<1>8. \E k \in 0 .. Zeros(Len(hashed)) : Absorbed(ctx', PaddedBy(hashed, k))
  BY <1>4, <1>6
<1>9. QED
  BY <1>1, <1>5, <1>7, <1>8 DEF ShaInv

\* Where the padding stands: its zeros are short of the count's place unless
\* the buffer is.
LEMMA Padding ==
    ASSUME ShaInv, digesting = "padding"
    PROVE  \E k \in Nat : /\ k \in 0 .. Zeros(Len(hashed)) /\ Absorbed(ctx, PaddedBy(hashed, k))
                          /\ IsSeq(PaddedBy(hashed, k))
                          /\ InBuffer(ctx) = Block - 8 <=> k = Zeros(Len(hashed))
<1>1. PICK k \in 0 .. Zeros(Len(hashed)) : Absorbed(ctx, PaddedBy(hashed, k))
  BY DEF ShaInv
<1>2. PICK L \in Nat : L = Len(hashed) /\ IsSeq(hashed)
  BY AnySeq DEF ShaInv
<1>3. k \in Nat
  BY <1>1
<1>4. IsSeq(PaddedBy(hashed, k)) /\ Len(PaddedBy(hashed, k)) = L + 1 + k
  BY <1>2, <1>3, PaddedByIs
<1>5. InBuffer(ctx) = (L + 1 + k) % 64
  BY <1>1, <1>4, PlaceInBuffer DEF Absorbed, Block
<1>6. (L + 1 + k) % 64 = 56 <=> k = Zeros(L)
  BY <1>1, <1>2, PlaceOfCount
<1>7. Block - 8 = 56
  BY DEF Block
<1>8. QED
  BY <1>1, <1>2, <1>3, <1>4, <1>5, <1>6, <1>7

LEMMA PadZeroKeeps ==
    ASSUME ShaInv, PadZero
    PROVE  ShaInv'
<1>1. PICK k \in Nat :
          /\ k \in 0 .. Zeros(Len(hashed)) /\ Absorbed(ctx, PaddedBy(hashed, k))
          /\ IsSeq(PaddedBy(hashed, k))
          /\ InBuffer(ctx) = Block - 8 <=> k = Zeros(Len(hashed))
  BY Padding DEF PadZero
<1>2. PICK L \in Nat : L = Len(hashed) /\ IsSeq(hashed)
  BY AnySeq DEF ShaInv, PadZero
<1>3. k + 1 \in 0 .. Zeros(L)
  <2>1. k # Zeros(L)
    BY <1>1, <1>2 DEF PadZero
  <2>2. Zeros(L) \in 0 .. 63
    BY <1>1, <1>2, PlaceOfCount
  <2>3. k \in 0 .. Zeros(L)
    BY <1>1, <1>2
  <2>4. QED
    BY <2>1, <2>2, <2>3
<1>4. IsSeq(<<0>>)
  BY OneSeq
<1>5. Absorbed(ctx', PaddedBy(hashed, k) \o <<0>>)
  BY <1>1, <1>4, UpdateAbsorbs DEF PadZero
<1>6. Absorbed(ctx', PaddedBy(hashed, k + 1))
  BY <1>1, <1>2, <1>5, PaddedByIs
<1>7. \E i \in 0 .. Zeros(Len(hashed)) : Absorbed(ctx', PaddedBy(hashed, i))
  BY <1>2, <1>3, <1>6
<1>8. UNCHANGED <<hashed, finalcount, digesting>> /\ digesting = "padding"
  BY DEF PadZero
<1>9. finalcount = Count(Len(hashed)) /\ IsSeq(hashed)
  BY <1>8 DEF ShaInv
<1>10. QED
  BY <1>7, <1>8, <1>9 DEF ShaInv

LEMMA PadCountKeeps ==
    ASSUME ShaInv, PadCount
    PROVE  ShaInv'
<1>1. PICK k \in Nat :
          /\ k \in 0 .. Zeros(Len(hashed)) /\ Absorbed(ctx, PaddedBy(hashed, k))
          /\ IsSeq(PaddedBy(hashed, k))
          /\ InBuffer(ctx) = Block - 8 <=> k = Zeros(Len(hashed))
  BY Padding DEF PadCount
<1>2. k = Zeros(Len(hashed))
  BY <1>1 DEF PadCount
<1>3. finalcount = Count(Len(hashed)) /\ IsSeq(hashed)
  BY DEF ShaInv, PadCount
<1>4. IsSeq(finalcount)
  BY <1>3, CountIs DEF SeqOf
<1>5. Absorbed(ctx', PaddedBy(hashed, k) \o finalcount)
  BY <1>1, <1>4, UpdateAbsorbs DEF PadCount
<1>6. Absorbed(ctx', Padded(hashed))
  BY <1>2, <1>3, <1>5, PaddedIs
<1>7. hashed' = hashed /\ digesting' = "digest"
  BY DEF PadCount
<1>8. QED
  BY <1>3, <1>6, <1>7 DEF ShaInv

LEMMA ShaInvariant == ShaSpec => []ShaInv
<1>1. ShaInit => ShaInv
  BY DEF ShaInit, ShaInv
<1>2. ASSUME ShaInv, [ShaNext]_shaVars
      PROVE  ShaInv'
  <2>1. CASE \E m \in Messages : Begin(m)
    BY <2>1, BeginKeeps
  <2>2. CASE PadOne
    BY <1>2, <2>2, PadOneKeeps
  <2>3. CASE PadZero
    BY <1>2, <2>3, PadZeroKeeps
  <2>4. CASE PadCount
    BY <1>2, <2>4, PadCountKeeps
  <2>5. CASE UNCHANGED shaVars
    BY <1>2, <2>5 DEF ShaInv, shaVars
  <2>6. QED
    BY <1>2, <2>1, <2>2, <2>3, <2>4, <2>5 DEF ShaNext
<1>3. QED
  BY <1>1, <1>2, PTL DEF ShaSpec

\* What sha1hex compresses is the padded message: no byte of it is lost or
\* given twice at the end of a block, nothing of an older block is left in the
\* last one, and the count is that of the message without its padding.
THEOREM DigestIsOfMessage == ShaSpec => []DigestPadded
<1>1. ASSUME ShaInv, digesting = "digest"
      PROVE  Stream(ctx.blocks) = Padded(hashed)
  <2>1. Absorbed(ctx, Padded(hashed)) /\ IsSeq(hashed)
    BY <1>1 DEF ShaInv
  <2>2. PICK L \in Nat, z \in Nat : L = Len(hashed) /\ z = Zeros(L) /\ (L + 1 + z + 8) % 64 = 0
    <3>1. PICK L \in Nat : L = Len(hashed)
      BY <2>1, AnySeq
    <3>2. PICK n \in Int : n = 64 - 9 - L
      BY <3>1
    <3>3. n % 64 \in 0 .. 63
      BY Division
    <3>4. Zeros(L) \in 0 .. 63
      BY <3>2, <3>3 DEF Zeros, Block
    <3>5. Zeros(L) \in 0 .. Zeros(L)
      BY <3>4
    <3>6. (L + 1 + Zeros(L) + 8) % 64 = 0
      BY <3>5, PlaceOfCount
    <3>7. PICK z \in Nat : z = Zeros(L)
      BY <3>4
    <3>8. QED
      BY <3>1, <3>6, <3>7
  <2>3. IsSeq(PaddedBy(hashed, z)) /\ Len(PaddedBy(hashed, z)) = L + 1 + z
    BY <2>1, <2>2, PaddedByIs
  <2>4. IsSeq(Count(L)) /\ Len(Count(L)) = 8
    BY CountIs DEF SeqOf
  <2>5. Padded(hashed) = PaddedBy(hashed, z) \o Count(L)
    BY <2>1, <2>2, PaddedIs
  <2>6. IsSeq(Padded(hashed)) /\ Len(Padded(hashed)) = L + 1 + z + 8
    <3>1. PICK a, b : a = PaddedBy(hashed, z) /\ b = Count(L)
      OBVIOUS
    <3>2. IsSeq(a \o b) /\ Len(a \o b) = Len(a) + Len(b)
      BY <2>3, <2>4, <3>1, Joined
    <3>3. QED
      BY <2>3, <2>4, <2>5, <3>1, <3>2
  <2>7. QED
    BY <2>1, <2>2, <2>6, StreamIs DEF Absorbed
<1>2. ShaInv => DigestPadded
  BY <1>1 DEF DigestPadded
<1>3. QED
  BY <1>2, ShaInvariant, PTL
=============================================================================
