---------------------------- MODULE TablesProofs ----------------------------
(***************************************************************************)
(* Theorems about the bit buffer and its use (modules BitBuffer and        *)
(* BitStream) and about the tables of the image (module ImageTables).      *)
(***************************************************************************)
EXTENDS BitStream, ImageTables, FiniteSetTheorems, SequenceTheorems,
        WellFoundedInduction, TLAPS

(***************************************************************************)
(* Numbers and steps                                                       *)
(***************************************************************************)
\* A set of natural numbers that is not empty has a least one.
LEMMA LeastNat ==
    ASSUME NEW T, T \subseteq Nat, T # {}
    PROVE  \E least \in T : \A n \in T : least =< n
<1>. DEFINE Less == OpToRel(<, Nat)
<1>1. PICK least \in T : \A n \in T : ~ (<<n, least>> \in Less)
  BY NatLessThanWellFounded, WFMin
<1>2. ASSUME NEW n \in T
      PROVE  <<n, least>> \in Less <=> n < least
  BY DEF OpToRel
<1>. HIDE DEF Less
<1>3. ASSUME NEW n \in T
      PROVE  least =< n
  <2>1. ~(n < least)
    BY <1>1, <1>2
  <2>2. least \in Nat /\ n \in Nat
    OBVIOUS
  <2>. QED  BY <2>1, <2>2
<1>. QED  BY <1>3

\* What holds at first and from each number to the next holds throughout.
LEMMA Upwards ==
    ASSUME NEW n \in Nat, NEW T, 0 \in T,
           \A k \in 1..n : k - 1 \in T => k \in T
    PROVE  \A k \in 0..n : k \in T
<1>. PICK U : U = {k \in 0..n : k \notin T}
  OBVIOUS
<1>1. ASSUME U # {}
      PROVE  FALSE
  <2>. U \subseteq Nat
    OBVIOUS
  <2>1. PICK least \in U : \A m \in U : least =< m
    BY <1>1, LeastNat
  <2>2. least - 1 \in 0..n /\ least \in 1..n /\ least - 1 \notin U
    BY <2>1
  <2>. QED  BY <2>1, <2>2
<1>. QED  BY <1>1

\* What n steps make of a start, one after the other.
Iterates(f, start, step, n) ==
    /\ f[0] = start
    /\ \A k \in 1..n : f[k] = step[k][f[k - 1]]

LEMMA Iteration ==
    ASSUME NEW n \in Nat, NEW S, NEW start \in S,
           NEW step \in [1..n -> [S -> S]]
    PROVE  \E f \in [0..n -> S] : Iterates(f, start, step, n)
<1>. DEFINE Steps(f, m) == /\ f \in [0..m -> S]
                           /\ f[0] = start
                           /\ \A k \in 1..m : f[k] = step[k][f[k - 1]]
<1>. PICK T : T = {m \in 0..n : \E f : Steps(f, m)}
  OBVIOUS
<1>1. 0 \in T
  <2>1. Steps([k \in 0..0 |-> start], 0)
    OBVIOUS
  <2>2. 0 \in 0..n
    OBVIOUS
  <2>. HIDE DEF Steps
  <2>. QED  BY <2>1, <2>2
<1>2. ASSUME NEW m \in 1..n, m - 1 \in T
      PROVE  m \in T
  <2>. HIDE DEF Steps
  <2>1. PICK f : Steps(f, m - 1)
    BY <1>2
  <2>. USE DEF Steps
  <2>. DEFINE g == [k \in 0..m |-> IF k = m THEN step[m][f[m - 1]] ELSE f[k]]
  <2>2. step[m][f[m - 1]] \in S
    BY <2>1
  <2>3. Steps(g, m)
    <3>1. g \in [0..m -> S]
      BY <2>1, <2>2
    <3>2. g[0] = start
      BY <2>1
    <3>3. ASSUME NEW k \in 1..m
          PROVE  g[k] = step[k][g[k - 1]]
      BY <2>1
    <3>. QED  BY <3>1, <3>2, <3>3
  <2>. HIDE DEF Steps, g
  <2>. QED  BY <2>3
<1>3. n \in T
  <2>1. n \in 0..n
    OBVIOUS
  <2>. HIDE DEF Steps
  <2>. QED  BY <1>1, <1>2, <2>1, Upwards
<1>4. PICK f : Steps(f, n)
  BY <1>3
<1>. QED  BY <1>4 DEF Iterates

(***************************************************************************)
(* Powers of two                                                           *)
(***************************************************************************)
LEMMA Pow2Equation ==
    Pow2 = [n \in Nat |-> IF n = 0 THEN 1 ELSE 2 * Pow2[n - 1]]
<1>. DEFINE Table(f, n) ==
              f[0] = 1 /\ \A k \in 1..n : f[k] = 2 * f[k - 1]
<1>1. ASSUME NEW n \in Nat
      PROVE  \E f : Table(f, n)
  <2>1. PICK step : step = [k \in 1..n |-> [x \in Nat |-> 2 * x]]
    OBVIOUS
  <2>2. step \in [1..n -> [Nat -> Nat]]
    BY <2>1
  <2>3. PICK f \in [0..n -> Nat] : Iterates(f, 1, step, n)
    BY <2>2, Iteration
  <2>4. ASSUME NEW k \in 1..n
        PROVE  f[k] = 2 * f[k - 1]
    <3>1. f[k - 1] \in Nat
      BY <2>3
    <3>. QED  BY <2>1, <2>3, <3>1 DEF Iterates
  <2>. QED  BY <2>3, <2>4 DEF Iterates
<1>2. PICK F : F = [n \in Nat |-> CHOOSE f : Table(f, n)]
  OBVIOUS
<1>3. \A n \in Nat : Table(F[n], n)
  <2>. HIDE DEF Table
  <2>. QED  BY <1>1, <1>2
<1>4. ASSUME NEW n \in Nat, NEW m \in Nat, n =< m
      PROVE  F[m][n] = F[n][n]
  <2>. PICK T : T = {k \in 0..n : F[m][k] = F[n][k]}
    OBVIOUS
  <2>1. 0 \in T
    BY <1>3, <1>4
  <2>2. ASSUME NEW k \in 1..n, k - 1 \in T
        PROVE  k \in T
    <3>1. k \in 1..m
      BY <1>4
    <3>2. F[m][k] = 2 * F[m][k - 1] /\ F[n][k] = 2 * F[n][k - 1]
      BY <1>3, <3>1
    <3>. QED  BY <2>2, <3>2
  <2>3. n \in 0..n
    OBVIOUS
  <2>. QED  BY <2>1, <2>2, <2>3, Upwards
<1>5. PICK G : G = [n \in Nat |-> F[n][n]]
  OBVIOUS
<1>6. ASSUME NEW n \in Nat
      PROVE  G[n] = IF n = 0 THEN 1 ELSE 2 * G[n - 1]
  <2>1. CASE n = 0
    BY <1>3, <1>5, <2>1
  <2>2. CASE n # 0
    <3>1. n - 1 \in Nat /\ n - 1 =< n /\ n \in 1..n
      BY <2>2
    <3>2. F[n][n - 1] = F[n - 1][n - 1]
      BY <1>4, <3>1
    <3>3. F[n][n] = 2 * F[n][n - 1]
      BY <1>3, <3>1
    <3>. QED  BY <1>5, <2>2, <3>1, <3>2, <3>3
  <2>. QED  BY <2>1, <2>2
<1>7. G = [n \in Nat |-> IF n = 0 THEN 1 ELSE 2 * G[n - 1]]
  BY <1>5, <1>6
<1>. QED  BY <1>7 DEF Pow2

LEMMA Pow2Facts ==
    /\ Pow2[0] = 1
    /\ \A n \in Nat : Pow2[n] \in Nat \ {0} /\ Pow2[n + 1] = 2 * Pow2[n]
<1>1. Pow2[0] = 1
  BY Pow2Equation
<1>2. ASSUME NEW n \in Nat
      PROVE  Pow2[n + 1] = 2 * Pow2[n]
  <2>1. n + 1 \in Nat /\ n + 1 # 0 /\ (n + 1) - 1 = n
    OBVIOUS
  <2>. QED  BY <2>1, Pow2Equation
<1>3. ASSUME NEW n \in Nat
      PROVE  Pow2[n] \in Nat \ {0}
  <2>. PICK T : T = {k \in 0..n : Pow2[k] \in Nat \ {0}}
    OBVIOUS
  <2>1. 0 \in T
    BY <1>1
  <2>2. ASSUME NEW k \in 1..n, k - 1 \in T
        PROVE  k \in T
    <3>1. Pow2[k] = 2 * Pow2[k - 1]
      <4>1. k - 1 \in Nat /\ (k - 1) + 1 = k
        OBVIOUS
      <4>. QED  BY <1>2, <4>1
    <3>. QED  BY <2>2, <3>1
  <2>3. n \in 0..n
    OBVIOUS
  <2>. QED  BY <2>1, <2>2, <2>3, Upwards
<1>. QED  BY <1>1, <1>2, <1>3

LEMMA Pow2Values ==
    /\ Pow2[0] = 1 /\ Pow2[1] = 2 /\ Pow2[2] = 4 /\ Pow2[3] = 8
    /\ Pow2[4] = 16 /\ Pow2[5] = 32 /\ Pow2[6] = 64 /\ Pow2[7] = 128
    /\ Pow2[8] = 256
<1>1. Pow2[0] = 1 /\ Pow2[0 + 1] = 2 * Pow2[0] /\ Pow2[1 + 1] = 2 * Pow2[1]
      /\ Pow2[2 + 1] = 2 * Pow2[2] /\ Pow2[3 + 1] = 2 * Pow2[3]
  BY Pow2Facts
<1>2. Pow2[4 + 1] = 2 * Pow2[4] /\ Pow2[5 + 1] = 2 * Pow2[5]
      /\ Pow2[6 + 1] = 2 * Pow2[6] /\ Pow2[7 + 1] = 2 * Pow2[7]
  BY Pow2Facts
<1>. QED  BY <1>1, <1>2

LEMMA Pow2Sum ==
    \A m, n \in Nat : Pow2[m + n] = Pow2[m] * Pow2[n]
<1>. SUFFICES ASSUME NEW m \in Nat, NEW n \in Nat
              PROVE  Pow2[m + n] = Pow2[m] * Pow2[n]
  OBVIOUS
<1>. PICK T : T = {k \in 0..n : Pow2[m + k] = Pow2[m] * Pow2[k]}
  OBVIOUS
<1>1. 0 \in T
  BY Pow2Facts
<1>2. ASSUME NEW k \in 1..n, k - 1 \in T
      PROVE  k \in T
  <2>1. Pow2[(m + k - 1) + 1] = 2 * Pow2[m + k - 1]
        /\ Pow2[(k - 1) + 1] = 2 * Pow2[k - 1]
    BY Pow2Facts
  <2>2. Pow2[m + k] = 2 * Pow2[m + (k - 1)] /\ Pow2[k] = 2 * Pow2[k - 1]
    BY <2>1
  <2>3. Pow2[m + (k - 1)] = Pow2[m] * Pow2[k - 1]
    BY <1>2
  <2>4. Pow2[m] \in Nat /\ Pow2[k - 1] \in Nat
    BY Pow2Facts
  <2>. QED  BY <2>2, <2>3, <2>4
<1>3. n \in 0..n
  OBVIOUS
<1>. QED  BY <1>1, <1>2, <1>3, Upwards

LEMMA Pow2Grows ==
    \A m, n \in Nat : m =< n => Pow2[m] =< Pow2[n]
<1>. SUFFICES ASSUME NEW m \in Nat, NEW n \in Nat, m =< n
              PROVE  Pow2[m] =< Pow2[n]
  OBVIOUS
<1>1. n - m \in Nat /\ m + (n - m) = n
  OBVIOUS
<1>2. Pow2[n] = Pow2[m] * Pow2[n - m]
  BY <1>1, Pow2Sum
<1>3. Pow2[m] \in Nat /\ Pow2[n - m] \in Nat \ {0}
  BY <1>1, Pow2Facts
<1>. QED  BY <1>2, <1>3

(***************************************************************************)
(* Sums                                                                    *)
(***************************************************************************)
LEMMA SumsFacts ==
    ASSUME NEW s \in Seq(Nat)
    PROVE  /\ Sums(s) \in [0..Len(s) -> Nat]
           /\ Sums(s)[0] = 0
           /\ \A k \in 1..Len(s) : Sums(s)[k] = Sums(s)[k - 1] + s[k]
<1>. DEFINE n == Len(s)
            F(f) == [k \in 0..n |-> IF k = 0 THEN 0 ELSE f[k - 1] + s[k]]
<1>0. n \in Nat
  OBVIOUS
<1>1. PICK step : step = [k \in 1..n |-> [x \in Nat |-> x + s[k]]]
  OBVIOUS
<1>2. step \in [1..n -> [Nat -> Nat]]
  <2>1. ASSUME NEW k \in 1..n
        PROVE  [x \in Nat |-> x + s[k]] \in [Nat -> Nat]
    <3>1. s[k] \in Nat
      OBVIOUS
    <3>. QED  BY <3>1
  <2>. QED  BY <1>1, <2>1
<1>3. PICK f \in [0..n -> Nat] : Iterates(f, 0, step, n)
  <2>. HIDE DEF n
  <2>. QED  BY <1>0, <1>2, Iteration
<1>4. \A k \in 0..n : f[k] = F(f)[k]
  <2>1. f[0] = 0
    BY <1>3 DEF Iterates
  <2>2. ASSUME NEW k \in 1..n
        PROVE  f[k] = f[k - 1] + s[k]
    <3>1. f[k - 1] \in Nat
      BY <1>3
    <3>. QED  BY <1>1, <1>3, <3>1 DEF Iterates
  <2>. QED  BY <2>1, <2>2
<1>5. f = F(f)
  BY <1>3, <1>4
<1>6. Sums(s) = F(Sums(s))
  <2>1. Sums(s) = CHOOSE g : g = F(g)
    BY DEF Sums
  <2>. HIDE DEF F
  <2>. QED  BY <1>5, <2>1
<1>7. Sums(s)[0] = 0 /\ \A k \in 1..n : Sums(s)[k] = Sums(s)[k - 1] + s[k]
  <2>1. \A g : g = F(g) => g[0] = 0 /\ \A k \in 1..n : g[k] = g[k - 1] + s[k]
    <3>1. ASSUME NEW g, g = F(g)
          PROVE  g[0] = 0 /\ \A k \in 1..n : g[k] = g[k - 1] + s[k]
      <4>1. F(g)[0] = 0 /\ \A k \in 1..n : F(g)[k] = g[k - 1] + s[k]
        OBVIOUS
      <4>. HIDE DEF F
      <4>. QED  BY <3>1, <4>1
    <3>. QED  BY <3>1
  <2>. QED  BY <1>6, <2>1
<1>8. \A k \in 0..n : Sums(s)[k] \in Nat
  <2>. PICK T : T = {k \in 0..n : Sums(s)[k] \in Nat}
    OBVIOUS
  <2>1. 0 \in T
    BY <1>7
  <2>2. ASSUME NEW k \in 1..n, k - 1 \in T
        PROVE  k \in T
    BY <1>7, <2>2
  <2>. HIDE DEF n
  <2>. QED  BY <1>0, <2>1, <2>2, Upwards
<1>9. Sums(s) \in [0..n -> Nat]
  <2>1. DOMAIN F(Sums(s)) = 0..n /\ F(Sums(s)) = [k \in 0..n |-> F(Sums(s))[k]]
    OBVIOUS
  <2>2. Sums(s) = [k \in 0..n |-> Sums(s)[k]]
    <3>. HIDE DEF F
    <3>. QED  BY <1>6, <2>1
  <2>. QED  BY <1>8, <2>2
<1>. QED  BY <1>7, <1>9

\* Sums grow, and by each of the numbers that come in between.
LEMMA SumsGrow ==
    ASSUME NEW s \in Seq(Nat)
    PROVE  \A i, k \in 0..Len(s) : i =< k => Sums(s)[i] =< Sums(s)[k]
<1>. SUFFICES ASSUME NEW i \in 0..Len(s), NEW n \in 0..Len(s), i =< n
              PROVE  Sums(s)[i] =< Sums(s)[n]
  OBVIOUS
<1>. PICK T : T = {k \in 0..n : i =< k => Sums(s)[i] =< Sums(s)[k]}
  OBVIOUS
<1>1. 0 \in T
  BY SumsFacts
<1>2. ASSUME NEW k \in 1..n, k - 1 \in T
      PROVE  k \in T
  <2>1. k \in 1..Len(s) /\ k - 1 \in 0..Len(s) /\ s[k] \in Nat
    OBVIOUS
  <2>2. Sums(s)[k] = Sums(s)[k - 1] + s[k]
    BY <2>1, SumsFacts
  <2>3. Sums(s)[k - 1] \in Nat /\ Sums(s)[i] \in Nat
    BY <2>1, SumsFacts
  <2>. QED  BY <1>2, <2>1, <2>2, <2>3
<1>3. n \in 0..n /\ n \in Nat
  OBVIOUS
<1>. QED  BY <1>1, <1>2, <1>3, Upwards

(***************************************************************************)
(* Binary notation                                                         *)
(***************************************************************************)
LEMMA DigitRange ==
    \A value \in Int, k \in Nat : Digit(value, k) \in {0, 1}
<1>. SUFFICES ASSUME NEW value \in Int, NEW k \in Nat
              PROVE  Digit(value, k) \in {0, 1}
  OBVIOUS
<1>1. Pow2[k] \in Nat \ {0}
  BY Pow2Facts
<1>2. value \div Pow2[k] \in Int
  BY <1>1
<1>. QED  BY <1>2 DEF Digit

LEMMA Division ==
    ASSUME NEW a \in Int, NEW b \in Nat \ {0}
    PROVE  /\ a \div b \in Int /\ a % b \in 0..(b - 1)
           /\ a = b * (a \div b) + (a % b)
OBVIOUS

\* The digits of a number beyond n of them do not matter to the first n.
LEMMA DigitOfRemainder ==
    \A value \in Int, n \in Nat : \A k \in 0..(n - 1) :
        Digit(value % Pow2[n], k) = Digit(value, k)
<1>. SUFFICES ASSUME NEW value \in Int, NEW n \in Nat, NEW k \in 0..(n - 1)
              PROVE  Digit(value % Pow2[n], k) = Digit(value, k)
  OBVIOUS
<1>1. PICK P \in Nat \ {0} : P = Pow2[k]
  BY Pow2Facts
<1>2. PICK H \in Nat \ {0} : H = Pow2[n - k - 1]
  BY Pow2Facts
<1>3. Pow2[n] = P * (2 * H)
  <2>1. n - k - 1 \in Nat /\ (n - k - 1) + 1 = n - k /\ k + (n - k) = n
        /\ n - k \in Nat
    OBVIOUS
  <2>2. Pow2[n - k] = 2 * H
    BY <1>2, <2>1, Pow2Facts
  <2>. QED  BY <1>1, <2>1, <2>2, Pow2Sum
<1>4. PICK a \in Int : a = value \div Pow2[n]
  BY Pow2Facts
<1>5. PICK r \in Int : r = value % Pow2[n]
  BY Pow2Facts
<1>6. value = (P * (2 * H)) * a + r
  <2>1. Pow2[n] \in Nat \ {0}
    BY Pow2Facts
  <2>2. value = Pow2[n] * a + r
    BY <1>4, <1>5, <2>1, Division
  <2>. QED  BY <1>3, <2>2
<1>7. PICK b \in Int, c \in 0..(P - 1) : b = r \div P /\ r = P * b + c
  BY Division
<1>8. PICK m \in Int : m = H * a
  OBVIOUS
<1>9. value \div P = 2 * m + b
  <2>1. (P * (2 * H)) * a = P * (2 * m)
    BY <1>8
  <2>2. P * (2 * m) + P * b = P * (2 * m + b)
    OBVIOUS
  <2>3. value = P * (2 * m) + P * b + c
    <3>1. value = (P * (2 * H)) * a + r /\ r = P * b + c
      BY <1>6, <1>7
    <3>2. value = P * (2 * m) + r
      BY <2>1, <3>1
    <3>. QED  BY <3>1, <3>2
  <2>4. PICK x \in Int : x = 2 * m + b
    OBVIOUS
  <2>5. value = P * x + c
    BY <2>2, <2>3, <2>4
  <2>6. c \in Int /\ 0 =< c /\ c < P
    OBVIOUS
  <2>7. value \div P = x
    BY <2>5, <2>6
  <2>. QED  BY <2>4, <2>7
<1>10. (2 * m + b) % 2 = b % 2
  OBVIOUS
<1>. QED  BY <1>1, <1>5, <1>7, <1>9, <1>10 DEF Digit

\* A digit more.
LEMMA QuotientDigit ==
    \A value \in Int, k \in Nat :
        value \div Pow2[k] = 2 * (value \div Pow2[k + 1]) + Digit(value, k)
<1>. SUFFICES ASSUME NEW value \in Int, NEW k \in Nat
              PROVE  value \div Pow2[k] = 2 * (value \div Pow2[k + 1])
                                          + Digit(value, k)
  OBVIOUS
<1>1. PICK P \in Nat \ {0} : P = Pow2[k]
  BY Pow2Facts
<1>2. Pow2[k + 1] = P * 2
  BY <1>1, Pow2Facts
<1>3. PICK q \in Int : q = value \div P
  BY Division
<1>4. q \div 2 = value \div (P * 2)
  BY <1>3
<1>5. q = 2 * (q \div 2) + (q % 2)
  OBVIOUS
<1>. QED  BY <1>1, <1>2, <1>3, <1>4, <1>5 DEF Digit

(***************************************************************************)
(* Bytes                                                                   *)
(***************************************************************************)
\* A byte is what its bits are worth.
LEMMA ByteOfBits ==
    \A b \in 0..255 :
        b = 128 * Digit(b, 7) + 64 * Digit(b, 6) + 32 * Digit(b, 5)
            + 16 * Digit(b, 4) + 8 * Digit(b, 3) + 4 * Digit(b, 2)
            + 2 * Digit(b, 1) + Digit(b, 0)
BY Pow2Values DEF Digit

\* To set a digit that is 0 changes that digit only.
LEMMA DigitSet ==
    ASSUME NEW b \in Nat, NEW j \in Nat, Digit(b, j) = 0
    PROVE  /\ Digit(b + Pow2[j], j) = 1
           /\ \A k \in Nat : k # j => Digit(b + Pow2[j], k) = Digit(b, k)
<1>1. PICK P \in Nat \ {0} : P = Pow2[j]
  BY Pow2Facts
<1>2. Pow2[j + 1] = P * 2
  BY <1>1, Pow2Facts
<1>3. PICK q \in Int, r \in 0..(P - 1) :
           q = b \div P /\ r = b % P /\ b = P * q + r
  <2>1. b \div P \in Int /\ b % P \in 0..(P - 1)
        /\ b = P * (b \div P) + (b % P)
    BY Division
  <2>. QED  BY <2>1
<1>4. q % 2 = 0
  BY <1>1, <1>3 DEF Digit
<1>5. (b + P) \div P = q + 1 /\ (b + P) % P = r
  <2>1. b + P = P * (q + 1) + r
    BY <1>3
  <2>2. PICK x \in Int : x = q + 1
    OBVIOUS
  <2>3. b + P \in Int /\ b + P = P * x + r
    BY <2>1, <2>2
  <2>4. r \in Int /\ 0 =< r /\ r < P
    OBVIOUS
  <2>5. (b + P) \div P = x /\ (b + P) % P = r
    BY <2>3, <2>4
  <2>. QED  BY <2>2, <2>5
<1>6. (b + P) \div (P * 2) = b \div (P * 2)
  <2>1. (b + P) \div (P * 2) = ((b + P) \div P) \div 2
        /\ b \div (P * 2) = (b \div P) \div 2
    OBVIOUS
  <2>2. (q + 1) \div 2 = q \div 2
    BY <1>4
  <2>. QED  BY <1>3, <1>5, <2>1, <2>2
<1>7. Digit(b + Pow2[j], j) = 1
  <2>1. (q + 1) % 2 = 1
    BY <1>4
  <2>. QED  BY <1>1, <1>5, <2>1 DEF Digit
<1>8. ASSUME NEW k \in Nat, k < j
      PROVE  Digit(b + Pow2[j], k) = Digit(b, k)
  <2>1. k \in 0..(j - 1) /\ b \in Int /\ b + P \in Int
    BY <1>8
  <2>2. Digit((b + P) % P, k) = Digit(b + P, k) /\ Digit(b % P, k) = Digit(b, k)
    BY <1>1, <2>1, DigitOfRemainder
  <2>. QED  BY <1>1, <1>3, <1>5, <2>2
<1>9. ASSUME NEW k \in Nat, k > j
      PROVE  Digit(b + Pow2[j], k) = Digit(b, k)
  <2>1. PICK m \in Nat : k = (j + 1) + m
    <3>1. k - j - 1 \in Nat /\ k = (j + 1) + (k - j - 1)
      BY <1>9
    <3>. QED  BY <3>1
  <2>2. PICK M \in Nat \ {0} : M = Pow2[m]
    BY Pow2Facts
  <2>3. Pow2[k] = (P * 2) * M
    BY <1>2, <2>1, <2>2, Pow2Sum
  <2>4. PICK Q \in Nat \ {0} : Q = P * 2
    OBVIOUS
  <2>5. (b + P) \div (Q * M) = ((b + P) \div Q) \div M
        /\ b \div (Q * M) = (b \div Q) \div M
    OBVIOUS
  <2>. QED  BY <1>1, <1>6, <2>3, <2>4, <2>5 DEF Digit
<1>. QED  BY <1>7, <1>8, <1>9

\* So it is for a byte, which stays one.
LEMMA BitSet ==
    ASSUME NEW b \in 0..255, NEW j \in 0..7, Digit(b, j) = 0, NEW d \in {0, 1}
    PROVE  /\ b + d * Pow2[j] \in 0..255
           /\ Digit(b + d * Pow2[j], j) = d
           /\ \A k \in 0..7 : k # j => Digit(b + d * Pow2[j], k) = Digit(b, k)
<1>1. CASE d = 0
  <2>1. b + d * Pow2[j] = b
    BY <1>1, Pow2Facts
  <2>. QED  BY <1>1, <2>1
<1>2. CASE d = 1
  <2>1. b + d * Pow2[j] = b + Pow2[j]
    BY <1>2, Pow2Facts
  <2>2. b + Pow2[j] \in 0..255
    BY Pow2Values DEF Digit
  <2>3. b \in Nat /\ j \in Nat /\ \A k \in 0..7 : k \in Nat
    OBVIOUS
  <2>. QED  BY <1>2, <2>1, <2>2, <2>3, DigitSet
<1>. QED  BY <1>1, <1>2

(***************************************************************************)
(* The bit buffer                                                          *)
(***************************************************************************)
ByteArrays(len) == [1..len -> 0..255]

\* The bit buffers of len bytes.
Buffers(len) == [buffer : ByteArrays(len), index : Nat]

\* The bytes of a buffer are a sequence, and their bits are bits.
LEMMA BufferBytes ==
    ASSUME NEW len \in Nat, NEW bytes \in ByteArrays(len)
    PROVE  /\ Len(bytes) = len /\ DOMAIN bytes = 1..len
           /\ \A i \in 0..(8 * len - 1) :
                 /\ i \div 8 + 1 \in 1..len /\ 7 - (i % 8) \in 0..7
                 /\ bytes[i \div 8 + 1] \in 0..255
                 /\ Bit(bytes, i) \in {0, 1}
<1>1. Len(bytes) = len /\ DOMAIN bytes = 1..len
  BY DEF ByteArrays
<1>2. ASSUME NEW i \in 0..(8 * len - 1)
      PROVE  i \div 8 + 1 \in 1..len /\ 7 - (i % 8) \in 0..7
  OBVIOUS
<1>3. ASSUME NEW i \in 0..(8 * len - 1)
      PROVE  bytes[i \div 8 + 1] \in 0..255
  BY <1>2 DEF ByteArrays
<1>4. ASSUME NEW i \in 0..(8 * len - 1)
      PROVE  Bit(bytes, i) \in {0, 1}
  <2>1. bytes[i \div 8 + 1] \in Int /\ 7 - (i % 8) \in Nat
    BY <1>2, <1>3
  <2>. QED  BY <2>1, DigitRange DEF Bit
<1>. QED  BY <1>1, <1>2, <1>3, <1>4

\* new is bb with the low bit of value put.
OneBitPut(bb, new, value, len) ==
    /\ new \in Buffers(len)
    /\ new.index = bb.index + 1
    /\ Bit(new.buffer, bb.index) = value % 2
    /\ \A i \in 0..(8 * len - 1) :
          i # bb.index => Bit(new.buffer, i) = Bit(bb.buffer, i)

LEMMA PutBit ==
    ASSUME NEW len \in Nat
    PROVE  \A bb \in Buffers(len), value \in Int :
               bb.index < 8 * len /\ Bit(bb.buffer, bb.index) = 0 =>
                   OneBitPut(bb, bitbuffer_putbit(bb, value), value, len)
<1>. SUFFICES ASSUME NEW bb \in Buffers(len), NEW value \in Int,
                     bb.index < 8 * len, Bit(bb.buffer, bb.index) = 0
              PROVE  OneBitPut(bb, bitbuffer_putbit(bb, value), value, len)
  OBVIOUS
<1>. DEFINE new == bitbuffer_putbit(bb, value)
<1>1. PICK p \in 1..len, j \in 0..7 :
          p = bb.index \div 8 + 1 /\ j = 7 - (bb.index % 8)
  <2>1. bb.index \in 0..(8 * len - 1) /\ bb.buffer \in ByteArrays(len)
    BY DEF Buffers
  <2>. QED  BY <2>1, BufferBytes
<1>2. PICK b \in 0..255 : b = bb.buffer[p] /\ Digit(b, j) = 0
  BY <1>1 DEF Buffers, ByteArrays, Bit
<1>3. PICK d \in {0, 1} : d = value % 2
  OBVIOUS
<1>4. new = [buffer |-> [bb.buffer EXCEPT ![p] = b + d * Pow2[j]],
             index |-> bb.index + 1]
  BY <1>1, <1>2, <1>3, SMTT(30)
     DEF bitbuffer_putbit, bitbuffer_getbit, Current, Buffers, ByteArrays, Digit
<1>5. /\ b + d * Pow2[j] \in 0..255
      /\ Digit(b + d * Pow2[j], j) = d
      /\ \A k \in 0..7 : k # j => Digit(b + d * Pow2[j], k) = Digit(b, k)
  BY <1>2, BitSet, ZenonT(60)
<1>6. new \in Buffers(len) /\ new.index = bb.index + 1
  BY <1>4, <1>5, SMTT(30) DEF Buffers, ByteArrays
<1>7. new.buffer[p] = b + d * Pow2[j]
      /\ \A q \in 1..len : q # p => new.buffer[q] = bb.buffer[q]
  BY <1>4 DEF Buffers, ByteArrays
<1>. HIDE DEF new
<1>8. Bit(new.buffer, bb.index) = d
  BY <1>1, <1>5, <1>7 DEF Bit
<1>9. ASSUME NEW i \in 0..(8 * len - 1), i # bb.index
      PROVE  Bit(new.buffer, i) = Bit(bb.buffer, i)
  <2>1. PICK q \in 1..len, k \in 0..7 : q = i \div 8 + 1 /\ k = 7 - (i % 8)
    OBVIOUS
  <2>2. q # p \/ k # j
    BY <1>1, <1>9, <2>1 DEF Buffers
  <2>. QED  BY <1>2, <1>5, <1>7, <2>1, <2>2 DEF Bit
<1>. QED  BY <1>3, <1>6, <1>8, <1>9 DEF new, OneBitPut

\* From the index on, nothing has been put yet.
Clear(bb, len) == \A i \in bb.index..(8 * len - 1) : Bit(bb.buffer, i) = 0

\* The states that bitbuffer_putbits goes through.
PutSteps(f, bb, n, value) ==
    /\ f[0] = bb
    /\ \A k \in 1..n :
          f[k] = bitbuffer_putbit(f[k - 1], (value % WordSize) \div Pow2[n - k])

LEMMA PutBitsSteps ==
    ASSUME WordBits \in Nat, NEW len \in Nat
    PROVE  \A bb \in Buffers(len), n \in Nat, value \in Int :
               \E f : PutSteps(f, bb, n, value)
                      /\ bitbuffer_putbits(bb, n, value) = f[n]
<1>. SUFFICES ASSUME NEW bb \in Buffers(len), NEW n \in Nat, NEW value \in Int
              PROVE  \E f : PutSteps(f, bb, n, value)
                            /\ bitbuffer_putbits(bb, n, value) = f[n]
  OBVIOUS
<1>. DEFINE S == [buffer : [1..len -> Int], index : Nat]
            v == value % WordSize
            F(f) == [k \in 0..n |-> IF k = 0 THEN bb
                                    ELSE bitbuffer_putbit(f[k - 1],
                                                          v \div Pow2[n - k])]
<1>0. v \in Int
  BY Pow2Facts DEF WordSize
<1>1. bb \in S
  <2>1. bb.buffer \in [1..len -> Int]
    <3>1. bb.buffer \in [1..len -> 0..255]
      BY DEF Buffers, ByteArrays
    <3>2. ASSUME NEW p \in 1..len
          PROVE  bb.buffer[p] \in Int
      <4>1. bb.buffer[p] \in 0..255
        BY <3>1
      <4>. QED  BY <4>1
    <3>. QED  BY <3>1, <3>2
  <2>2. bb = [buffer |-> bb.buffer, index |-> bb.index] /\ bb.index \in Nat
    BY DEF Buffers
  <2>. QED  BY <2>1, <2>2
<1>2. ASSUME NEW x \in S, NEW w \in Int
      PROVE  bitbuffer_putbit(x, w) \in S
  <2>1. PICK j \in Nat : j = 7 - (x.index % 8)
    <3>1. x.index \in Nat
      OBVIOUS
    <3>2. x.index % 8 \in 0..7
      BY <3>1, SMTT(30)
    <3>. QED  BY <3>2
  <2>2. Pow2[7 - (x.index % 8)] \in Int
    <3>1. Pow2[j] \in Nat \ {0}
      BY Pow2Facts
    <3>. QED  BY <2>1, <3>1
  <2>3. PICK d \in Int : d = (w % 2) * Pow2[7 - (x.index % 8)]
    BY <2>2
  <2>4. PICK p \in Int : p = x.index \div 8 + 1
    OBVIOUS
  <2>5. \A q \in 1..len : x.buffer[q] \in Int
    OBVIOUS
  <2>6. [x.buffer EXCEPT ![p] = IF bitbuffer_getbit(x) = 1 THEN @ ELSE @ + d]
        \in [1..len -> Int]
    <3>1. x.buffer \in [1..len -> Int]
      OBVIOUS
    <3>2. x.buffer[p] + d \in Int \/ p \notin 1..len
      BY <2>5
    <3>. QED  BY <2>5, <3>1, <3>2
  <2>. QED  BY <2>3, <2>4, <2>6 DEF bitbuffer_putbit
<1>3. PICK step : step = [k \in 1..n |->
                            [x \in S |-> bitbuffer_putbit(x, v \div Pow2[n - k])]]
  OBVIOUS
<1>4. step \in [1..n -> [S -> S]]
  <2>1. ASSUME NEW k \in 1..n
        PROVE  [x \in S |-> bitbuffer_putbit(x, v \div Pow2[n - k])] \in [S -> S]
    <3>1. n - k \in Nat
      OBVIOUS
    <3>2. v \div Pow2[n - k] \in Int
      <4>. HIDE DEF v
      <4>. QED  BY <1>0, <3>1, Pow2Facts
    <3>. HIDE DEF S, v
    <3>. QED  BY <1>2, <3>2
  <2>. HIDE DEF S, v
  <2>. QED  BY <1>3, <2>1
<1>5. PICK f \in [0..n -> S] : Iterates(f, bb, step, n)
  <2>. HIDE DEF S
  <2>. QED  BY <1>1, <1>4, Iteration
<1>6. f[0] = bb /\ \A k \in 1..n : f[k] = bitbuffer_putbit(f[k - 1],
                                                           v \div Pow2[n - k])
  <2>1. \A k \in 1..n : f[k - 1] \in S
    <3>. HIDE DEF S
    <3>. QED  BY <1>5
  <2>. HIDE DEF S, v
  <2>. QED  BY <1>3, <1>5, <2>1 DEF Iterates
<1>7. f = F(f)
  <2>1. \A k \in 0..n : f[k] = F(f)[k]
    <3>. HIDE DEF S, v
    <3>. QED  BY <1>6
  <2>. HIDE DEF S, v
  <2>. QED  BY <1>5, <2>1
<1>8. PICK g : g = (CHOOSE h : h = F(h)) /\ g = F(g)
  <2>. HIDE DEF F
  <2>. QED  BY <1>7
<1>9. bitbuffer_putbits(bb, n, value) = g[n]
  BY <1>8 DEF bitbuffer_putbits
<1>10. g[0] = bb /\ \A k \in 1..n : g[k] = bitbuffer_putbit(g[k - 1],
                                                            v \div Pow2[n - k])
  <2>1. F(g)[0] = bb
        /\ \A k \in 1..n : F(g)[k] = bitbuffer_putbit(g[k - 1], v \div Pow2[n - k])
    <3>. HIDE DEF v
    <3>. QED  OBVIOUS
  <2>. HIDE DEF F, v
  <2>. QED  BY <1>8, <2>1
<1>. QED  BY <1>9, <1>10 DEF PutSteps

\* new is bb with n bits put: the digits of value, the highest of them first.
Extended(bb, new, n, value, len) ==
    /\ new \in Buffers(len)
    /\ new.index = bb.index + n
    /\ Clear(new, len)
    /\ \A i \in 0..(bb.index - 1) : Bit(new.buffer, i) = Bit(bb.buffer, i)
    /\ \A i \in bb.index..(bb.index + n - 1) :
          Bit(new.buffer, i) = Digit(value, bb.index + n - 1 - i)

LEMMA PutBits ==
    ASSUME WordBits \in Nat, NEW len \in Nat
    PROVE  \A bb \in Buffers(len), n \in 0..WordBits, value \in Int :
               bb.index + n =< 8 * len /\ Clear(bb, len) =>
                   Extended(bb, bitbuffer_putbits(bb, n, value), n, value, len)
<1>. SUFFICES ASSUME NEW bb \in Buffers(len), NEW n \in 0..WordBits,
                     NEW value \in Int,
                     bb.index + n =< 8 * len, Clear(bb, len)
              PROVE  Extended(bb, bitbuffer_putbits(bb, n, value), n, value, len)
  OBVIOUS
<1>0. n \in Nat /\ bb.index \in Nat
  BY DEF Buffers
<1>1. PICK f : PutSteps(f, bb, n, value)
               /\ bitbuffer_putbits(bb, n, value) = f[n]
  BY <1>0, PutBitsSteps, Zenon
<1>. DEFINE Good(k) ==
              /\ f[k] \in Buffers(len)
              /\ f[k].index = bb.index + k
              /\ Clear(f[k], len)
              /\ \A i \in 0..(bb.index - 1) :
                    Bit(f[k].buffer, i) = Bit(bb.buffer, i)
              /\ \A i \in bb.index..(bb.index + k - 1) :
                    Bit(f[k].buffer, i) = Digit(value, bb.index + n - 1 - i)
<1>. PICK T : T = {k \in 0..n : Good(k)}
  OBVIOUS
<1>2. 0 \in T
  BY <1>0, <1>1 DEF PutSteps
<1>3. ASSUME NEW k \in 1..n, k - 1 \in T
      PROVE  k \in T
  <2>. DEFINE d == (value % WordSize) \div Pow2[n - k]
  <2>1. d \in Int /\ d % 2 = Digit(value, n - k)
    <3>1. n - k \in 0..(WordBits - 1) /\ n - k \in Nat
      OBVIOUS
    <3>2. Digit(value % Pow2[WordBits], n - k) = Digit(value, n - k)
      BY <3>1, DigitOfRemainder
    <3>3. value % Pow2[WordBits] \in Int
      BY Pow2Facts
    <3>4. (value % Pow2[WordBits]) \div Pow2[n - k] \in Int
      BY <3>1, <3>3, Pow2Facts
    <3>. QED  BY <3>2, <3>4 DEF Digit, WordSize
  <2>. HIDE DEF d
  <2>2. PICK x \in Buffers(len) : x = f[k - 1] /\ x.index = bb.index + (k - 1)
    BY <1>3
  <2>3. Clear(x, len) /\ x.index \in x.index..(8 * len - 1)
    BY <1>0, <1>3, <2>2
  <2>4. Bit(x.buffer, x.index) = 0 /\ x.index < 8 * len
    BY <2>3 DEF Clear
  <2>5. PICK new : new = bitbuffer_putbit(x, d) /\ f[k] = new
    <3>1. f[k] = bitbuffer_putbit(f[k - 1], d)
      BY <1>1 DEF d, PutSteps
    <3>. QED  BY <2>2, <3>1
  <2>6. /\ new \in Buffers(len)
        /\ new.index = x.index + 1
        /\ Bit(new.buffer, x.index) = d % 2
        /\ \A i \in 0..(8 * len - 1) :
              i # x.index => Bit(new.buffer, i) = Bit(x.buffer, i)
    <3>1. OneBitPut(x, bitbuffer_putbit(x, d), d, len)
      BY <2>1, <2>4, PutBit
    <3>. QED  BY <2>5, <3>1 DEF OneBitPut
  <2>7. new.index = bb.index + k
    BY <1>0, <2>2, <2>6
  <2>8. Clear(new, len)
    <3>1. ASSUME NEW i \in new.index..(8 * len - 1)
          PROVE  Bit(new.buffer, i) = 0
      <4>1. i \in 0..(8 * len - 1) /\ i # x.index /\ i \in x.index..(8 * len - 1)
        BY <1>0, <2>2, <2>7
      <4>. QED  BY <2>3, <2>6, <4>1 DEF Clear
    <3>. QED  BY <3>1 DEF Clear
  <2>9. ASSUME NEW i \in 0..(bb.index - 1)
        PROVE  Bit(new.buffer, i) = Bit(bb.buffer, i)
    <3>1. i \in 0..(8 * len - 1) /\ i # x.index
      BY <1>0, <2>2, <2>4
    <3>2. Bit(x.buffer, i) = Bit(bb.buffer, i)
      BY <1>3, <2>2
    <3>. QED  BY <2>6, <3>1, <3>2
  <2>10. ASSUME NEW i \in bb.index..(bb.index + k - 1)
         PROVE  Bit(new.buffer, i) = Digit(value, bb.index + n - 1 - i)
    <3>1. CASE i = x.index
      <4>1. bb.index + n - 1 - i = n - k
        BY <1>0, <2>2, <3>1
      <4>. QED  BY <2>1, <2>6, <3>1, <4>1
    <3>2. CASE i # x.index
      <4>1. i \in bb.index..(bb.index + (k - 1) - 1) /\ i \in 0..(8 * len - 1)
        BY <1>0, <2>2, <2>4, <3>2
      <4>2. Bit(x.buffer, i) = Digit(value, bb.index + n - 1 - i)
        BY <1>3, <2>2, <4>1
      <4>. QED  BY <2>6, <3>2, <4>1, <4>2
    <3>. QED  BY <3>1, <3>2
  <2>11. Good(k)
    BY <2>5, <2>6, <2>7, <2>8, <2>9, <2>10
  <2>. HIDE DEF Good
  <2>. QED  BY <2>11
<1>4. n \in T
  <2>1. n \in 0..n
    BY <1>0
  <2>. HIDE DEF Good
  <2>. QED  BY <1>0, <1>2, <1>3, <2>1, Upwards
<1>. QED  BY <1>1, <1>4 DEF Extended

\* The sums that the worth of n bits is made of.
WorthSteps(f, bytes, i, n) ==
    /\ f \in [0..n -> Nat]
    /\ f[0] = 0
    /\ \A k \in 1..n : f[k] = f[k - 1] + Bit(bytes, i + k - 1) * Pow2[n - k]

LEMMA WorthIsSum ==
    ASSUME NEW len \in Nat, NEW bytes \in ByteArrays(len)
    PROVE  \A i, n \in Nat : i + n =< 8 * len =>
               \E f : WorthSteps(f, bytes, i, n) /\ Worth(bytes, i, n) = f[n]
<1>. SUFFICES ASSUME NEW i \in Nat, NEW n \in Nat, i + n =< 8 * len
              PROVE  \E f : WorthSteps(f, bytes, i, n)
                            /\ Worth(bytes, i, n) = f[n]
  OBVIOUS
<1>. DEFINE F(f) == [k \in 0..n |-> IF k = 0 THEN 0
                        ELSE f[k - 1] + Bit(bytes, i + k - 1) * Pow2[n - k]]
<1>1. PICK w : w = [k \in 1..n |-> Bit(bytes, i + k - 1) * Pow2[n - k]]
  OBVIOUS
<1>2. w \in [1..n -> Nat]
  <2>1. ASSUME NEW k \in 1..n
        PROVE  Bit(bytes, i + k - 1) * Pow2[n - k] \in Nat
    <3>1. i + k - 1 \in 0..(8 * len - 1) /\ n - k \in Nat
      OBVIOUS
    <3>2. Bit(bytes, i + k - 1) \in {0, 1}
      BY <3>1, BufferBytes
    <3>3. Pow2[n - k] \in Nat \ {0}
      BY <3>1, Pow2Facts
    <3>. QED  BY <3>2, <3>3
  <2>. QED  BY <1>1, <2>1
<1>3. PICK step : step = [k \in 1..n |-> [x \in Nat |-> x + w[k]]]
  OBVIOUS
<1>4. step \in [1..n -> [Nat -> Nat]]
  BY <1>2, <1>3
<1>5. PICK f \in [0..n -> Nat] : Iterates(f, 0, step, n)
  BY <1>4, Iteration
<1>6. f[0] = 0 /\ \A k \in 1..n : f[k] = f[k - 1] + w[k]
  <2>1. \A k \in 1..n : f[k - 1] \in Nat
    BY <1>5
  <2>. QED  BY <1>3, <1>5, <2>1 DEF Iterates
<1>7. f = F(f)
  <2>1. \A k \in 0..n : f[k] = F(f)[k]
    BY <1>1, <1>6
  <2>. QED  BY <1>5, <2>1
<1>8. PICK g : g = (CHOOSE h : h = F(h)) /\ g = F(g)
  <2>. HIDE DEF F
  <2>. QED  BY <1>7
<1>9. Worth(bytes, i, n) = g[n]
  BY <1>8 DEF Worth
<1>10. g[0] = 0 /\ \A k \in 1..n : g[k] = g[k - 1] + w[k]
  <2>1. F(g)[0] = 0
        /\ \A k \in 1..n : F(g)[k] = g[k - 1] + Bit(bytes, i + k - 1) * Pow2[n - k]
    OBVIOUS
  <2>. HIDE DEF F
  <2>. QED  BY <1>1, <1>8, <2>1
<1>11. \A k \in 0..n : g[k] \in Nat
  <2>. PICK T : T = {k \in 0..n : g[k] \in Nat}
    OBVIOUS
  <2>1. 0 \in T
    BY <1>10
  <2>2. ASSUME NEW k \in 1..n, k - 1 \in T
        PROVE  k \in T
    BY <1>2, <1>10, <2>2
  <2>. QED  BY <2>1, <2>2, Upwards
<1>12. g \in [0..n -> Nat]
  <2>1. F(g) = [k \in 0..n |-> F(g)[k]]
    OBVIOUS
  <2>2. g = [k \in 0..n |-> g[k]]
    <3>. HIDE DEF F
    <3>. QED  BY <1>8, <2>1
  <2>. QED  BY <1>11, <2>2
<1>. QED  BY <1>1, <1>9, <1>10, <1>12 DEF WorthSteps

\* A bit more is worth twice as much and the bit; n bits fit in n digits.
LEMMA WorthFacts ==
    ASSUME NEW len \in Nat, NEW bytes \in ByteArrays(len)
    PROVE  \A i, n \in Nat : i + n =< 8 * len =>
               /\ n = 0 => Worth(bytes, i, n) = 0
               /\ i + n < 8 * len =>
                     Worth(bytes, i, n + 1) = 2 * Worth(bytes, i, n)
                                              + Bit(bytes, i + n)
               /\ Worth(bytes, i, n) \in 0..(Pow2[n] - 1)
<1>1. ASSUME NEW i \in Nat, i =< 8 * len
      PROVE  Worth(bytes, i, 0) = 0
  <2>1. \E f : WorthSteps(f, bytes, i, 0) /\ Worth(bytes, i, 0) = f[0]
    <3>1. 0 \in Nat /\ i + 0 =< 8 * len
      BY <1>1
    <3>. QED  BY <3>1, WorthIsSum
  <2>. QED  BY <2>1 DEF WorthSteps
<1>2. ASSUME NEW i \in Nat, NEW n \in Nat, i + n < 8 * len
      PROVE  Worth(bytes, i, n + 1) = 2 * Worth(bytes, i, n) + Bit(bytes, i + n)
  <2>1. PICK f : WorthSteps(f, bytes, i, n) /\ Worth(bytes, i, n) = f[n]
    <3>1. i + n =< 8 * len
      BY <1>2
    <3>. QED  BY <3>1, WorthIsSum
  <2>2. PICK g : WorthSteps(g, bytes, i, n + 1) /\ Worth(bytes, i, n + 1) = g[n + 1]
    <3>1. n + 1 \in Nat /\ i + (n + 1) =< 8 * len
      BY <1>2
    <3>. QED  BY <3>1, WorthIsSum
  <2>. PICK T : T = {k \in 0..n : g[k] = 2 * f[k]}
    OBVIOUS
  <2>3. 0 \in T
    BY <2>1, <2>2 DEF WorthSteps
  <2>4. ASSUME NEW k \in 1..n, k - 1 \in T
        PROVE  k \in T
    <3>1. n - k \in Nat /\ (n - k) + 1 = (n + 1) - k /\ k \in 1..(n + 1)
          /\ i + k - 1 \in 0..(8 * len - 1)
      BY <1>2
    <3>2. PICK P \in Nat \ {0} : P = Pow2[n - k] /\ 2 * P = Pow2[(n + 1) - k]
      BY <3>1, Pow2Facts
    <3>3. PICK b \in {0, 1} : b = Bit(bytes, i + k - 1)
      BY <3>1, BufferBytes
    <3>4. f[k] = f[k - 1] + b * P /\ g[k] = g[k - 1] + b * (2 * P)
          /\ f[k - 1] \in Nat /\ g[k - 1] = 2 * f[k - 1]
      BY <2>1, <2>2, <2>4, <3>1, <3>2, <3>3 DEF WorthSteps
    <3>. QED  BY <3>3, <3>4
  <2>5. g[n] = 2 * f[n]
    <3>1. n \in 0..n
      OBVIOUS
    <3>. QED  BY <2>3, <2>4, <3>1, Upwards
  <2>6. g[n + 1] = g[n] + Bit(bytes, i + n)
    <3>1. n + 1 \in 1..(n + 1) /\ (n + 1) - 1 = n /\ i + (n + 1) - 1 = i + n
          /\ (n + 1) - (n + 1) = 0 /\ i + n \in 0..(8 * len - 1)
      BY <1>2
    <3>2. Bit(bytes, i + n) \in {0, 1}
      BY <3>1, BufferBytes
    <3>3. g[n + 1] = g[n] + Bit(bytes, i + n) * Pow2[0]
      BY <2>2, <3>1 DEF WorthSteps
    <3>. QED  BY <3>2, <3>3, Pow2Facts
  <2>. QED  BY <2>1, <2>2, <2>5, <2>6
<1>3. ASSUME NEW i \in Nat, NEW n \in Nat, i + n =< 8 * len
      PROVE  Worth(bytes, i, n) \in 0..(Pow2[n] - 1)
  <2>. PICK T : T = {k \in 0..n : Worth(bytes, i, k) \in 0..(Pow2[k] - 1)}
    OBVIOUS
  <2>1. 0 \in T
    BY <1>1, <1>3, Pow2Facts
  <2>2. ASSUME NEW k \in 1..n, k - 1 \in T
        PROVE  k \in T
    <3>1. k - 1 \in Nat /\ (k - 1) + 1 = k /\ i + (k - 1) < 8 * len
          /\ i + (k - 1) \in 0..(8 * len - 1)
      BY <1>3
    <3>2. Worth(bytes, i, k) = 2 * Worth(bytes, i, k - 1) + Bit(bytes, i + (k - 1))
      BY <1>2, <3>1
    <3>3. Bit(bytes, i + (k - 1)) \in {0, 1}
      BY <3>1, BufferBytes
    <3>4. Pow2[k] = 2 * Pow2[k - 1] /\ Pow2[k - 1] \in Nat \ {0}
      BY <3>1, Pow2Facts
    <3>. QED  BY <2>2, <3>2, <3>3, <3>4
  <2>3. n \in 0..n
    OBVIOUS
  <2>. QED  BY <2>1, <2>2, <2>3, Upwards
<1>. QED  BY <1>1, <1>2, <1>3

\* Eight bits from a byte boundary on are worth their byte.
LEMMA WorthOfByte ==
    ASSUME NEW len \in Nat, NEW bytes \in ByteArrays(len)
    PROVE  \A i, n \in Nat : (i + n) % 8 = 0 /\ i + n + 8 =< 8 * len =>
               Worth(bytes, i, n + 8)
                   = 256 * Worth(bytes, i, n) + bytes[(i + n) \div 8 + 1]
<1>. SUFFICES ASSUME NEW i \in Nat, NEW n \in Nat, (i + n) % 8 = 0,
                     i + n + 8 =< 8 * len
              PROVE  Worth(bytes, i, n + 8)
                         = 256 * Worth(bytes, i, n) + bytes[(i + n) \div 8 + 1]
  OBVIOUS
<1>1. PICK q \in Nat : q = (i + n) \div 8 /\ i + n = 8 * q
  OBVIOUS
<1>2. PICK b \in 0..255 : b = bytes[q + 1]
  <2>1. i + n \in 0..(8 * len - 1)
    OBVIOUS
  <2>. QED  BY <1>1, <2>1, BufferBytes
<1>3. ASSUME NEW t \in 0..7
      PROVE  Worth(bytes, i, n + t + 1)
                 = 2 * Worth(bytes, i, n + t) + Digit(b, 7 - t)
  <2>1. n + t \in Nat /\ i + (n + t) =< 8 * len /\ i + (n + t) < 8 * len
    OBVIOUS
  <2>2. Worth(bytes, i, (n + t) + 1)
            = 2 * Worth(bytes, i, n + t) + Bit(bytes, i + (n + t))
    BY <2>1, WorthFacts
  <2>3. (i + (n + t)) \div 8 = q /\ (i + (n + t)) % 8 = t
    BY <1>1
  <2>4. Bit(bytes, i + (n + t)) = Digit(b, 7 - t)
    BY <1>2, <2>3 DEF Bit
  <2>. QED  BY <2>2, <2>4
<1>4. PICK w \in Nat : w = Worth(bytes, i, n)
  <2>1. i + n =< 8 * len
    OBVIOUS
  <2>2. Worth(bytes, i, n) \in 0..(Pow2[n] - 1)
    BY <2>1, WorthFacts
  <2>. QED  BY <2>2
<1>5. \A t \in 0..7 : Digit(b, t) \in {0, 1}
  BY DigitRange
<1>. DEFINE W(t) == Worth(bytes, i, n + t)
            D(t) == Digit(b, t)
<1>6. W(1) = 2 * W(0) + D(7) /\ W(2) = 2 * W(1) + D(6)
      /\ W(3) = 2 * W(2) + D(5) /\ W(4) = 2 * W(3) + D(4)
  <2>1. n + 0 + 1 = n + 1 /\ n + 1 + 1 = n + 2 /\ n + 2 + 1 = n + 3
        /\ n + 3 + 1 = n + 4
    OBVIOUS
  <2>2. /\ Worth(bytes, i, n + 0 + 1) = 2 * Worth(bytes, i, n + 0) + Digit(b, 7 - 0)
        /\ Worth(bytes, i, n + 1 + 1) = 2 * Worth(bytes, i, n + 1) + Digit(b, 7 - 1)
        /\ Worth(bytes, i, n + 2 + 1) = 2 * Worth(bytes, i, n + 2) + Digit(b, 7 - 2)
        /\ Worth(bytes, i, n + 3 + 1) = 2 * Worth(bytes, i, n + 3) + Digit(b, 7 - 3)
    BY <1>3
  <2>. QED  BY <2>1, <2>2
<1>7. W(5) = 2 * W(4) + D(3) /\ W(6) = 2 * W(5) + D(2)
      /\ W(7) = 2 * W(6) + D(1) /\ W(8) = 2 * W(7) + D(0)
  <2>1. n + 4 + 1 = n + 5 /\ n + 5 + 1 = n + 6 /\ n + 6 + 1 = n + 7
        /\ n + 7 + 1 = n + 8
    OBVIOUS
  <2>2. /\ Worth(bytes, i, n + 4 + 1) = 2 * Worth(bytes, i, n + 4) + Digit(b, 7 - 4)
        /\ Worth(bytes, i, n + 5 + 1) = 2 * Worth(bytes, i, n + 5) + Digit(b, 7 - 5)
        /\ Worth(bytes, i, n + 6 + 1) = 2 * Worth(bytes, i, n + 6) + Digit(b, 7 - 6)
        /\ Worth(bytes, i, n + 7 + 1) = 2 * Worth(bytes, i, n + 7) + Digit(b, 7 - 7)
    BY <1>3
  <2>. QED  BY <2>1, <2>2
<1>8. W(0) = w
  BY <1>4
<1>9. b = 128 * D(7) + 64 * D(6) + 32 * D(5) + 16 * D(4) + 8 * D(3) + 4 * D(2)
          + 2 * D(1) + D(0)
  BY ByteOfBits
<1>10. \A t \in 0..7 : D(t) \in {0, 1}
  BY <1>5
<1>. HIDE DEF W, D
<1>11. W(8) = 256 * w + b
  <2>1. D(7) \in Int /\ D(6) \in Int /\ D(5) \in Int /\ D(4) \in Int
        /\ D(3) \in Int /\ D(2) \in Int /\ D(1) \in Int /\ D(0) \in Int
    BY <1>10
  <2>. QED  BY <1>6, <1>7, <1>8, <1>9, <2>1
<1>. QED  BY <1>1, <1>2, <1>4, <1>11 DEF W

At(bytes, i) == [buffer |-> bytes, index |-> i]

\* bitbuffer_getbits when m of the n bits from bit i on are read.
ReadSoFar(bytes, i, n, m) ==
    [n |-> n - m, tmp |-> Worth(bytes, i, m), bb |-> At(bytes, i + m)]

\* A turn reads one bit or eight.
LEMMA GetStepReads ==
    ASSUME WordBits \in Nat, NEW len \in Nat, NEW bytes \in ByteArrays(len)
    PROVE  \A i \in Nat, n \in 0..WordBits : i + n =< 8 * len =>
               \A m \in 0..n : \E more \in 0..n :
                   /\ GetStep(ReadSoFar(bytes, i, n, m))
                          = ReadSoFar(bytes, i, n, more)
                   /\ more >= m /\ (m < n => more > m)
<1>. SUFFICES ASSUME NEW i \in Nat, NEW n \in 0..WordBits, i + n =< 8 * len,
                     NEW m \in 0..n
              PROVE  \E more \in 0..n :
                         /\ GetStep(ReadSoFar(bytes, i, n, m))
                                = ReadSoFar(bytes, i, n, more)
                         /\ more >= m /\ (m < n => more > m)
  OBVIOUS
<1>. DEFINE s == ReadSoFar(bytes, i, n, m)
<1>0. s.n = n - m /\ s.tmp = Worth(bytes, i, m) /\ s.bb = At(bytes, i + m)
      /\ s.bb.index = i + m /\ s.bb.buffer = bytes
  BY DEF ReadSoFar, At
<1>1. ASSUME NEW k \in 0..n
      PROVE  Worth(bytes, i, k) \in Nat /\ Worth(bytes, i, k) % WordSize
                                               = Worth(bytes, i, k)
  <2>1. k \in Nat /\ i + k =< 8 * len /\ k =< WordBits
    OBVIOUS
  <2>2. Worth(bytes, i, k) \in 0..(Pow2[k] - 1)
    BY <2>1, WorthFacts
  <2>3. Pow2[k] =< WordSize /\ Pow2[k] \in Nat /\ WordSize \in Nat
    BY <2>1, Pow2Grows, Pow2Facts DEF WordSize
  <2>. QED  BY <2>2, <2>3
<1>2. CASE m = n
  <2>1. GetStep(s) = s
    BY <1>0, <1>2 DEF GetStep
  <2>. QED  BY <1>2, <2>1
<1>3. CASE m < n /\ (i + m) % 8 = 0 /\ n - m >= 8
  <2>1. m + 8 \in 0..n /\ n - m # 0 /\ m \in Nat /\ i + m + 8 =< 8 * len
    BY <1>3
  <2>2. GetStep(s) = [n |-> s.n - 8,
                      tmp |-> (s.tmp * 256 + Current(s.bb)) % WordSize,
                      bb |-> bitbuffer_setpos(s.bb, s.bb.index + 8)]
    <3>. HIDE DEF s
    <3>. QED  BY <1>0, <1>3, <2>1 DEF GetStep
  <2>3. Worth(bytes, i, m + 8)
            = 256 * Worth(bytes, i, m) + bytes[(i + m) \div 8 + 1]
    BY <1>3, <2>1, WorthOfByte
  <2>4. s.tmp * 256 + Current(s.bb) = Worth(bytes, i, m + 8)
    <3>1. Worth(bytes, i, m) \in Nat
      BY <1>1
    <3>2. bytes[(i + m) \div 8 + 1] \in Int
      <4>1. i + m \in 0..(8 * len - 1)
        BY <2>1
      <4>2. bytes[(i + m) \div 8 + 1] \in 0..255
        BY <4>1, BufferBytes
      <4>. QED  BY <4>2
    <3>. HIDE DEF s
    <3>. QED  BY <1>0, <2>3, <3>1, <3>2 DEF Current
  <2>5. (s.tmp * 256 + Current(s.bb)) % WordSize = Worth(bytes, i, m + 8)
    BY <1>1, <2>1, <2>4
  <2>6. bitbuffer_setpos(s.bb, s.bb.index + 8) = At(bytes, i + (m + 8))
    BY <1>0 DEF bitbuffer_setpos, At
  <2>7. s.n - 8 = n - (m + 8)
    BY <1>0
  <2>8. GetStep(s) = ReadSoFar(bytes, i, n, m + 8)
    <3>. HIDE DEF s
    <3>. QED  BY <2>2, <2>5, <2>6, <2>7 DEF ReadSoFar
  <2>. QED  BY <2>1, <2>8
<1>4. CASE m < n /\ ~((i + m) % 8 = 0 /\ n - m >= 8)
  <2>1. m + 1 \in 0..n /\ n - m # 0 /\ m \in Nat /\ i + m < 8 * len
        /\ i + m \in 0..(8 * len - 1) /\ i + m =< 8 * len
    BY <1>4
  <2>2. GetStep(s) = [n |-> s.n - 1,
                      tmp |-> (s.tmp * 2 + bitbuffer_getbit(s.bb)) % WordSize,
                      bb |-> bitbuffer_setpos(s.bb, s.bb.index + 1)]
    <3>. HIDE DEF s
    <3>. QED  BY <1>0, <1>4, <2>1 DEF GetStep
  <2>3. Worth(bytes, i, m + 1) = 2 * Worth(bytes, i, m) + Bit(bytes, i + m)
    BY <2>1, WorthFacts
  <2>4. bitbuffer_getbit(s.bb) = Bit(bytes, i + m)
    <3>. HIDE DEF s
    <3>. QED  BY <1>0 DEF bitbuffer_getbit, Current, Bit, Digit
  <2>5. s.tmp * 2 + bitbuffer_getbit(s.bb) = Worth(bytes, i, m + 1)
    <3>1. Worth(bytes, i, m) \in Nat /\ Bit(bytes, i + m) \in {0, 1}
      BY <1>1, <2>1, BufferBytes
    <3>. HIDE DEF s
    <3>. QED  BY <1>0, <2>3, <2>4, <3>1
  <2>6. (s.tmp * 2 + bitbuffer_getbit(s.bb)) % WordSize = Worth(bytes, i, m + 1)
    BY <1>1, <2>1, <2>5
  <2>7. bitbuffer_setpos(s.bb, s.bb.index + 1) = At(bytes, i + (m + 1))
    BY <1>0 DEF bitbuffer_setpos, At
  <2>8. s.n - 1 = n - (m + 1)
    BY <1>0
  <2>9. GetStep(s) = ReadSoFar(bytes, i, n, m + 1)
    <3>. HIDE DEF s
    <3>. QED  BY <2>2, <2>6, <2>7, <2>8 DEF ReadSoFar
  <2>. QED  BY <2>1, <2>9
<1>. QED  BY <1>2, <1>3, <1>4

\* getbits gives what the bits are worth and goes on behind them.
LEMMA GetBits ==
    ASSUME WordBits \in Nat, NEW len \in Nat, NEW bytes \in ByteArrays(len)
    PROVE  \A i \in Nat, n \in 0..WordBits : i + n =< 8 * len =>
               bitbuffer_getbits(At(bytes, i), n)
                   = [value |-> Worth(bytes, i, n), bb |-> At(bytes, i + n)]
<1>. SUFFICES ASSUME NEW i \in Nat, NEW n \in 0..WordBits, i + n =< 8 * len
              PROVE  bitbuffer_getbits(At(bytes, i), n)
                         = [value |-> Worth(bytes, i, n), bb |-> At(bytes, i + n)]
  OBVIOUS
<1>. DEFINE state(m) == ReadSoFar(bytes, i, n, m)
            S == {state(m) : m \in 0..n}
            F(f) == [k \in 0..n |->
                       IF k = 0 THEN [n |-> n, tmp |-> 0, bb |-> At(bytes, i)]
                       ELSE GetStep(f[k - 1])]
<1>0. n \in Nat /\ 0 \in 0..n
  OBVIOUS
<1>1. \A m \in 0..n : \E more \in 0..n :
          /\ GetStep(state(m)) = state(more)
          /\ more >= m /\ (m < n => more > m)
  BY GetStepReads
<1>2. state(0) = [n |-> n, tmp |-> 0, bb |-> At(bytes, i)]
  <2>1. i + 0 =< 8 * len /\ 0 \in Nat /\ n - 0 = n /\ i + 0 = i
    OBVIOUS
  <2>2. Worth(bytes, i, 0) = 0
    BY <2>1, WorthFacts
  <2>. QED  BY <2>1, <2>2 DEF ReadSoFar
<1>. HIDE DEF state
<1>3. PICK step : step = [k \in 1..n |-> [x \in S |-> GetStep(x)]]
  OBVIOUS
<1>4. step \in [1..n -> [S -> S]]
  <2>1. \A x \in S : GetStep(x) \in S
    BY <1>1
  <2>. HIDE DEF S
  <2>. QED  BY <1>3, <2>1
<1>5. state(0) \in S
  BY <1>0
<1>6. PICK f \in [0..n -> S] : Iterates(f, state(0), step, n)
  <2>. HIDE DEF S
  <2>. QED  BY <1>0, <1>4, <1>5, Iteration
<1>7. f[0] = state(0) /\ \A k \in 1..n : f[k] = GetStep(f[k - 1])
  <2>. HIDE DEF S
  <2>1. \A k \in 1..n : f[k - 1] \in S
    BY <1>6
  <2>. QED  BY <1>3, <1>6, <2>1 DEF Iterates
<1>8. f = F(f)
  <2>. HIDE DEF S
  <2>1. \A k \in 0..n : f[k] = F(f)[k]
    BY <1>2, <1>7
  <2>. QED  BY <1>6, <2>1
<1>9. PICK g : g = (CHOOSE h : h = F(h)) /\ g = F(g)
  <2>. HIDE DEF F, S
  <2>. QED  BY <1>8
<1>10. bitbuffer_getbits(At(bytes, i), n) = [value |-> g[n].tmp, bb |-> g[n].bb]
  BY <1>9 DEF bitbuffer_getbits
<1>11. g[0] = state(0) /\ \A k \in 1..n : g[k] = GetStep(g[k - 1])
  <2>1. F(g)[0] = state(0) /\ \A k \in 1..n : F(g)[k] = GetStep(g[k - 1])
    BY <1>2
  <2>. HIDE DEF F, S
  <2>. QED  BY <1>9, <2>1
<1>12. \E m \in 0..n : m >= n /\ g[n] = state(m)
  <2>. PICK T : T = {k \in 0..n : \E m \in 0..n : m >= k /\ g[k] = state(m)}
    OBVIOUS
  <2>1. 0 \in T
    BY <1>0, <1>11
  <2>2. ASSUME NEW k \in 1..n, k - 1 \in T
        PROVE  k \in T
    <3>1. PICK m \in 0..n : m >= k - 1 /\ g[k - 1] = state(m)
      BY <2>2
    <3>2. PICK more \in 0..n : /\ GetStep(state(m)) = state(more)
                               /\ more >= m /\ (m < n => more > m)
      BY <1>1
    <3>3. g[k] = state(more)
      BY <1>11, <3>1, <3>2
    <3>4. more >= k
      <4>1. CASE m < n
        BY <3>1, <3>2, <4>1
      <4>2. CASE m = n
        BY <3>2, <4>2
      <4>. QED  BY <1>0, <4>1, <4>2
    <3>5. \E other \in 0..n : other >= k /\ g[k] = state(other)
      BY <3>3, <3>4
    <3>6. k \in 0..n
      OBVIOUS
    <3>. QED  BY <3>5, <3>6
  <2>3. n \in 0..n
    OBVIOUS
  <2>. QED  BY <1>0, <2>1, <2>2, <2>3, Upwards
<1>13. g[n] = state(n)
  BY <1>12
<1>. QED  BY <1>10, <1>13 DEF state, ReadSoFar

\* Digits that were put one after the other are worth the low bits of their
\* value.
LEMMA WorthOfDigits ==
    ASSUME NEW len \in Nat, NEW bytes \in ByteArrays(len)
    PROVE  \A i, n \in Nat, value \in Int :
               /\ i + n =< 8 * len
               /\ \A p \in i..(i + n - 1) :
                     Bit(bytes, p) = Digit(value, i + n - 1 - p)
               => Worth(bytes, i, n) = value % Pow2[n]
<1>. SUFFICES ASSUME NEW i \in Nat, NEW n \in Nat, NEW value \in Int,
                     i + n =< 8 * len,
                     \A p \in i..(i + n - 1) :
                        Bit(bytes, p) = Digit(value, i + n - 1 - p)
              PROVE  Worth(bytes, i, n) = value % Pow2[n]
  OBVIOUS
<1>1. PICK u : u = value % Pow2[n] /\ u \in Int /\ 0 =< u /\ u < Pow2[n]
  <2>1. PICK P \in Nat \ {0} : P = Pow2[n]
    BY Pow2Facts
  <2>2. value % P \in Int /\ 0 =< value % P /\ value % P < P
    OBVIOUS
  <2>. QED  BY <2>1, <2>2
<1>. PICK T : T = {k \in 0..n : Worth(bytes, i, k) = u \div Pow2[n - k]}
  OBVIOUS
<1>2. 0 \in T
  <2>1. i + 0 =< 8 * len /\ 0 \in Nat /\ n - 0 = n /\ 0 \in 0..n
    OBVIOUS
  <2>2. Worth(bytes, i, 0) = 0
    BY <2>1, WorthFacts
  <2>3. PICK P \in Nat \ {0} : P = Pow2[n]
    BY Pow2Facts
  <2>4. u \div P = 0
    BY <1>1, <2>3
  <2>. QED  BY <2>1, <2>2, <2>3, <2>4
<1>3. ASSUME NEW k \in 1..n, k - 1 \in T
      PROVE  k \in T
  <2>1. k - 1 \in Nat /\ (k - 1) + 1 = k /\ i + (k - 1) < 8 * len
        /\ i + (k - 1) =< 8 * len /\ i + (k - 1) \in i..(i + n - 1)
        /\ n - k \in Nat /\ (n - k) + 1 = n - (k - 1) /\ n - k \in 0..(n - 1)
        /\ i + n - 1 - (i + (k - 1)) = n - k
    OBVIOUS
  <2>2. Worth(bytes, i, k) = 2 * Worth(bytes, i, k - 1) + Bit(bytes, i + (k - 1))
    BY <2>1, WorthFacts
  <2>3. Bit(bytes, i + (k - 1)) = Digit(value, n - k)
    BY <2>1
  <2>4. Digit(u, n - k) = Digit(value, n - k)
    BY <1>1, <2>1, DigitOfRemainder
  <2>5. u \div Pow2[n - k] = 2 * (u \div Pow2[(n - k) + 1]) + Digit(u, n - k)
    BY <1>1, <2>1, QuotientDigit
  <2>. QED  BY <1>3, <2>1, <2>2, <2>3, <2>4, <2>5
<1>4. n \in 0..n /\ Pow2[n - n] = 1
  BY Pow2Facts
<1>5. u \div 1 = u
  BY <1>1
<1>. QED  BY <1>1, <1>2, <1>3, <1>4, <1>5, Upwards

\* n bits from bit i on hold the digits of value.
Holds(bytes, i, n, value) ==
    \A p \in i..(i + n - 1) : Bit(bytes, p) = Digit(value, i + n - 1 - p)

\* What bits are worth has them for its digits.
LEMMA DigitsOfWorth ==
    ASSUME NEW len \in Nat, NEW bytes \in ByteArrays(len)
    PROVE  \A i, n \in Nat : i + n =< 8 * len =>
               Holds(bytes, i, n, Worth(bytes, i, n))
<1>. SUFFICES ASSUME NEW i \in Nat, NEW n \in Nat, i + n =< 8 * len
              PROVE  Holds(bytes, i, n, Worth(bytes, i, n))
  OBVIOUS
<1>. DEFINE w == Worth(bytes, i, n)
<1>1. \A k \in 0..n : Worth(bytes, i, k) \in Nat
  <2>1. ASSUME NEW k \in 0..n
        PROVE  Worth(bytes, i, k) \in Nat
    <3>1. k \in Nat /\ i + k =< 8 * len
      OBVIOUS
    <3>2. Worth(bytes, i, k) \in 0..(Pow2[k] - 1)
      BY <3>1, WorthFacts
    <3>. QED  BY <3>2
  <2>. QED  BY <2>1
<1>2. ASSUME NEW k \in 1..n
      PROVE  /\ Worth(bytes, i, k) = 2 * Worth(bytes, i, k - 1)
                                     + Bit(bytes, i + k - 1)
             /\ Bit(bytes, i + k - 1) \in {0, 1}
  <2>1. k - 1 \in Nat /\ (k - 1) + 1 = k /\ i + (k - 1) = i + k - 1
        /\ i + (k - 1) < 8 * len /\ i + (k - 1) =< 8 * len
        /\ i + (k - 1) \in 0..(8 * len - 1)
    OBVIOUS
  <2>2. Worth(bytes, i, (k - 1) + 1) = 2 * Worth(bytes, i, k - 1)
                                       + Bit(bytes, i + (k - 1))
    BY <2>1, WorthFacts
  <2>. QED  BY <2>1, <2>2, BufferBytes
<1>. PICK T : T = {m \in 0..n : Worth(bytes, i, n - m) = w \div Pow2[m]}
  OBVIOUS
<1>3. w \in Nat
  BY <1>1
<1>. HIDE DEF w
<1>4. 0 \in T
  <2>1. n - 0 = n /\ w \div 1 = w /\ 0 \in 0..n
    BY <1>3
  <2>. QED  BY <2>1, Pow2Facts DEF w
<1>5. ASSUME NEW m \in 1..n, m - 1 \in T
      PROVE  m \in T
  <2>1. n - m + 1 \in 1..n /\ n - (m - 1) = n - m + 1 /\ (n - m + 1) - 1 = n - m
        /\ m - 1 \in Nat /\ (m - 1) + 1 = m
    OBVIOUS
  <2>2. w \div Pow2[m - 1] = 2 * (w \div Pow2[m]) + Digit(w, m - 1)
    BY <1>3, <2>1, QuotientDigit
  <2>3. Digit(w, m - 1) \in {0, 1}
    BY <1>3, <2>1, DigitRange
  <2>4. PICK b \in {0, 1} : Worth(bytes, i, n - m + 1)
                                = 2 * Worth(bytes, i, n - m) + b
    BY <1>2, <2>1
  <2>5. PICK x \in Nat, y \in Nat :
            x = Worth(bytes, i, n - m) /\ y = w \div Pow2[m]
    <3>1. PICK P \in Nat \ {0} : P = Pow2[m]
      BY Pow2Facts
    <3>2. w \div P \in Nat
      BY <1>3
    <3>. QED  BY <1>1, <3>1, <3>2
  <2>6. 2 * x + b = 2 * y + Digit(w, m - 1)
    BY <1>5, <2>1, <2>2, <2>4, <2>5
  <2>7. x = y
    BY <2>3, <2>6
  <2>. QED  BY <2>5, <2>7
<1>6. ASSUME NEW p \in i..(i + n - 1)
      PROVE  Bit(bytes, p) = Digit(w, i + n - 1 - p)
  <2>1. PICK k \in 1..n : k = p - i + 1 /\ p = i + k - 1 /\ i + n - 1 - p = n - k
    OBVIOUS
  <2>2. n - k \in 0..n /\ n - (n - k) = k
    OBVIOUS
  <2>3. Worth(bytes, i, k) = w \div Pow2[n - k]
    <3>1. \A m \in 0..n : m \in T
      BY <1>4, <1>5, Upwards
    <3>. QED  BY <2>2, <3>1
  <2>4. PICK x \in Nat, b \in {0, 1} : x = Worth(bytes, i, k - 1)
            /\ b = Bit(bytes, i + k - 1) /\ Worth(bytes, i, k) = 2 * x + b
    BY <1>1, <1>2
  <2>5. (2 * x + b) % 2 = b
    OBVIOUS
  <2>. QED  BY <2>1, <2>3, <2>4, <2>5 DEF Digit
<1>. QED  BY <1>6 DEF Holds, w

\* So a field that was put is read back.
LEMMA FieldRead ==
    ASSUME WordBits \in Nat, NEW len \in Nat, NEW bytes \in ByteArrays(len)
    PROVE  \A i \in Nat, n \in 0..WordBits, value \in Int :
               i + n =< 8 * len /\ Holds(bytes, i, n, value) =>
                   bitbuffer_getbits(At(bytes, i), n)
                       = [value |-> value % Pow2[n], bb |-> At(bytes, i + n)]
<1>. SUFFICES ASSUME NEW i \in Nat, NEW n \in 0..WordBits, NEW value \in Int,
                     i + n =< 8 * len, Holds(bytes, i, n, value)
              PROVE  bitbuffer_getbits(At(bytes, i), n)
                       = [value |-> value % Pow2[n], bb |-> At(bytes, i + n)]
  OBVIOUS
<1>1. n \in Nat
  OBVIOUS
<1>2. Worth(bytes, i, n) = value % Pow2[n]
  BY <1>1, WorthOfDigits DEF Holds
<1>3. bitbuffer_getbits(At(bytes, i), n)
          = [value |-> Worth(bytes, i, n), bb |-> At(bytes, i + n)]
  BY GetBits
<1>. QED  BY <1>2, <1>3

\* What is held is kept when more is put behind it, and what is put is held.
LEMMA PutKeeps ==
    ASSUME NEW len \in Nat, NEW bb \in Buffers(len), NEW new,
           NEW m \in Nat, NEW v \in Int, Extended(bb, new, m, v, len)
    PROVE  /\ new \in Buffers(len)
           /\ new.index = bb.index + m
           /\ Clear(new, len)
           /\ Holds(new.buffer, bb.index, m, v)
           /\ \A i, n \in Nat, value \in Int :
                 i + n =< bb.index /\ Holds(bb.buffer, i, n, value) =>
                     Holds(new.buffer, i, n, value)
<1>1. ASSUME NEW i \in Nat, NEW n \in Nat, NEW value \in Int,
             i + n =< bb.index, Holds(bb.buffer, i, n, value)
      PROVE  Holds(new.buffer, i, n, value)
  <2>1. ASSUME NEW p \in i..(i + n - 1)
        PROVE  Bit(new.buffer, p) = Digit(value, i + n - 1 - p)
    <3>1. p \in 0..(bb.index - 1)
      BY <1>1 DEF Buffers
    <3>2. Bit(new.buffer, p) = Bit(bb.buffer, p)
      BY <3>1 DEF Extended
    <3>. QED  BY <1>1, <3>2 DEF Holds
  <2>. QED  BY <2>1 DEF Holds
<1>2. Holds(new.buffer, bb.index, m, v)
  BY DEF Extended, Holds
<1>. QED  BY <1>1, <1>2 DEF Extended

\* A new buffer is clear.
LEMMA NewBuffer ==
    ASSUME NEW len \in Nat
    PROVE  /\ bitbuffer_init(len) \in Buffers(len)
           /\ bitbuffer_init(len).index = 0
           /\ Clear(bitbuffer_init(len), len)
<1>1. bitbuffer_init(len) \in Buffers(len) /\ bitbuffer_init(len).index = 0
      /\ \A i \in 1..len : bitbuffer_init(len).buffer[i] = 0
  BY DEF bitbuffer_init, Buffers, ByteArrays
<1>2. ASSUME NEW i \in 0..(8 * len - 1)
      PROVE  Bit(bitbuffer_init(len).buffer, i) = 0
  <2>1. i \div 8 + 1 \in 1..len /\ 7 - (i % 8) \in Nat
    OBVIOUS
  <2>2. PICK P \in Nat \ {0} : P = Pow2[7 - (i % 8)]
    BY <2>1, Pow2Facts
  <2>3. bitbuffer_init(len).buffer[i \div 8 + 1] = 0
    BY <1>1, <2>1
  <2>4. (0 \div P) % 2 = 0
    OBVIOUS
  <2>. QED  BY <2>2, <2>3, <2>4 DEF Bit, Digit
<1>. QED  BY <1>1, <1>2 DEF Clear

(***************************************************************************)
(* Module BitStream                                                        *)
(***************************************************************************)
TableLen == Bytes(Total(plan))

\* What the bits that copybits has put are: those that the reader went over.
Copied ==
    \A i \in 0..(copy.index - 1) :
        Bit(copy.buffer, i) = Bit(reader.buffer, reader.index - copy.index + i)

\* The writer has put the digits of each value, and nothing after the last
\* one; who reads has the whole table, and has copied what it went over.
StreamInv ==
    /\ plan \in Seq(Widths)
    /\ put \in Seq(Int) /\ Len(put) =< Len(plan)
    /\ writer \in Buffers(TableLen)
    /\ writer.index = Sums(plan)[Len(put)]
    /\ Clear(writer, TableLen)
    /\ \A k \in DOMAIN put : Holds(writer.buffer, Start(k), plan[k], put[k])
    /\ copy \in Buffers(TableLen)
    /\ copy.index =< 8 * TableLen
    /\ Clear(copy, TableLen)
    /\ \/ /\ reader.buffer = <<>> /\ reader.index \in Nat
          /\ copy.index = 0
       \/ /\ Complete
          /\ reader \in Buffers(TableLen)
          /\ reader.buffer = writer.buffer
          /\ reader.index =< 8 * TableLen
          /\ copy.index =< reader.index
          /\ Copied

\* The sums of the widths: where a field starts, and that all fit.
LEMMA PlanFacts ==
    ASSUME plan \in Seq(Widths)
    PROVE  /\ plan \in Seq(Nat) /\ Len(plan) \in Nat
           /\ \A k \in DOMAIN plan : plan[k] \in 0..WordBits
           /\ TableLen \in Nat
           /\ \A k \in 0..Len(plan) :
                 Sums(plan)[k] \in Nat /\ Sums(plan)[k] =< 8 * TableLen
           /\ \A k \in DOMAIN plan :
                 Start(k) \in Nat /\ Sums(plan)[k] = Start(k) + plan[k]
           /\ \A j, k \in 0..Len(plan) : j =< k => Sums(plan)[j] =< Sums(plan)[k]
<1>1. plan \in Seq(Nat) /\ Len(plan) \in Nat /\ DOMAIN plan = 1..Len(plan)
      /\ \A k \in DOMAIN plan : plan[k] \in 0..WordBits
  BY StreamAssumption
<1>2. /\ Sums(plan) \in [0..Len(plan) -> Nat]
      /\ \A k \in 1..Len(plan) : Sums(plan)[k] = Sums(plan)[k - 1] + plan[k]
  BY <1>1, SumsFacts
<1>3. \A j, k \in 0..Len(plan) : j =< k => Sums(plan)[j] =< Sums(plan)[k]
  BY <1>1, SumsGrow
<1>4. PICK total \in Nat : total = Total(plan) /\ total = Sums(plan)[Len(plan)]
  BY <1>1, <1>2 DEF Total
<1>5. TableLen \in Nat /\ total =< 8 * TableLen
  BY <1>4 DEF TableLen, Bytes
<1>6. \A k \in 0..Len(plan) : Sums(plan)[k] =< total /\ Sums(plan)[k] \in Nat
  BY <1>1, <1>2, <1>3, <1>4, SMTT(30)
<1>7. \A k \in 0..Len(plan) : Sums(plan)[k] =< 8 * TableLen
  BY <1>5, <1>6
<1>8. \A k \in DOMAIN plan :
          Start(k) \in Nat /\ Sums(plan)[k] = Start(k) + plan[k]
  <2>1. ASSUME NEW k \in DOMAIN plan
        PROVE  Start(k) \in Nat /\ Sums(plan)[k] = Start(k) + plan[k]
    <3>1. k \in 1..Len(plan) /\ k - 1 \in 0..Len(plan)
      BY <1>1
    <3>. QED  BY <1>2, <3>1 DEF Start
  <2>. QED  BY <2>1
<1>. QED  BY <1>1, <1>3, <1>5, <1>6, <1>7, <1>8

\* At first the buffers are new and nothing is put.
LEMMA StreamInitInv == StreamInit => StreamInv
<1>. SUFFICES ASSUME StreamInit
              PROVE  StreamInv
  OBVIOUS
<1>1. plan \in Seq(Widths)
  BY DEF StreamInit, SeqOf
<1>2. TableLen \in Nat /\ Sums(plan)[0] = 0 /\ Len(plan) \in Nat
  BY <1>1, PlanFacts, SumsFacts
<1>3. writer = bitbuffer_init(TableLen) /\ copy = bitbuffer_init(TableLen)
      /\ put = <<>> /\ reader = bitbuffer_init_from_buffer(<<>>)
  BY DEF StreamInit, TableLen
<1>4. /\ writer \in Buffers(TableLen) /\ copy \in Buffers(TableLen)
      /\ writer.index = 0 /\ copy.index = 0
      /\ Clear(writer, TableLen) /\ Clear(copy, TableLen)
  BY <1>2, <1>3, NewBuffer
<1>5. put \in Seq(Int) /\ Len(put) = 0 /\ DOMAIN put = {}
  BY <1>3
<1>6. reader.buffer = <<>> /\ reader.index \in Nat
  BY <1>3 DEF bitbuffer_init_from_buffer
<1>7. copy.index =< 8 * TableLen
  BY <1>2, <1>4
<1>. QED  BY <1>1, <1>2, <1>4, <1>5, <1>6, <1>7 DEF StreamInv

\* A field more.
LEMMA PutInv == StreamInv /\ Put => StreamInv'
<1>. SUFFICES ASSUME StreamInv, Put
              PROVE  StreamInv'
  OBVIOUS
<1>. USE DEF StreamInv
<1>1. PICK k \in 1..Len(plan) : k = Len(put) + 1 /\ Len(put) = k - 1
  BY DEF Put, Complete
<1>2. PICK v \in Int : put' = Append(put, v)
                       /\ writer' = bitbuffer_putbits(writer, plan[k], v)
  <2>1. k \in DOMAIN plan /\ plan[k] \in Widths
    BY <1>1
  <2>2. Values[plan[k]] \subseteq Int
    BY <2>1, StreamAssumption
  <2>. QED  BY <1>1, <2>2 DEF Put
<1>3. UNCHANGED <<plan, reader, copy>> /\ TableLen' = TableLen
  BY DEF Put, TableLen
<1>4. /\ plan[k] \in 0..WordBits /\ plan[k] \in Nat /\ TableLen \in Nat
      /\ Start(k) \in Nat /\ Start(k) = writer.index
      /\ Sums(plan)[k] = Start(k) + plan[k] /\ Sums(plan)[k] =< 8 * TableLen
  <2>1. k \in DOMAIN plan /\ k \in 0..Len(plan)
    BY <1>1
  <2>. QED  BY <1>1, <2>1, PlanFacts DEF Start
<1>5. Extended(writer, writer', plan[k], v, TableLen)
  <2>1. WordBits \in Nat
    BY StreamAssumption
  <2>2. writer.index + plan[k] =< 8 * TableLen
    BY <1>4
  <2>. QED  BY <1>2, <1>4, <2>1, <2>2, PutBits
<1>6. /\ writer' \in Buffers(TableLen)
      /\ writer'.index = writer.index + plan[k]
      /\ Clear(writer', TableLen)
      /\ Holds(writer'.buffer, writer.index, plan[k], v)
      /\ \A i, n \in Nat, value \in Int :
            i + n =< writer.index /\ Holds(writer.buffer, i, n, value) =>
                Holds(writer'.buffer, i, n, value)
  BY <1>4, <1>5, PutKeeps
<1>7. put' \in Seq(Int) /\ Len(put') = k /\ DOMAIN put' = 1..k
      /\ put'[k] = v /\ \A j \in 1..(k - 1) : put'[j] = put[j]
  BY <1>1, <1>2
<1>8. ASSUME NEW j \in 1..k
      PROVE  Holds(writer'.buffer, Start(j), plan[j], put'[j])
  <2>1. CASE j = k
    BY <1>4, <1>6, <1>7, <2>1
  <2>2. CASE j # k
    <3>1. j \in DOMAIN put /\ j \in DOMAIN plan /\ j \in 0..Len(plan)
          /\ j =< k - 1 /\ j \in 1..(k - 1) /\ k - 1 \in 0..Len(plan)
      BY <1>1, <2>2
    <3>2. Start(j) \in Nat /\ plan[j] \in Nat /\ Start(j) + plan[j] =< writer.index
      <4>1. Sums(plan)[j] =< Sums(plan)[k - 1]
            /\ Sums(plan)[j] = Start(j) + plan[j] /\ Start(j) \in Nat
            /\ plan[j] \in 0..WordBits
        BY <3>1, PlanFacts
      <4>. QED  BY <1>1, <4>1
    <3>3. Holds(writer.buffer, Start(j), plan[j], put[j]) /\ put[j] \in Int
      BY <3>1
    <3>4. put'[j] = put[j]
      BY <1>7, <3>1
    <3>. QED  BY <1>6, <3>2, <3>3, <3>4
  <2>. QED  BY <2>1, <2>2
<1>9. \A j \in DOMAIN put' : Holds(writer'.buffer, Start(j)', plan'[j], put'[j])
  BY <1>3, <1>7, <1>8 DEF Start
<1>10. writer'.index = Sums(plan')[Len(put')]
  BY <1>3, <1>4, <1>6, <1>7
<1>11. reader.buffer = <<>> /\ reader.index \in Nat /\ copy.index = 0
  BY DEF Put
<1>12. copy' \in Buffers(TableLen') /\ copy'.index =< 8 * TableLen'
       /\ Clear(copy', TableLen')
  BY <1>3
<1>. QED  BY <1>1, <1>3, <1>6, <1>7, <1>9, <1>10, <1>11, <1>12

\* The table is opened at a field.
LEMMA OpenInv == StreamInv /\ Open => StreamInv'
<1>. SUFFICES ASSUME StreamInv, Open
              PROVE  StreamInv'
  OBVIOUS
<1>. USE DEF StreamInv
<1>1. PICK k \in DOMAIN plan : reader' = At(writer.buffer, Start(k))
  BY DEF Open, bitbuffer_setpos, bitbuffer_init_from_buffer, At
<1>2. UNCHANGED <<plan, put, writer, copy>> /\ TableLen' = TableLen
      /\ (\A j : Start(j)' = Start(j))
  BY DEF Open, TableLen, Start
<1>3. Start(k) \in Nat /\ TableLen \in Nat /\ Start(k) =< 8 * TableLen
  <2>1. k - 1 \in 0..Len(plan)
    OBVIOUS
  <2>. QED  BY <2>1, PlanFacts DEF Start
<1>4. copy.index = 0
  <2>1. CASE copy.index # 0
    <3>1. reader.buffer \in ByteArrays(TableLen) /\ reader.buffer = <<>>
      BY <2>1 DEF Buffers, Open, Reading
    <3>2. TableLen = 0
      BY <1>3, <3>1, BufferBytes
    <3>. QED  BY <2>1, <3>2 DEF Buffers
  <2>. QED  BY <2>1
<1>5. reader' \in Buffers(TableLen) /\ reader'.buffer = writer.buffer
      /\ reader'.index = Start(k)
  BY <1>1, <1>3 DEF At, Buffers
<1>6. Complete' /\ copy'.index = 0 /\ Copied'
  BY <1>2, <1>4 DEF Open, Complete, Copied
<1>7. \A j \in DOMAIN put' : Holds(writer'.buffer, Start(j)', plan'[j], put'[j])
  BY <1>2
<1>. QED  BY <1>2, <1>3, <1>5, <1>6, <1>7

\* Bits are copied.
LEMMA CopyInv == StreamInv /\ Copy => StreamInv'
<1>. SUFFICES ASSUME StreamInv, Copy
              PROVE  StreamInv'
  OBVIOUS
<1>. USE DEF StreamInv
<1>1. PICK n \in Widths \ {0} :
          /\ n =< bitbuffer_getbitlength(reader)
          /\ n =< bitbuffer_getbitlength(copy)
          /\ reader' = bitbuffer_copybits(copy, reader, n).gbb
          /\ copy' = bitbuffer_copybits(copy, reader, n).pbb
  BY DEF Copy
<1>2. n \in 1..WordBits /\ n \in 0..WordBits /\ n \in Nat /\ WordBits \in Nat
  BY StreamAssumption
<1>3. UNCHANGED <<plan, put, writer>> /\ TableLen' = TableLen
      /\ (\A j : Start(j)' = Start(j))
  BY DEF Copy, TableLen, Start
<1>4. PICK len \in Nat : len = TableLen
  BY PlanFacts
<1>5. reader.buffer # <<>>
  <2>1. CASE reader.buffer = <<>>
    <3>1. reader.index \in Nat /\ Len(reader.buffer) = 0
      BY <2>1 DEF Buffers
    <3>2. bitbuffer_getbitlength(reader) = 0
      BY <3>1 DEF bitbuffer_getbitlength
    <3>. QED  BY <1>1, <1>2, <3>2
  <2>. QED  BY <2>1
<1>6. /\ Complete /\ reader \in Buffers(len)
      /\ reader.buffer = writer.buffer /\ reader.index =< 8 * len
      /\ copy.index =< reader.index /\ Copied /\ copy \in Buffers(len)
  BY <1>4, <1>5
<1>7. reader.buffer \in ByteArrays(len) /\ reader.index \in Nat
      /\ copy.buffer \in ByteArrays(len) /\ copy.index \in Nat
      /\ reader = At(reader.buffer, reader.index)
  BY <1>6 DEF Buffers, At
<1>8. Len(reader.buffer) = len /\ Len(copy.buffer) = len
  BY <1>7, BufferBytes
<1>9. reader.index + n =< 8 * len /\ copy.index + n =< 8 * len
  BY <1>1, <1>2, <1>7, <1>8 DEF bitbuffer_getbitlength
<1>10. PICK w \in Int : w = Worth(reader.buffer, reader.index, n)
  <2>1. reader.index + n =< 8 * len
    BY <1>9
  <2>2. Worth(reader.buffer, reader.index, n) \in 0..(Pow2[n] - 1)
    BY <1>2, <1>7, <2>1, WorthFacts
  <2>. QED  BY <2>2
<1>11. bitbuffer_getbits(reader, n)
           = [value |-> w, bb |-> At(reader.buffer, reader.index + n)]
  BY <1>2, <1>7, <1>9, <1>10, GetBits
<1>12. reader' = At(reader.buffer, reader.index + n)
       /\ copy' = bitbuffer_putbits(copy, n, w)
  BY <1>1, <1>11 DEF bitbuffer_copybits
<1>13. Extended(copy, copy', n, w, len)
  <2>1. Clear(copy, len)
    BY <1>4
  <2>. QED  BY <1>2, <1>6, <1>9, <1>12, <2>1, PutBits
<1>14. Holds(reader.buffer, reader.index, n, w)
  BY <1>2, <1>7, <1>9, <1>10, DigitsOfWorth
<1>15. reader' \in Buffers(len) /\ reader'.buffer = reader.buffer
       /\ reader'.index = reader.index + n
  BY <1>2, <1>7, <1>12 DEF At, Buffers
<1>16. copy' \in Buffers(len) /\ copy'.index = copy.index + n /\ Clear(copy', len)
  BY <1>13 DEF Extended
<1>17. ASSUME NEW i \in 0..(copy'.index - 1)
       PROVE  Bit(copy'.buffer, i)
                  = Bit(reader'.buffer, reader'.index - copy'.index + i)
  <2>1. reader'.index - copy'.index + i = reader.index - copy.index + i
    BY <1>2, <1>7, <1>15, <1>16
  <2>2. CASE i < copy.index
    <3>1. i \in 0..(copy.index - 1)
      BY <1>7, <1>16, <1>2, <2>2
    <3>2. Bit(copy'.buffer, i) = Bit(copy.buffer, i)
      BY <1>13, <3>1 DEF Extended
    <3>. QED  BY <1>6, <1>15, <2>1, <3>1, <3>2 DEF Copied
  <2>3. CASE i >= copy.index
    <3>1. PICK p \in Int : p = reader.index - copy.index + i
      BY <1>7
    <3>2. i \in copy.index..(copy.index + n - 1)
          /\ p \in reader.index..(reader.index + n - 1)
          /\ reader.index + n - 1 - p = copy.index + n - 1 - i
      <4>1. PICK r \in Nat, c \in Nat : r = reader.index /\ c = copy.index
        BY <1>7
      <4>2. i \in Int /\ i >= c /\ i < c + n
        BY <1>2, <1>16, <2>3, <4>1
      <4>3. p = r - c + i
        BY <3>1, <4>1
      <4>4. i \in c..(c + n - 1) /\ p \in r..(r + n - 1)
            /\ r + n - 1 - p = c + n - 1 - i
        BY <1>2, <4>2, <4>3
      <4>. QED  BY <4>1, <4>4
    <3>3. Bit(copy'.buffer, i) = Digit(w, copy.index + n - 1 - i)
      BY <1>13, <3>2 DEF Extended
    <3>4. Bit(reader.buffer, p) = Digit(w, reader.index + n - 1 - p)
      BY <1>14, <3>2 DEF Holds
    <3>. QED  BY <1>15, <2>1, <3>1, <3>2, <3>3, <3>4
  <2>. QED  BY <1>2, <1>7, <1>16, <2>2, <2>3
<1>18. Copied'
  BY <1>17 DEF Copied
<1>19. Complete'
  BY <1>3, <1>6 DEF Complete
<1>20. reader'.index =< 8 * len /\ copy'.index =< 8 * len
       /\ copy'.index =< reader'.index
  BY <1>2, <1>6, <1>7, <1>9, <1>15, <1>16
<1>21. \A j \in DOMAIN put' : Holds(writer'.buffer, Start(j)', plan'[j], put'[j])
  BY <1>3
<1>. QED  BY <1>3, <1>4, <1>6, <1>15, <1>16, <1>18, <1>19, <1>20, <1>21

\* Every state has buffers of the table's length, with the fields put so far
\* in front and zeros behind them, and copies that are the bits read.
THEOREM StreamInvariance == StreamSpec => []StreamInv
<1>1. ASSUME StreamInv, UNCHANGED streamVars
      PROVE  StreamInv'
  BY <1>1 DEF StreamInv, streamVars, TableLen, Start, Complete, Copied
<1>2. ASSUME StreamInv, [StreamNext]_streamVars
      PROVE  StreamInv'
  BY <1>1, <1>2, PutInv, OpenInv, CopyInv DEF StreamNext, Done
<1>. QED  BY <1>2, StreamInitInv, PTL DEF StreamSpec

\* A field reads back as the low bits of what was put, whatever was put before
\* and after it, for every table, width and value.
THEOREM StreamRoundTrip == StreamSpec => []RoundTrip
<1>1. ASSUME StreamInv
      PROVE  RoundTrip
  <2>1. ASSUME NEW k \in DOMAIN put
        PROVE  bitbuffer_getbits(bitbuffer_setpos(writer, Start(k)),
                                 plan[k]).value = put[k] % Pow2[plan[k]]
    <3>1. k \in DOMAIN plan /\ k \in 0..Len(plan) /\ put[k] \in Int
      BY <1>1 DEF StreamInv
    <3>2. /\ plan[k] \in 0..WordBits /\ TableLen \in Nat /\ Start(k) \in Nat
          /\ Start(k) + plan[k] =< 8 * TableLen /\ WordBits \in Nat
      <4>1. Sums(plan)[k] = Start(k) + plan[k] /\ Sums(plan)[k] =< 8 * TableLen
            /\ plan[k] \in 0..WordBits /\ TableLen \in Nat /\ Start(k) \in Nat
        BY <1>1, <3>1, PlanFacts DEF StreamInv
      <4>. QED  BY <4>1, StreamAssumption
    <3>3. writer.buffer \in ByteArrays(TableLen)
          /\ bitbuffer_setpos(writer, Start(k)) = At(writer.buffer, Start(k))
      BY <1>1 DEF StreamInv, Buffers, bitbuffer_setpos, At
    <3>4. Holds(writer.buffer, Start(k), plan[k], put[k])
      BY <1>1 DEF StreamInv
    <3>5. bitbuffer_getbits(At(writer.buffer, Start(k)), plan[k]).value
              = put[k] % Pow2[plan[k]]
      BY <3>1, <3>2, <3>3, <3>4, FieldRead
    <3>. QED  BY <3>3, <3>5
  <2>. QED  BY <2>1 DEF RoundTrip
<1>. QED  BY <1>1, StreamInvariance, PTL

\* getbuffer's bytes, off a byte boundary and on one.
LEMMA GetBuffer ==
    ASSUME WordBits \in Nat, WordBits >= 8, NEW len \in Nat,
           NEW bytes \in ByteArrays(len)
    PROVE  \A i, n \in Nat : i + 8 * n =< 8 * len =>
               bitbuffer_getbuffer(At(bytes, i), n)
                   = [value |-> [k \in 1..n |-> Worth(bytes, i + 8 * (k - 1), 8)],
                      bb |-> At(bytes, i + 8 * n)]
<1>. SUFFICES ASSUME NEW i \in Nat, NEW n \in Nat, i + 8 * n =< 8 * len
              PROVE  bitbuffer_getbuffer(At(bytes, i), n)
                   = [value |-> [k \in 1..n |-> Worth(bytes, i + 8 * (k - 1), 8)],
                      bb |-> At(bytes, i + 8 * n)]
  OBVIOUS
<1>1. At(bytes, i).index = i /\ At(bytes, i).buffer = bytes
      /\ \A m : bitbuffer_skipbits(At(bytes, i), m) = At(bytes, i + m)
  BY DEF At, bitbuffer_skipbits, bitbuffer_setpos
<1>2. CASE i % 8 # 0
  <2>1. ASSUME NEW k \in 1..n
        PROVE  bitbuffer_getbits(bitbuffer_skipbits(At(bytes, i), 8 * (k - 1)),
                                 8).value
                   = Worth(bytes, i + 8 * (k - 1), 8)
    <3>1. i + 8 * (k - 1) \in Nat /\ 8 \in 0..WordBits
          /\ (i + 8 * (k - 1)) + 8 =< 8 * len
      OBVIOUS
    <3>2. bitbuffer_getbits(At(bytes, i + 8 * (k - 1)), 8).value
              = Worth(bytes, i + 8 * (k - 1), 8)
      BY <3>1, GetBits
    <3>. QED  BY <1>1, <3>2
  <2>. QED  BY <1>1, <1>2, <2>1 DEF bitbuffer_getbuffer
<1>3. CASE i % 8 = 0
  <2>1. PICK q \in Nat : q = i \div 8 /\ i = 8 * q
    BY <1>3
  <2>2. q + n =< len /\ bytes \in Seq(0..255) /\ Len(bytes) = len
    <3>1. Len(bytes) = len
      BY BufferBytes
    <3>. QED  BY <2>1, <3>1 DEF ByteArrays
  <2>3. SubSeq(bytes, q + 1, q + n) = [k \in 1..n |-> bytes[q + k]]
    <3>1. q + 1 \in Int /\ q + n \in Int /\ q + n - (q + 1) + 1 = n
          /\ (\A p \in (q + 1)..(q + n) : bytes[p] \in 0..255)
          /\ (q + 1 =< q + n <=> n # 0)
      <4>1. (q + 1)..(q + n) \subseteq 1..len
        BY <2>2
      <4>2. \A p \in (q + 1)..(q + n) : bytes[p] \in 0..255
        BY <4>1 DEF ByteArrays
      <4>3. q + 1 \in Int /\ q + n \in Int /\ q + n - (q + 1) + 1 = n
            /\ (q + 1 =< q + n <=> n # 0)
        OBVIOUS
      <4>. QED  BY <4>2, <4>3
    <3>2. Len(SubSeq(bytes, q + 1, q + n)) = n
          /\ SubSeq(bytes, q + 1, q + n) \in Seq(0..255)
          /\ \A k \in 1..(q + n - (q + 1) + 1) :
                SubSeq(bytes, q + 1, q + n)[k] = bytes[q + 1 + k - 1]
      BY <3>1, SubSeqProperties
    <3>3. \A k \in 1..n : SubSeq(bytes, q + 1, q + n)[k] = bytes[q + k]
      BY <3>1, <3>2
    <3>4. SubSeq(bytes, q + 1, q + n) \in [1..n -> 0..255]
      BY <3>2, LenProperties, ZenonT(60)
    <3>. QED  BY <3>3, <3>4
  <2>4. ASSUME NEW k \in 1..n
        PROVE  bytes[q + k] = Worth(bytes, i + 8 * (k - 1), 8)
    <3>1. PICK j \in Nat : j = i + 8 * (k - 1)
      OBVIOUS
    <3>2. j + 0 = j /\ 0 + 8 = 8 /\ j % 8 = 0 /\ j \div 8 + 1 = q + k
          /\ j + 8 =< 8 * len
      BY <2>1, <2>2, <3>1
    <3>3. Worth(bytes, j, 0) = 0
      <4>1. j + 0 =< 8 * len /\ 0 \in Nat
        BY <3>2
      <4>. QED  BY <4>1, WorthFacts
    <3>4. Worth(bytes, j, 0 + 8) = 256 * Worth(bytes, j, 0)
                                   + bytes[(j + 0) \div 8 + 1]
      BY <3>2, WorthOfByte
    <3>5. bytes[q + k] \in Int
      <4>1. j \in 0..(8 * len - 1)
        BY <3>2
      <4>2. bytes[j \div 8 + 1] \in 0..255
        BY <4>1, BufferBytes
      <4>. QED  BY <3>2, <4>2
    <3>. QED  BY <3>1, <3>2, <3>3, <3>4, <3>5
  <2>5. SubSeq(bytes, q + 1, q + n)
            = [k \in 1..n |-> Worth(bytes, i + 8 * (k - 1), 8)]
    BY <2>3, <2>4
  <2>. QED  BY <1>1, <1>3, <2>1, <2>5 DEF bitbuffer_getbuffer
<1>. QED  BY <1>2, <1>3

\* The ways of reading many bits give what reading bit by bit would, and what
\* is copied is what was gone over, for every table.
THEOREM StreamReadsBitwise == StreamSpec => []ReadsAreBitwise
<1>1. ASSUME StreamInv
      PROVE  ReadsAreBitwise
  <2>1. PICK len \in Nat : len = TableLen /\ writer.buffer \in ByteArrays(len)
    BY <1>1, PlanFacts DEF StreamInv, Buffers
  <2>2. Len(writer.buffer) = len /\ WordBits \in Nat /\ WordBits >= 8
    BY <2>1, BufferBytes, StreamAssumption
  <2>3. ASSUME NEW i \in 0..(8 * Len(writer.buffer))
        PROVE  LET bb == bitbuffer_setpos(writer, i) IN
          /\ \A n \in 0..WordBits :
                n =< bitbuffer_getbitlength(bb) =>
                    /\ bitbuffer_getbits(bb, n) =
                           [value |-> Worth(writer.buffer, i, n),
                            bb |-> bitbuffer_setpos(bb, i + n)]
                    /\ bitbuffer_showbits(bb, n) = Worth(writer.buffer, i, n)
          /\ \A n \in 0..(bitbuffer_getbitlength(bb) \div 8) :
                bitbuffer_getbuffer(bb, n) =
                    [value |-> [k \in 1..n |->
                                  Worth(writer.buffer, i + 8 * (k - 1), 8)],
                     bb |-> bitbuffer_setpos(bb, i + 8 * n)]
    <3>. DEFINE bb == bitbuffer_setpos(writer, i)
    <3>1. bb = At(writer.buffer, i)
          /\ \A j : bitbuffer_setpos(bb, j) = At(writer.buffer, j)
      <4>1. PICK bytes, index : writer = At(bytes, index)
        BY <1>1 DEF StreamInv, Buffers, At
      <4>2. bb = At(writer.buffer, i)
        BY <4>1 DEF bitbuffer_setpos, At
      <4>3. \A j : bitbuffer_setpos(At(writer.buffer, i), j)
                       = At(writer.buffer, j)
        BY DEF bitbuffer_setpos, At
      <4>. QED  BY <4>2, <4>3
    <3>2. bitbuffer_getbitlength(bb) = 8 * len - i /\ i \in Nat
      <4>1. bb.index = i /\ bb.buffer = writer.buffer
        BY <3>1 DEF At
      <4>. HIDE DEF bb
      <4>. QED  BY <2>2, <4>1 DEF bitbuffer_getbitlength
    <3>. HIDE DEF bb
    <3>3. ASSUME NEW n \in 0..WordBits, n =< bitbuffer_getbitlength(bb)
          PROVE  /\ bitbuffer_getbits(bb, n) =
                        [value |-> Worth(writer.buffer, i, n),
                         bb |-> bitbuffer_setpos(bb, i + n)]
                 /\ bitbuffer_showbits(bb, n) = Worth(writer.buffer, i, n)
      <4>1. i + n =< 8 * len
        BY <2>2, <3>2, <3>3
      <4>2. bitbuffer_getbits(At(writer.buffer, i), n)
                = [value |-> Worth(writer.buffer, i, n),
                   bb |-> At(writer.buffer, i + n)]
        BY <2>1, <2>2, <3>2, <4>1, GetBits
      <4>. QED  BY <3>1, <4>2 DEF bitbuffer_showbits
    <3>4. ASSUME NEW n \in 0..(bitbuffer_getbitlength(bb) \div 8)
          PROVE  bitbuffer_getbuffer(bb, n) =
                    [value |-> [k \in 1..n |->
                                  Worth(writer.buffer, i + 8 * (k - 1), 8)],
                     bb |-> bitbuffer_setpos(bb, i + 8 * n)]
      <4>1. n \in Nat /\ i + 8 * n =< 8 * len
        BY <2>2, <3>2
      <4>2. bitbuffer_getbuffer(At(writer.buffer, i), n)
                = [value |-> [k \in 1..n |->
                                Worth(writer.buffer, i + 8 * (k - 1), 8)],
                   bb |-> At(writer.buffer, i + 8 * n)]
        BY <2>1, <2>2, <3>2, <4>1, GetBuffer
      <4>. QED  BY <3>1, <4>2
    <3>. QED  BY <3>3, <3>4 DEF bb
  <2>4. \A i \in 0..(copy.index - 1) :
          Bit(copy.buffer, i) = Bit(reader.buffer, reader.index - copy.index + i)
    BY <1>1 DEF StreamInv, Copied
  <2>. QED  BY <2>3, <2>4 DEF ReadsAreBitwise
<1>. QED  BY <1>1, StreamInvariance, PTL

(***************************************************************************)
(* Module ImageTables: the invariant                                       *)
(***************************************************************************)
\* The phases from one of them on.
FromWritten == {"written"}
FromInodeTable == {"inode table"} \cup FromWritten
FromInodes == {"inodes"} \cup FromInodeTable
FromBlockTable == {"block table"} \cup FromInodes
FromWidths3 == {"widths 3"} \cup FromBlockTable
FromCompress == {"compress"} \cup FromWidths3
FromWidths2 == {"widths 2"} \cup FromCompress
FromFill == {"fill"} \cup FromWidths2
FromSort == {"sort"} \cup FromFill

\* What a node keeps wherever it is placed.
Kept == {"number", "type", "ntype", "owner_mode", "group_mode", "other_mode",
         "uid", "gid", "ctime", "mtime", "length", "parent", "entries"}

\* The nodes are those of the table, in some order.
Reordered(table) ==
    /\ nodes \in Seq(Nodes)
    /\ Len(nodes) = Len(table)
    /\ \A i \in DOMAIN nodes :
          /\ nodes[i].number + 1 \in DOMAIN table
          /\ \A f \in Kept : nodes[i][f] = table[nodes[i].number + 1][f]
    /\ \A i, k \in DOMAIN nodes : nodes[i].number = nodes[k].number => i = k

Times == {"ctime", "mtime"}

\* Every value of a field fits in its width, which is 0 if it is disabled: of
\* a time what it is over that of node 0, unless it is older.
FieldFits(f) ==
    /\ f \in disabled => super.bits[f] = 0
    /\ f \notin disabled =>
          \A i \in DOMAIN nodes :
              super.bits[f] >= 1 /\ Stored(nodes[i], f) < Pow2[super.bits[f]]

\* A minimum is the time of node 0.
MinimaOfRoot ==
    \A f \in Times : \A i \in DOMAIN nodes :
        nodes[i].number = 0 => super.min[f] = nodes[i][f]

SuperTyped ==
    super \in [block_size : Nat \ {0}, block_log2 : 0..MaxBlockLog2,
               blocks : Nat, bits : [Fields -> 0..WordBits],
               dirbits : [DirectoryFields -> Nat],
               blockbits : [offset : 0..WordBits,
                            compressed_size : 0..WordBits, size : 0..WordBits],
               ctime : {0},
               min : [ctime : Word, mtime : Word, compressed_size : Nat]]

\* A block size that is no power of two has 0 for its logarithm.
LogarithmOrNone ==
    \/ super.block_size = Pow2[super.block_log2]
    \/ super.block_log2 = 0 /\ super.block_size >= 3

Place(node) == node.block * Pow2[super.block_log2] + node.index

\* The content of each node is where the node says, and all that the empty
\* files before a directory are at the start of is not the end.
Filled ==
    /\ entry_buffer \in Seq(Nat \X Nat)
    /\ Len(entry_buffer) < WordSize
    /\ \A i \in DOMAIN nodes :
          /\ nodes[i].index < Pow2[super.block_log2]
          /\ Place(nodes[i]) + nodes[i].size =< Len(entry_buffer)
          /\ \A k \in 1..nodes[i].size :
                entry_buffer[Place(nodes[i]) + k] = <<nodes[i].number, k>>
          /\ Directories(nodes) # {} => Place(nodes[i]) < Len(entry_buffer)

\* The blocks are not empty, and each is compressed to something.
Compressed ==
    /\ super.block_size = Pow2[super.block_log2]
    /\ blocks \in Seq([offset : Word, size : Word, compressed_size : Word])
    /\ Len(blocks) = super.blocks
    /\ \A b \in 1..super.blocks :
          /\ blocks[b].size = BlockBytes(b)
          /\ blocks[b].size >= 1
          /\ blocks[b].compressed_size >= 1
          /\ \A c \in 1..super.blocks :
                b < c => blocks[b].offset < blocks[c].offset

\* The values of the block table fit in their widths.
BlocksFit ==
    /\ super.blocks >= 1
    /\ \A b \in 1..super.blocks :
          /\ blocks[b].offset < Pow2[super.blockbits.offset]
          /\ super.min.compressed_size =< blocks[b].compressed_size
          /\ blocks[b].compressed_size - super.min.compressed_size
                 < Pow2[super.blockbits.compressed_size]
    /\ blocks[super.blocks].size < Pow2[super.blockbits.size]

BlockRowBits == super.blockbits.offset + super.blockbits.compressed_size
BlockTableLen == Bytes(super.blocks * BlockRowBits + super.blockbits.size)

\* The rows of the first n blocks are in the table.
BlockRows(bytes, n) ==
    \A b \in 1..n :
        /\ Holds(bytes, (b - 1) * BlockRowBits, super.blockbits.offset,
                 blocks[b].offset)
        /\ Holds(bytes, (b - 1) * BlockRowBits + super.blockbits.offset,
                 super.blockbits.compressed_size,
                 blocks[b].compressed_size - super.min.compressed_size)

InodeTableLen == Bytes(Len(nodes) * Total(InodeWidths))

\* The rows of the first n nodes are in the table.
InodeRows(bytes, n) ==
    \A i \in 1..n : \A k \in DOMAIN FieldOrder :
        Holds(bytes, (i - 1) * Total(InodeWidths) + Sums(InodeWidths)[k - 1],
              InodeWidths[k], Stored(nodes[i], FieldOrder[k]))

\* What is known of the tables of a node table in each phase.
Known(table) ==
    /\ disabled \in Disabled
    /\ SuperTyped
    /\ LogarithmOrNone
    /\ Reordered(table)
    /\ phase = "widths 1" => nodes = table
    /\ phase \in FromSort =>
          /\ \A f \in Fields \ PlacedFields : FieldFits(f)
          /\ MinimaOfRoot
          /\ super.dirbits = DirectoryWidths(table)
    /\ phase = "fill" =>
          \A i, k \in DOMAIN nodes : i < k => nodes[i].ntype =< nodes[k].ntype
    /\ phase \in FromWidths2 => Filled
    /\ phase \in FromCompress =>
          /\ \A f \in PlacedFields : FieldFits(f)
          /\ super.blocks = (Len(entry_buffer) + super.block_size - 1)
                            \div Pow2[super.block_log2]
    /\ phase \in FromWidths3 => Compressed
    /\ phase \in FromBlockTable => BlocksFit
    /\ phase = "block table" =>
          /\ bitbuffer \in Buffers(BlockTableLen)
          /\ next \in 1..(super.blocks + 1)
          /\ bitbuffer.index = (next - 1) * BlockRowBits
          /\ Clear(bitbuffer, BlockTableLen)
          /\ BlockRows(bitbuffer.buffer, next - 1)
    /\ phase \in FromInodes =>
          /\ block_buffer \in ByteArrays(BlockTableLen)
          /\ BlockRows(block_buffer, super.blocks)
          /\ Holds(block_buffer, super.blocks * BlockRowBits,
                   super.blockbits.size, blocks[super.blocks].size)
    /\ phase \in FromInodeTable =>
          \A i \in DOMAIN nodes : nodes[i].number = i - 1
    /\ phase = "inode table" =>
          /\ bitbuffer \in Buffers(InodeTableLen)
          /\ next \in 1..(Len(nodes) + 1)
          /\ bitbuffer.index = (next - 1) * Total(InodeWidths)
          /\ Clear(bitbuffer, InodeTableLen)
          /\ InodeRows(bitbuffer.buffer, next - 1)
    /\ phase \in FromWritten =>
          /\ inode_buffer \in ByteArrays(InodeTableLen)
          /\ InodeRows(inode_buffer, Len(nodes))

TablesInv ==
    phase \in {"failed", "crashed"} \/ \E table \in NodeTables : Known(table)

(***************************************************************************)
(* Widths                                                                  *)
(***************************************************************************)
LEMMA BlogFacts ==
    \A number \in Int :
        /\ blog(number) \in 0..64
        /\ number < 0 => blog(number) = 0
        /\ number >= 0 => blog(number) >= 1
        /\ 0 =< number /\ number < WordSize =>
               blog(number) \in 1..WordBits /\ number < Pow2[blog(number)]
<1>. SUFFICES ASSUME NEW number \in Int
              PROVE  /\ blog(number) \in 0..64
                     /\ number < 0 => blog(number) = 0
                     /\ number >= 0 => blog(number) >= 1
                     /\ 0 =< number /\ number < WordSize =>
                           /\ blog(number) \in 1..WordBits
                           /\ number < Pow2[blog(number)]
  OBVIOUS
<1>1. CASE number < 0
  BY <1>1 DEF blog
<1>2. CASE number >= 0
  <2>. DEFINE Fits(i) == /\ i < 64 => number < Pow2[i]
                         /\ \A k \in 1..(i - 1) : number >= Pow2[k]
  <2>1. \E i \in 1..64 : Fits(i)
    <3>. PICK T : T = {i \in 1..64 : i < 64 => number < Pow2[i]}
      OBVIOUS
    <3>1. T \subseteq Nat /\ 64 \in T
      OBVIOUS
    <3>2. PICK least \in T : \A n \in T : least =< n
      <4>1. T # {}
        BY <3>1
      <4>. QED  BY <3>1, <4>1, LeastNat
    <3>3. ASSUME NEW k \in 1..(least - 1)
          PROVE  number >= Pow2[k]
      <4>1. k \in 1..64 /\ k \notin T /\ k \in Nat
        BY <3>2
      <4>2. ~(number < Pow2[k])
        BY <4>1
      <4>3. Pow2[k] \in Nat \ {0}
        BY <4>1, Pow2Facts
      <4>. QED  BY <4>2, <4>3
    <3>. QED  BY <3>2, <3>3
  <2>2. PICK i \in 1..64 : i = blog(number) /\ Fits(i)
    <3>1. blog(number) = CHOOSE i \in 1..64 : Fits(i)
      BY <1>2 DEF blog
    <3>. HIDE DEF Fits
    <3>. QED  BY <2>1, <3>1
  <2>3. ASSUME number < WordSize
        PROVE  i \in 1..WordBits /\ number < Pow2[i]
    <3>1. WordBits \in 1..64 /\ number < Pow2[WordBits]
          /\ Pow2[WordBits] \in Nat \ {0}
      BY <2>3, BlockSizesAssumption, Pow2Facts DEF WordSize
    <3>2. CASE i > WordBits
      <4>1. WordBits \in 1..(i - 1)
        BY <3>1, <3>2
      <4>2. number >= Pow2[WordBits]
        BY <2>2, <4>1
      <4>. QED  BY <3>1, <4>2
    <3>3. CASE i =< WordBits
      <4>1. CASE i < 64
        BY <2>2, <3>1, <3>3, <4>1
      <4>2. CASE i = 64
        <5>1. i = WordBits
          BY <3>1, <3>3, <4>2
        <5>. QED  BY <3>1, <5>1
      <4>. QED  BY <4>1, <4>2
    <3>. QED  BY <3>1, <3>2, <3>3
  <2>. QED  BY <1>2, <2>2, <2>3
<1>. QED  BY <1>1, <1>2

(***************************************************************************)
(* Largest and smallest                                                    *)
(***************************************************************************)
LEMMA FiniteList ==
    ASSUME NEW n \in Nat, NEW f
    PROVE  IsFiniteSet({f[k] : k \in 1..n})
<1>. DEFINE T == {f[k] : k \in 1..n}
            g == [k \in 1..n |-> f[k]]
<1>1. g \in Surjection(1..n, T)
  BY DEF Surjection
<1>2. IsFiniteSet(1..n)
  BY FS_Interval
<1>. HIDE DEF g, T
<1>3. IsFiniteSet(T)
  BY <1>1, <1>2, FS_Surjection
<1>. QED  BY <1>3 DEF T

\* A list of numbers has a largest and a smallest one.
LEMMA Extremes ==
    ASSUME NEW n \in Nat, n # 0, NEW f \in [1..n -> Int]
    PROVE  \E x, y \in 1..n : \A k \in 1..n : f[x] >= f[k] /\ f[y] =< f[k]
<1>. DEFINE Ends(m) ==
              m # 0 => \E x, y \in 1..m :
                           \A k \in 1..m : f[x] >= f[k] /\ f[y] =< f[k]
<1>. PICK T : T = {m \in 0..n : Ends(m)}
  OBVIOUS
<1>1. 0 \in T
  OBVIOUS
<1>2. ASSUME NEW m \in 1..n, m - 1 \in T
      PROVE  m \in T
  <2>1. CASE m = 1
    <3>1. 1 \in 1..m /\ \A k \in 1..m : f[1] >= f[k] /\ f[1] =< f[k]
      BY <2>1
    <3>2. Ends(m)
      BY <3>1
    <3>. HIDE DEF Ends
    <3>. QED  BY <3>2
  <2>2. CASE m # 1
    <3>1. PICK x \in 1..(m - 1), y \in 1..(m - 1) :
              \A k \in 1..(m - 1) : f[x] >= f[k] /\ f[y] =< f[k]
      BY <1>2, <2>2
    <3>2. PICK u \in 1..m : u = IF f[m] > f[x] THEN m ELSE x
      OBVIOUS
    <3>3. PICK v \in 1..m : v = IF f[m] < f[y] THEN m ELSE y
      OBVIOUS
    <3>4. ASSUME NEW k \in 1..m
          PROVE  f[u] >= f[k] /\ f[v] =< f[k]
      <4>1. CASE k = m
        BY <3>2, <3>3, <4>1
      <4>2. CASE k # m
        <5>1. k \in 1..(m - 1)
          BY <4>2
        <5>2. f[x] >= f[k] /\ f[y] =< f[k]
          BY <3>1, <5>1
        <5>. QED  BY <3>2, <3>3, <5>2
      <4>. QED  BY <4>1, <4>2
    <3>5. Ends(m)
      BY <3>4
    <3>. HIDE DEF Ends
    <3>. QED  BY <3>5
  <2>. QED  BY <2>1, <2>2
<1>3. n \in T
  <2>1. n \in 0..n
    OBVIOUS
  <2>. QED  BY <1>1, <1>2, <2>1, Upwards
<1>. QED  BY <1>3

LEMMA MaxMin ==
    ASSUME NEW S, S \subseteq Int, S # {}, IsFiniteSet(S)
    PROVE  /\ Max(S) \in S /\ \A z \in S : z =< Max(S)
           /\ Min(S) \in S /\ \A z \in S : Min(S) =< z
<1>1. PICK n \in Nat : ExistsSurjection(1..n, S)
  BY FS_NatSurjection
<1>2. PICK f \in [1..n -> S] : \A z \in S : \E k \in 1..n : f[k] = z
  BY <1>1 DEF ExistsSurjection, Surjection
<1>3. n # 0 /\ f \in [1..n -> Int]
  <2>1. \A k \in 1..n : f[k] \in Int
    BY <1>2
  <2>2. PICK z : z \in S
    OBVIOUS
  <2>3. PICK k \in 1..n : f[k] = z
    BY <1>2, <2>2
  <2>. QED  BY <1>2, <2>1, <2>3
<1>4. PICK x \in 1..n, y \in 1..n :
          \A k \in 1..n : f[x] >= f[k] /\ f[y] =< f[k]
  BY <1>3, Extremes
<1>5. f[x] \in S /\ f[y] \in S
      /\ \A z \in S : f[x] >= z /\ f[y] =< z
  BY <1>2, <1>4
<1>6. Max(S) \in S /\ \A z \in S : Max(S) >= z
  BY <1>5 DEF Max
<1>7. Min(S) \in S /\ \A z \in S : Min(S) =< z
  BY <1>5 DEF Min
<1>. QED  BY <1>6, <1>7

LEMMA MaxOfFacts ==
    ASSUME NEW S, S \subseteq Int, IsFiniteSet(S)
    PROVE  /\ MaxOf(S) \in S \cup {-1} /\ MaxOf(S) \in Int /\ MaxOf(S) >= -1
           /\ \A z \in S : z =< MaxOf(S)
<1>1. S \cup {-1} \subseteq Int /\ S \cup {-1} # {} /\ IsFiniteSet(S \cup {-1})
  BY FS_AddElement
<1>. QED  BY <1>1, MaxMin DEF MaxOf

(***************************************************************************)
(* Node tables                                                             *)
(***************************************************************************)
LEMMA TableFacts ==
    ASSUME NEW table \in NodeTables
    PROVE  /\ table \in Seq(Nodes) /\ Len(table) \in Nat
           /\ DOMAIN table = 1..Len(table)
           /\ Directories(table) \subseteq 1..Len(table)
           /\ \A i \in 1..Len(table) :
                 /\ table[i] \in Nodes
                 /\ table[i].number = i - 1
                 /\ table[i].type = Regular <=> table[i].ntype < 3
                 /\ table[i].type = Directory <=> table[i].ntype = 3
BY NodesAssumption DEF Directories

\* The image of a finite set of indices.
LEMMA FiniteImage ==
    ASSUME NEW n \in Nat, NEW D, D \subseteq 1..n, NEW f
    PROVE  IsFiniteSet({f[k] : k \in D})
<1>1. IsFiniteSet({f[k] : k \in 1..n})
  BY FiniteList
<1>2. {f[k] : k \in D} \in SUBSET {f[k] : k \in 1..n}
  OBVIOUS
<1>. QED  BY <1>1, <1>2, FS_Subset

LEMMA DirectoryWidthsFacts ==
    ASSUME NEW table \in NodeTables
    PROVE  /\ DirectoryWidths(table) \in [DirectoryFields -> Nat]
           /\ Directories(table) # {} => DirectoryWidths(table).parent >= 1
<1>. DEFINE n == Len(table)
            D == Directories(table)
            E == Entries(table)
            parents == {table[i].parent : i \in D}
            counts == {Len(table[i].entries) : i \in D}
<1>1. n \in Nat /\ D \subseteq 1..n /\ D \subseteq DOMAIN table
      /\ \A i \in D : /\ table[i].parent \in Nat
                      /\ table[i].entries
                             \in Seq([number : Nat, length : Nat, type : Nat])
  BY TableFacts DEF Nodes
<1>2. parents \subseteq Int /\ IsFiniteSet(parents)
  <2>1. PICK f : f = [i \in 1..n |-> table[i].parent]
    OBVIOUS
  <2>2. IsFiniteSet({f[i] : i \in D})
    <3>. HIDE DEF n, D
    <3>. QED  BY <1>1, FiniteImage
  <2>3. {f[i] : i \in D} = parents
    <3>. HIDE DEF n, D
    <3>. QED  BY <1>1, <2>1
  <2>4. parents \subseteq Int
    <3>. HIDE DEF n, D
    <3>. QED  BY <1>1
  <2>. HIDE DEF parents
  <2>. QED  BY <2>2, <2>3, <2>4
<1>3. counts \subseteq Int /\ IsFiniteSet(counts)
  <2>1. PICK f : f = [i \in 1..n |-> Len(table[i].entries)]
    OBVIOUS
  <2>2. IsFiniteSet({f[i] : i \in D})
    <3>. HIDE DEF n, D
    <3>. QED  BY <1>1, FiniteImage
  <2>3. {f[i] : i \in D} = counts
    <3>. HIDE DEF n, D
    <3>. QED  BY <1>1, <2>1
  <2>4. \A i \in D : Len(table[i].entries) \in Nat
    <3>. HIDE DEF n, D
    <3>. QED  BY <1>1, LenProperties
  <2>5. counts \subseteq Int
    BY <2>4
  <2>. QED  BY <2>2, <2>3, <2>5
<1>4. IsFiniteSet(E) /\ E \subseteq [number : Nat, length : Nat, type : Nat]
  <2>1. PICK f : f = [i \in 1..n |-> ToSet(table[i].entries)]
    OBVIOUS
  <2>2. IsFiniteSet({f[i] : i \in D})
    <3>. HIDE DEF n, D
    <3>. QED  BY <1>1, FiniteImage
  <2>3. E = UNION {f[i] : i \in D}
    <3>1. {ToSet(table[i].entries) : i \in D} = {f[i] : i \in D}
      <4>. HIDE DEF n, D
      <4>. QED  BY <1>1, <2>1
    <3>. QED  BY <3>1 DEF Entries
  <2>4. ASSUME NEW i \in D
        PROVE  /\ IsFiniteSet(ToSet(table[i].entries))
               /\ ToSet(table[i].entries)
                      \subseteq [number : Nat, length : Nat, type : Nat]
    <3>1. PICK s \in Seq([number : Nat, length : Nat, type : Nat]) :
              s = table[i].entries
      BY <1>1
    <3>2. Len(s) \in Nat /\ DOMAIN s = 1..Len(s)
          /\ \A k \in 1..Len(s) : s[k] \in [number : Nat, length : Nat, type : Nat]
      BY LenProperties
    <3>3. ToSet(s) = {s[k] : k \in 1..Len(s)}
      BY <3>2 DEF ToSet
    <3>4. IsFiniteSet({s[k] : k \in 1..Len(s)})
      BY <3>2, FiniteList
    <3>5. ToSet(s) \subseteq [number : Nat, length : Nat, type : Nat]
      BY <3>2, <3>3
    <3>. QED  BY <3>1, <3>3, <3>4, <3>5
  <2>5. \A S \in {f[i] : i \in D} :
            IsFiniteSet(S) /\ S \subseteq [number : Nat, length : Nat, type : Nat]
    <3>. HIDE DEF n, D
    <3>. QED  BY <1>1, <2>1, <2>4
  <2>. HIDE DEF E
  <2>6. IsFiniteSet(UNION {f[i] : i \in D})
    BY <2>2, <2>5, FS_UNION
  <2>. QED  BY <2>3, <2>5, <2>6
<1>5. ASSUME NEW f \in [E -> Nat]
      PROVE  IsFiniteSet({f[e] : e \in E}) /\ {f[e] : e \in E} \subseteq Int
  <2>. DEFINE S == {f[e] : e \in E}
  <2>. HIDE DEF E
  <2>1. f \in Surjection(E, S)
    <3>1. f \in [E -> S] /\ \A z \in S : \E e \in E : f[e] = z
      OBVIOUS
    <3>. HIDE DEF S
    <3>. QED  BY <3>1 DEF Surjection
  <2>2. S \subseteq Int
    OBVIOUS
  <2>. HIDE DEF S
  <2>3. IsFiniteSet(S)
    BY <1>4, <2>1, FS_Surjection
  <2>. QED  BY <2>2, <2>3 DEF S
<1>6. {e.number : e \in E} \subseteq Int /\ IsFiniteSet({e.number : e \in E})
      /\ {e.length : e \in E} \subseteq Int /\ IsFiniteSet({e.length : e \in E})
      /\ {e.type : e \in E} \subseteq Int /\ IsFiniteSet({e.type : e \in E})
  <2>. HIDE DEF E
  <2>1. PICK f \in [E -> Nat], g \in [E -> Nat], h \in [E -> Nat] :
            /\ f = [e \in E |-> e.number] /\ g = [e \in E |-> e.length]
            /\ h = [e \in E |-> e.type]
    BY <1>4
  <2>2. {f[e] : e \in E} = {e.number : e \in E}
        /\ {g[e] : e \in E} = {e.length : e \in E}
        /\ {h[e] : e \in E} = {e.type : e \in E}
    BY <2>1
  <2>3. IsFiniteSet({f[e] : e \in E}) /\ IsFiniteSet({g[e] : e \in E})
        /\ IsFiniteSet({h[e] : e \in E})
    BY <1>5
  <2>4. {e.number : e \in E} \subseteq Int /\ {e.length : e \in E} \subseteq Int
        /\ {e.type : e \in E} \subseteq Int
    BY <1>4
  <2>. QED  BY <2>2, <2>3, <2>4, Zenon
<1>7. /\ MaxOf(parents) \in Int /\ MaxOf(counts) \in Int
      /\ MaxOf({e.number : e \in E}) \in Int
      /\ MaxOf({e.length : e \in E}) \in Int
      /\ MaxOf({e.type : e \in E}) \in Int
  <2>. HIDE DEF parents, counts, E
  <2>1. MaxOf(parents) \in Int /\ MaxOf(counts) \in Int
    BY <1>2, <1>3, MaxOfFacts
  <2>2. MaxOf({e.number : e \in E}) \in Int
        /\ MaxOf({e.length : e \in E}) \in Int
    BY <1>6, MaxOfFacts
  <2>3. MaxOf({e.type : e \in E}) \in Int
    BY <1>6, MaxOfFacts
  <2>. QED  BY <2>1, <2>2, <2>3
<1>8. DirectoryWidths(table) \in [DirectoryFields -> Nat]
      /\ DirectoryWidths(table).parent = blog(MaxOf(parents))
  <2>1. /\ blog(MaxOf(parents)) \in Nat /\ blog(MaxOf(counts)) \in Nat
        /\ blog(MaxOf({e.number : e \in E})) \in Nat
        /\ blog(MaxOf({e.length : e \in E})) \in Nat
        /\ blog(MaxOf({e.type : e \in E})) \in Nat
    <3>. HIDE DEF parents, counts, E
    <3>1. \A z \in Int : blog(z) \in Nat
      BY BlogFacts
    <3>. QED  BY <1>7, <3>1
  <2>. DEFINE W == DirectoryWidths(table)
  <2>2. /\ W = [f \in DirectoryFields |-> W[f]]
        /\ W["parent"] = blog(MaxOf(parents))
        /\ W["nentries"] = blog(MaxOf(counts))
        /\ W["number"] = blog(MaxOf({e.number : e \in E}))
        /\ W["length"] = blog(MaxOf({e.length : e \in E}))
        /\ W["entry_type"] = blog(MaxOf({e.type : e \in E}))
    BY DEF DirectoryWidths, DirectoryFields
  <2>. HIDE DEF W, parents, counts, E
  <2>3. \A f \in DirectoryFields : W[f] \in Nat
    BY <2>1, <2>2 DEF DirectoryFields
  <2>4. W \in [DirectoryFields -> Nat] /\ W.parent = blog(MaxOf(parents))
    BY <2>2, <2>3
  <2>. QED  BY <2>4 DEF W
<1>9. ASSUME D # {}
      PROVE  DirectoryWidths(table).parent >= 1
  <2>1. PICK z \in Nat : z \in parents
    BY <1>1, <1>9
  <2>. HIDE DEF parents
  <2>2. z =< MaxOf(parents)
    BY <1>2, <2>1, MaxOfFacts
  <2>3. blog(MaxOf(parents)) >= 1
    <3>1. MaxOf(parents) >= 0 /\ MaxOf(parents) \in Int
      BY <1>7, <2>2
    <3>. QED  BY <3>1, BlogFacts
  <2>. QED  BY <1>8, <2>3
<1>. QED  BY <1>8, <1>9

LEMMA WordFacts ==
    /\ WordBits \in Nat /\ WordBits \in 8..64
    /\ WordSize \in Nat \ {0} /\ WordSize >= 256
    /\ Word \subseteq Nat /\ 0 \in Word
    /\ \A k \in 0..WordBits : Pow2[k] =< WordSize
<1>1. WordBits \in Nat /\ WordBits \in 8..64 /\ 8 \in Nat /\ 8 =< WordBits
  BY BlockSizesAssumption
<1>2. Pow2[8] =< Pow2[WordBits] /\ WordSize \in Nat \ {0}
  BY <1>1, Pow2Grows, Pow2Facts DEF WordSize
<1>3. \A k \in 0..WordBits : Pow2[k] =< WordSize
  BY <1>1, Pow2Grows DEF WordSize
<1>. QED  BY <1>1, <1>2, <1>3, Pow2Values DEF Word, WordSize

(***************************************************************************)
(* The first state                                                         *)
(***************************************************************************)
LEMMA SlogFacts ==
    \A block \in Nat :
        Pow2[MinBlockLog2] =< block /\ block =< Pow2[MaxBlockLog2] =>
            /\ slog(block) \in 0..MaxBlockLog2
            /\ \/ block = Pow2[slog(block)]
               \/ slog(block) = 0 /\ block >= 3
<1>. SUFFICES ASSUME NEW block \in Nat,
                     Pow2[MinBlockLog2] =< block, block =< Pow2[MaxBlockLog2]
              PROVE  /\ slog(block) \in 0..MaxBlockLog2
                     /\ \/ block = Pow2[slog(block)]
                        \/ slog(block) = 0 /\ block >= 3
  BY Zenon
<1>. DEFINE logs == {i \in MinBlockLog2..MaxBlockLog2 : block = Pow2[i]}
<1>0. MaxBlockLog2 \in Nat /\ MinBlockLog2 \in 0..MaxBlockLog2
      /\ MinBlockLog2 \in Nat
  BY BlockSizesAssumption
<1>1. CASE logs # {}
  <2>1. IsFiniteSet(logs)
    <3>1. IsFiniteSet(MinBlockLog2..MaxBlockLog2)
      BY <1>0, FS_Interval
    <3>2. logs \in SUBSET (MinBlockLog2..MaxBlockLog2)
      OBVIOUS
    <3>. HIDE DEF logs
    <3>. QED  BY <3>1, <3>2, FS_Subset
  <2>2. logs \subseteq Int
    BY <1>0
  <2>3. Max(logs) \in logs
    <3>. HIDE DEF logs
    <3>. QED  BY <1>1, <2>1, <2>2, MaxMin
  <2>4. slog(block) \in logs
    BY <1>1, <2>3 DEF slog
  <2>. QED  BY <1>0, <2>4
<1>2. CASE logs = {}
  <2>1. slog(block) = 0
    BY <1>2 DEF slog
  <2>2. \A i \in MinBlockLog2..MaxBlockLog2 : block # Pow2[i]
    BY <1>2
  <2>3. Pow2[MinBlockLog2] \in Nat \ {0} /\ Pow2[MaxBlockLog2] \in Nat \ {0}
    BY <1>0, Pow2Facts
  <2>4. block # Pow2[MinBlockLog2]
    <3>1. MinBlockLog2 \in MinBlockLog2..MaxBlockLog2
      BY <1>0
    <3>. QED  BY <2>2, <3>1
  <2>5. ASSUME block = 2
        PROVE  FALSE
    <3>1. MinBlockLog2 < 2
      <4>1. CASE MinBlockLog2 >= 2
        <5>1. Pow2[2] =< Pow2[MinBlockLog2]
          BY <1>0, <4>1, Pow2Grows
        <5>. QED  BY <2>3, <2>5, <5>1, Pow2Values
      <4>. QED  BY <1>0, <4>1
    <3>2. MaxBlockLog2 >= 1
      <4>1. CASE MaxBlockLog2 = 0
        BY <2>5, <4>1, Pow2Values
      <4>. QED  BY <1>0, <4>1
    <3>3. 1 \in MinBlockLog2..MaxBlockLog2
      BY <1>0, <3>1, <3>2
    <3>. QED  BY <2>2, <2>5, <3>3, Pow2Values
  <2>6. block >= 3
    BY <2>3, <2>4, <2>5
  <2>. QED  BY <1>0, <2>1, <2>6
<1>. QED  BY <1>1, <1>2

LEMMA ClampedFacts ==
    \A option \in BlockSizes :
        /\ Clamped(option) \in Nat \ {0}
        /\ Pow2[MinBlockLog2] =< Clamped(option)
        /\ Clamped(option) =< Pow2[MaxBlockLog2]
<1>1. /\ Pow2[MinBlockLog2] \in Nat \ {0} /\ Pow2[MaxBlockLog2] \in Nat \ {0}
      /\ Pow2[MinBlockLog2] =< Pow2[MaxBlockLog2]
  <2>1. MaxBlockLog2 \in Nat /\ MinBlockLog2 \in Nat
        /\ MinBlockLog2 =< MaxBlockLog2
    BY BlockSizesAssumption
  <2>. QED  BY <2>1, Pow2Facts, Pow2Grows
<1>2. \A option \in BlockSizes : option \in Nat
  BY BlockSizesAssumption
<1>. QED  BY <1>1, <1>2 DEF Clamped, Larger, Smaller

LEMMA TablesInitInv == Init => TablesInv
<1>. SUFFICES ASSUME Init
              PROVE  \E table \in NodeTables : Known(table)
  BY DEF TablesInv
<1>1. PICK table \in NodeTables : nodes = table /\ phase = "widths 1"
                                  /\ disabled \in Disabled
  BY DEF Init
<1>2. PICK option \in BlockSizes :
       super = [block_size |-> Clamped(option),
                block_log2 |-> slog(Clamped(option)),
                blocks |-> 0, bits |-> NoWidths,
                dirbits |-> [f \in DirectoryFields |-> 0],
                blockbits |-> [offset |-> 0, compressed_size |-> 0, size |-> 0],
                ctime |-> 0,
                min |-> [ctime |-> 0, mtime |-> 0, compressed_size |-> 0]]
  BY DEF Init
<1>3. PICK size \in Nat \ {0}, log \in 0..MaxBlockLog2 :
          /\ size = Clamped(option) /\ log = slog(Clamped(option))
          /\ size = Pow2[log] \/ (log = 0 /\ size >= 3)
  <2>1. PICK size \in Nat \ {0} : /\ size = Clamped(option)
                                  /\ Pow2[MinBlockLog2] =< size
                                  /\ size =< Pow2[MaxBlockLog2]
    BY ClampedFacts
  <2>2. /\ slog(size) \in 0..MaxBlockLog2
        /\ \/ size = Pow2[slog(size)]
           \/ slog(size) = 0 /\ size >= 3
    BY <2>1, SlogFacts
  <2>3. PICK log \in 0..MaxBlockLog2 : log = slog(size)
    BY <2>2
  <2>4. size = Pow2[log] \/ (log = 0 /\ size >= 3)
    BY <2>2, <2>3
  <2>. QED  BY <2>1, <2>3, <2>4
<1>4. SuperTyped
  <2>1. 0 \in Word /\ 0 \in 0..WordBits
    BY WordFacts
  <2>2. NoWidths \in [Fields -> 0..WordBits]
    BY <2>1 DEF NoWidths
  <2>3. [f \in DirectoryFields |-> 0] \in [DirectoryFields -> Nat]
    OBVIOUS
  <2>. QED  BY <1>2, <1>3, <2>1, <2>2, <2>3 DEF SuperTyped
<1>5. LogarithmOrNone
  BY <1>2, <1>3 DEF LogarithmOrNone
<1>6. Reordered(table)
  <2>1. ASSUME NEW i \in DOMAIN nodes
        PROVE  nodes[i].number = i - 1 /\ nodes[i].number + 1 = i
    <3>1. i \in 1..Len(table) /\ Len(table) \in Nat
      BY <1>1, TableFacts
    <3>2. table[i].number = i - 1
      BY <3>1, TableFacts
    <3>3. i - 1 + 1 = i
      BY <3>1
    <3>. QED  BY <1>1, <3>2, <3>3
  <2>2. \A i, k \in DOMAIN nodes : nodes[i].number = nodes[k].number => i = k
    BY <1>1, <2>1, TableFacts
  <2>. QED  BY <1>1, <2>1, <2>2, TableFacts DEF Reordered
<1>. QED  BY <1>1, <1>4, <1>5, <1>6
          DEF Known, FromSort, FromFill, FromWidths2, FromCompress, FromWidths3,
              FromBlockTable, FromInodes, FromInodeTable, FromWritten

(***************************************************************************)
(* The first pass                                                          *)
(***************************************************************************)
\* The first pass takes the time of the first node for the smallest.
LEMMA RunningMinFacts ==
    ASSUME nodes \in Seq(Nodes), NEW f \in Times
    PROVE  /\ RunningMin(f) \in Word
           /\ Len(nodes) # 0 => RunningMin(f) = nodes[1][f]
<1>. DEFINE n == Len(nodes)
            S == [max : Int, min : Word]
            turn(x, k) == LET max == Larger(x.max, nodes[k][f])
                          IN  [max |-> max, min |-> Smaller(max, x.min)]
            start == [max |-> -1, min |-> WordSize - 1]
            F(g) == [k \in 0..n |-> IF k = 0 THEN start ELSE turn(g[k - 1], k)]
<1>0. n \in Nat /\ DOMAIN nodes = 1..n
      /\ \A k \in 1..n : nodes[k][f] \in Word /\ nodes[k][f] \in Nat
  <2>1. n \in Nat /\ DOMAIN nodes = 1..n /\ \A k \in 1..n : nodes[k] \in Nodes
    BY LenProperties
  <2>2. \A x \in Nodes : x[f] \in Word
    BY DEF Nodes, Times
  <2>. QED  BY <2>1, <2>2, WordFacts
<1>1. start \in S
  BY WordFacts DEF Word
<1>2. ASSUME NEW x \in S, NEW k \in 1..n
      PROVE  turn(x, k) \in S
  <2>. DEFINE max == Larger(x.max, nodes[k][f])
  <2>1. x.max \in Int /\ x.min \in Word /\ x.min \in Nat
    BY WordFacts
  <2>2. max \in Int /\ max >= 0
    BY <1>0, <2>1 DEF Larger
  <2>3. Smaller(max, x.min) \in Word
    <3>. HIDE DEF max
    <3>. QED  BY <2>1, <2>2, WordFacts DEF Smaller, Word
  <2>. QED  BY <2>2, <2>3
<1>3. PICK step : step = [k \in 1..n |-> [x \in S |-> turn(x, k)]]
  OBVIOUS
<1>4. step \in [1..n -> [S -> S]]
  <2>. HIDE DEF S, turn
  <2>. QED  BY <1>2, <1>3
<1>5. PICK g \in [0..n -> S] : Iterates(g, start, step, n)
  <2>. HIDE DEF S, turn, start, n
  <2>. QED  BY <1>0, <1>1, <1>4, Iteration
<1>6. g[0] = start /\ \A k \in 1..n : g[k] = turn(g[k - 1], k)
  <2>. HIDE DEF S, turn, start
  <2>1. \A k \in 1..n : g[k - 1] \in S
    BY <1>5
  <2>. QED  BY <1>3, <1>5, <2>1 DEF Iterates
<1>7. g = F(g)
  <2>. HIDE DEF S, turn, start
  <2>1. \A k \in 0..n : g[k] = F(g)[k]
    BY <1>6
  <2>. QED  BY <1>5, <2>1
<1>8. PICK h : h = (CHOOSE r : r = F(r)) /\ h = F(h)
  <2>. HIDE DEF F
  <2>. QED  BY <1>7
<1>9. RunningMin(f) = h[n].min
  BY <1>8 DEF RunningMin
<1>10. h[0] = start /\ \A k \in 1..n : h[k] = turn(h[k - 1], k)
  <2>. HIDE DEF turn, start
  <2>1. F(h)[0] = start /\ \A k \in 1..n : F(h)[k] = turn(h[k - 1], k)
    BY <1>0
  <2>. HIDE DEF F
  <2>. QED  BY <1>8, <2>1
<1>. DEFINE Good(k) == /\ h[k] \in S
                       /\ k # 0 => /\ h[k].min = nodes[1][f]
                                   /\ h[k].max >= nodes[1][f]
<1>. PICK T : T = {k \in 0..n : Good(k)}
  OBVIOUS
<1>11. 0 \in T
  BY <1>0, <1>1, <1>10
<1>12. ASSUME NEW k \in 1..n, k - 1 \in T
       PROVE  k \in T
  <2>. HIDE DEF n
  <2>1. PICK x \in S : x = h[k - 1] /\ h[k] = turn(x, k)
    <3>. HIDE DEF S, turn
    <3>. QED  BY <1>10, <1>12
  <2>2. h[k] \in S
    <3>. HIDE DEF S, turn
    <3>. QED  BY <1>2, <2>1
  <2>3. h[k].max = Larger(x.max, nodes[k][f])
        /\ h[k].min = Smaller(h[k].max, x.min)
    BY <2>1
  <2>4. PICK a \in Nat, b \in Nat : a = nodes[k][f] /\ b = nodes[1][f]
        /\ b =< WordSize - 1 /\ (k = 1 => a = b)
    <3>1. 1 \in 1..n
      BY <1>0
    <3>2. nodes[k][f] \in Nat /\ nodes[1][f] \in Nat /\ nodes[1][f] \in Word
      BY <1>0, <3>1
    <3>3. nodes[1][f] =< WordSize - 1
      BY <3>2, WordFacts DEF Word
    <3>. QED  BY <3>2, <3>3
  <2>5. CASE k = 1
    <3>1. x = start
      BY <1>10, <2>1, <2>5
    <3>2. x.max = -1 /\ x.min = WordSize - 1 /\ WordSize \in Nat
      BY <3>1, WordFacts
    <3>3. h[k].max = b /\ h[k].min = b
      BY <2>3, <2>4, <2>5, <3>2 DEF Larger, Smaller
    <3>4. Good(k)
      BY <2>2, <2>4, <3>3
    <3>. HIDE DEF Good
    <3>. QED  BY <1>0, <3>4
  <2>6. CASE k # 1
    <3>1. x.min = b /\ x.max >= b /\ x.max \in Int
      BY <1>12, <2>1, <2>4, <2>6
    <3>2. h[k].max >= b /\ h[k].min = b
      BY <2>3, <2>4, <3>1 DEF Larger, Smaller
    <3>3. Good(k)
      BY <2>2, <2>4, <3>2
    <3>. HIDE DEF Good
    <3>. QED  BY <1>0, <3>3
  <2>. QED  BY <2>5, <2>6
<1>13. n \in T
  <2>1. n \in 0..n
    BY <1>0
  <2>. HIDE DEF Good, n
  <2>. QED  BY <1>0, <1>11, <1>12, <2>1, Upwards
<1>. QED  BY <1>9, <1>13

LEMMA FieldNames ==
    /\ DOMAIN FieldOrder = 1..11 /\ Len(FieldOrder) = 11
    /\ Fields = {FieldOrder[k] : k \in 1..11}
    /\ Fields = {"type", "owner_mode", "group_mode", "other_mode", "uid", "gid",
                 "ctime", "mtime", "size", "block", "index"}
    /\ \A j, k \in 1..11 : FieldOrder[j] = FieldOrder[k] => j = k
<1>1. DOMAIN FieldOrder = 1..11 /\ Len(FieldOrder) = 11
  BY DEF FieldOrder
<1>2. Fields = {FieldOrder[k] : k \in 1..11}
  BY <1>1 DEF Fields, ToSet
<1>3. /\ FieldOrder[1] = "type" /\ FieldOrder[2] = "owner_mode"
      /\ FieldOrder[3] = "group_mode" /\ FieldOrder[4] = "other_mode"
      /\ FieldOrder[5] = "uid" /\ FieldOrder[6] = "gid"
      /\ FieldOrder[7] = "ctime" /\ FieldOrder[8] = "mtime"
      /\ FieldOrder[9] = "size" /\ FieldOrder[10] = "block"
      /\ FieldOrder[11] = "index"
  BY DEF FieldOrder
<1>4. \A k \in 1..11 : k = 1 \/ k = 2 \/ k = 3 \/ k = 4 \/ k = 5 \/ k = 6
                       \/ k = 7 \/ k = 8 \/ k = 9 \/ k = 10 \/ k = 11
  OBVIOUS
<1>5. Fields = {"type", "owner_mode", "group_mode", "other_mode", "uid", "gid",
                "ctime", "mtime", "size", "block", "index"}
  <2>1. \A f \in Fields : f \in {"type", "owner_mode", "group_mode",
            "other_mode", "uid", "gid", "ctime", "mtime", "size", "block",
            "index"}
    BY <1>2, <1>3, <1>4
  <2>2. \A k \in 1..11 : FieldOrder[k] \in Fields
    BY <1>2
  <2>3. 1 \in 1..11 /\ 2 \in 1..11 /\ 3 \in 1..11 /\ 4 \in 1..11 /\ 5 \in 1..11
        /\ 6 \in 1..11 /\ 7 \in 1..11 /\ 8 \in 1..11 /\ 9 \in 1..11
        /\ 10 \in 1..11 /\ 11 \in 1..11
    OBVIOUS
  <2>4. \A f \in {"type", "owner_mode", "group_mode", "other_mode", "uid",
            "gid", "ctime", "mtime", "size", "block", "index"} : f \in Fields
    BY <1>3, <2>2, <2>3
  <2>. QED  BY <2>1, <2>4
<1>6. \A j, k \in 1..11 : FieldOrder[j] = FieldOrder[k] => j = k
  BY <1>3, <1>4
<1>. QED  BY <1>1, <1>2, <1>5, <1>6

\* The values of a field are words, and none is above the largest.
LEMMA LargestFieldFacts ==
    ASSUME nodes \in Seq(Nodes), NEW f \in Fields
    PROVE  /\ LargestField(f) \in Int /\ LargestField(f) < WordSize
           /\ f \in disabled => LargestField(f) = -1
           /\ \A i \in DOMAIN nodes :
                 /\ nodes[i][f] \in Word /\ nodes[i][f] \in Nat
                 /\ f \notin disabled => nodes[i][f] =< LargestField(f)
<1>. DEFINE n == Len(nodes)
            S == {nodes[i][f] : i \in DOMAIN nodes}
<1>1. n \in Nat /\ DOMAIN nodes = 1..n /\ \A i \in 1..n : nodes[i] \in Nodes
  BY LenProperties
<1>2. \A x \in Nodes : x[f] \in Word /\ x[f] \in Nat
  <2>1. ASSUME NEW x \in Nodes
        PROVE  x[f] \in Word
    <3>1. \A t \in {Regular, Directory, SymbolicLink} : t \in Word
      BY WordFacts DEF Regular, Directory, SymbolicLink, Word
    <3>. QED  BY <3>1, FieldNames DEF Nodes
  <2>. QED  BY <2>1, WordFacts
<1>3. \A i \in DOMAIN nodes : nodes[i][f] \in Word /\ nodes[i][f] \in Nat
  <2>. HIDE DEF n
  <2>. QED  BY <1>1, <1>2
<1>4. S \subseteq Int /\ IsFiniteSet(S)
  <2>1. PICK g : g = [i \in 1..n |-> nodes[i][f]]
    OBVIOUS
  <2>2. IsFiniteSet({g[i] : i \in 1..n})
    BY <1>1, FiniteList
  <2>3. {g[i] : i \in 1..n} = S
    <3>. HIDE DEF n
    <3>. QED  BY <1>1, <2>1
  <2>4. S \subseteq Int
    BY <1>3
  <2>. QED  BY <2>2, <2>3, <2>4
<1>5. /\ MaxOf(S) \in S \cup {-1} /\ MaxOf(S) \in Int
      /\ \A z \in S : z =< MaxOf(S)
  <2>. HIDE DEF S
  <2>. QED  BY <1>4, MaxOfFacts
<1>6. MaxOf(S) < WordSize
  <2>1. \A z \in S \cup {-1} : z < WordSize
    BY <1>3, WordFacts DEF Word
  <2>. HIDE DEF S
  <2>. QED  BY <1>5, <2>1
<1>7. LargestField(f) = IF f \in disabled THEN -1 ELSE MaxOf(S)
  BY DEF LargestField
<1>8. \A i \in DOMAIN nodes : nodes[i][f] =< MaxOf(S)
  <2>1. \A i \in DOMAIN nodes : nodes[i][f] \in S
    OBVIOUS
  <2>. HIDE DEF S
  <2>. QED  BY <1>5, <2>1
<1>9. -1 \in Int /\ -1 < WordSize
  BY WordFacts
<1>. HIDE DEF S
<1>. QED  BY <1>3, <1>5, <1>6, <1>7, <1>8, <1>9

LEMMA Widths1Inv ==
    ASSUME NEW table \in NodeTables, Known(table), Widths1
    PROVE  Known(table)'
<1>. DEFINE min == [ctime |-> RunningMin("ctime"), mtime |-> RunningMin("mtime")]
            bits == [f \in Fields |->
                       IF f \in PlacedFields THEN 0
                       ELSE IF f \in {"ctime", "mtime"}
                       THEN blog(LargestField(f) - min[f])
                       ELSE blog(LargestField(f))]
            above(f) == IF f \in Times THEN LargestField(f) - min[f]
                        ELSE LargestField(f)
<1>1. /\ phase = "widths 1" /\ phase' = "sort" /\ nodes = table
      /\ UNCHANGED <<disabled, nodes, entry_buffer, blocks, tables>>
      /\ disabled \in Disabled /\ SuperTyped /\ LogarithmOrNone
      /\ Reordered(table) /\ nodes \in Seq(Nodes)
  BY DEF Known, Widths1, Reordered
<1>2. super' = [super EXCEPT !.bits = bits, !.dirbits = DirectoryWidths(nodes),
                             !.min.ctime = min.ctime, !.min.mtime = min.mtime]
  BY DEF Widths1
<1>3. \A f \in Times : min[f] \in Word /\ min[f] \in Nat
          /\ (Len(nodes) # 0 => min[f] = nodes[1][f])
  <2>1. "ctime" \in Times /\ "mtime" \in Times
        /\ \A f \in Times : f = "ctime" \/ f = "mtime"
    BY DEF Times
  <2>2. \A f \in Times : RunningMin(f) \in Word /\ RunningMin(f) \in Nat
            /\ (Len(nodes) # 0 => RunningMin(f) = nodes[1][f])
    BY <1>1, RunningMinFacts, WordFacts
  <2>. QED  BY <2>1, <2>2
<1>4. ASSUME NEW f \in Fields \ PlacedFields
      PROVE  /\ above(f) \in Int /\ above(f) < WordSize
             /\ f \in disabled => above(f) < 0
             /\ f \notin disabled => \A i \in DOMAIN nodes :
                   /\ above(f) >= 0
                   /\ nodes[i][f] - (IF f \in Times THEN min[f] ELSE 0) =< above(f)
  <2>1. /\ LargestField(f) \in Int /\ LargestField(f) < WordSize
        /\ f \in disabled => LargestField(f) = -1
        /\ \A i \in DOMAIN nodes :
              /\ nodes[i][f] \in Nat
              /\ f \notin disabled => nodes[i][f] =< LargestField(f)
    BY <1>1, LargestFieldFacts
  <2>2. CASE f \notin Times
    BY <2>1, <2>2
  <2>3. CASE f \in Times
    <3>1. min[f] \in Nat
      BY <1>3, <2>3
    <3>2. ASSUME NEW i \in DOMAIN nodes
          PROVE  1 \in DOMAIN nodes /\ min[f] = nodes[1][f]
      <4>1. Len(nodes) \in Nat /\ DOMAIN nodes = 1..Len(nodes)
        BY <1>1, LenProperties
      <4>. QED  BY <1>3, <2>3, <4>1
    <3>3. f \notin disabled => \A i \in DOMAIN nodes :
              LargestField(f) - min[f] >= 0
              /\ nodes[i][f] - min[f] =< LargestField(f) - min[f]
      <4>. HIDE DEF min
      <4>. QED  BY <2>1, <3>1, <3>2
    <3>. HIDE DEF min
    <3>. QED  BY <2>1, <2>3, <3>1, <3>3, WordFacts
  <2>. QED  BY <2>2, <2>3
<1>5. \A f \in Fields \ PlacedFields :
          /\ bits[f] = blog(above(f)) /\ bits[f] \in 0..WordBits
          /\ f \in disabled => bits[f] = 0
          /\ f \notin disabled => \A i \in DOMAIN nodes :
                /\ bits[f] >= 1
                /\ nodes[i][f] - (IF f \in Times THEN min[f] ELSE 0)
                       < Pow2[bits[f]]
  <2>1. ASSUME NEW f \in Fields \ PlacedFields
        PROVE  /\ bits[f] = blog(above(f)) /\ bits[f] \in 0..WordBits
               /\ f \in disabled => bits[f] = 0
               /\ f \notin disabled => \A i \in DOMAIN nodes :
                     /\ bits[f] >= 1
                     /\ nodes[i][f] - (IF f \in Times THEN min[f] ELSE 0)
                            < Pow2[bits[f]]
    <3>1. bits[f] = blog(above(f))
      <4>. HIDE DEF min
      <4>. QED  BY DEF Times
    <3>2. PICK z \in Int : z = above(f) /\ z < WordSize
      BY <1>4
    <3>3. /\ z < 0 => blog(z) = 0
          /\ z >= 0 => blog(z) \in 1..WordBits /\ z < Pow2[blog(z)]
      BY <3>2, BlogFacts
    <3>4. bits[f] \in 0..WordBits
      <4>. HIDE DEF bits, above
      <4>. QED  BY <3>1, <3>2, <3>3, WordFacts
    <3>5. f \in disabled => bits[f] = 0
      <4>1. f \in disabled => z < 0
        BY <1>4, <3>2
      <4>. HIDE DEF bits, above
      <4>. QED  BY <3>1, <3>2, <3>3, <4>1
    <3>6. ASSUME f \notin disabled, NEW i \in DOMAIN nodes
          PROVE  /\ bits[f] >= 1
                 /\ nodes[i][f] - (IF f \in Times THEN min[f] ELSE 0)
                        < Pow2[bits[f]]
      <4>1. PICK y \in Int : y = nodes[i][f] - (IF f \in Times THEN min[f] ELSE 0)
                /\ y =< z /\ z >= 0
        <5>1. nodes[i][f] \in Nat
          BY <1>1, LargestFieldFacts
        <5>2. (IF f \in Times THEN min[f] ELSE 0) \in Int
          BY <1>3
        <5>3. nodes[i][f] - (IF f \in Times THEN min[f] ELSE 0) =< z /\ z >= 0
          BY <1>4, <3>2, <3>6
        <5>. HIDE DEF min, above
        <5>. QED  BY <5>1, <5>2, <5>3
      <4>2. bits[f] = blog(z) /\ blog(z) \in 1..WordBits /\ z < Pow2[blog(z)]
        BY <3>1, <3>2, <3>3, <4>1
      <4>3. Pow2[blog(z)] \in Nat \ {0}
        BY <4>2, WordFacts, Pow2Facts
      <4>. HIDE DEF bits, min, above
      <4>. QED  BY <4>1, <4>2, <4>3, WordFacts
    <3>. HIDE DEF bits, min, above
    <3>. QED  BY <3>1, <3>4, <3>5, <3>6
  <2>. HIDE DEF bits, min, above
  <2>. QED  BY <2>1
<1>6. bits \in [Fields -> 0..WordBits]
  <2>1. \A f \in PlacedFields : f \in Fields => bits[f] = 0
    OBVIOUS
  <2>2. DOMAIN bits = Fields /\ bits = [f \in Fields |-> bits[f]]
    OBVIOUS
  <2>. HIDE DEF bits, above, min
  <2>. QED  BY <1>5, <2>1, <2>2, WordFacts
<1>7. /\ super'.bits = bits /\ super'.dirbits = DirectoryWidths(table)
      /\ super'.min.ctime = min.ctime /\ super'.min.mtime = min.mtime
      /\ super'.block_size = super.block_size
      /\ super'.block_log2 = super.block_log2
  <2>. HIDE DEF bits, min
  <2>. QED  BY <1>1, <1>2 DEF SuperTyped
<1>8. SuperTyped'
  <2>1. DirectoryWidths(nodes) \in [DirectoryFields -> Nat]
    BY <1>1, DirectoryWidthsFacts
  <2>2. min.ctime \in Word /\ min.mtime \in Word
    BY <1>3 DEF Times
  <2>. HIDE DEF bits, min
  <2>. QED  BY <1>1, <1>2, <1>6, <2>1, <2>2 DEF SuperTyped
<1>9. LogarithmOrNone'
  BY <1>1, <1>7 DEF LogarithmOrNone
<1>10. Reordered(table)'
  <2>1. nodes' = nodes
    BY <1>1
  <2>2. Reordered(table)
    BY <1>1
  <2>. QED  BY <2>1, <2>2 DEF Reordered
<1>11. ASSUME NEW f \in Fields \ PlacedFields
       PROVE  FieldFits(f)'
  <2>1. super'.bits[f] = bits[f]
    <3>. HIDE DEF bits
    <3>. QED  BY <1>7
  <2>2. ASSUME NEW i \in DOMAIN nodes
        PROVE  Stored(nodes[i], f)' = nodes[i][f]
                                      - (IF f \in Times THEN min[f] ELSE 0)
    <3>1. nodes[i][f] \in Nat
      BY <1>1, LargestFieldFacts
    <3>2. nodes' = nodes
      BY <1>1
    <3>3. CASE f \in Times
      <4>1. super'.min[f] = min[f]
        <5>. HIDE DEF min
        <5>. QED  BY <1>7, <3>3 DEF Times
      <4>2. Stored(nodes[i], f)' = nodes'[i][f] - super'.min[f]
        BY <3>3 DEF Stored, Times
      <4>. HIDE DEF min
      <4>. QED  BY <3>2, <3>3, <4>1, <4>2
    <3>4. CASE f \notin Times
      <4>1. Stored(nodes[i], f)' = nodes'[i][f]
        BY <3>4 DEF Stored, Times
      <4>. HIDE DEF min
      <4>. QED  BY <3>1, <3>2, <3>4, <4>1
    <3>. QED  BY <3>3, <3>4
  <2>. HIDE DEF bits, min
  <2>. QED  BY <1>1, <1>5, <2>1, <2>2 DEF FieldFits
<1>12. MinimaOfRoot'
  <2>1. ASSUME NEW f \in Times, NEW i \in DOMAIN nodes, nodes[i].number = 0
        PROVE  super'.min[f] = nodes[i][f]
    <3>1. i \in 1..Len(table) /\ Len(table) \in Nat /\ Len(nodes) = Len(table)
      <4>1. DOMAIN nodes = DOMAIN table /\ Len(nodes) = Len(table)
        BY <1>1
      <4>. QED  BY <4>1, TableFacts
    <3>2. table[i].number = i - 1
      BY <3>1, TableFacts
    <3>3. i = 1 /\ Len(nodes) # 0
      <4>1. table[i].number = 0
        BY <1>1, <2>1
      <4>. QED  BY <3>1, <3>2, <4>1
    <3>4. super'.min[f] = min[f]
      <4>. HIDE DEF min
      <4>. QED  BY <1>7 DEF Times
    <3>. HIDE DEF min
    <3>. QED  BY <1>3, <3>3, <3>4
  <2>. QED  BY <1>1, <2>1 DEF MinimaOfRoot
<1>. HIDE DEF bits, min
<1>. QED  BY <1>1, <1>7, <1>8, <1>9, <1>10, <1>11, <1>12
          DEF Known, FromSort, FromFill, FromWidths2, FromCompress, FromWidths3,
              FromBlockTable, FromInodes, FromInodeTable, FromWritten

(***************************************************************************)
(* The order of the types                                                  *)
(***************************************************************************)
LEMMA NodesFacts ==
    ASSUME nodes \in Seq(Nodes)
    PROVE  /\ Len(nodes) \in Nat /\ DOMAIN nodes = 1..Len(nodes)
           /\ \A i \in 1..Len(nodes) : nodes[i] \in Nodes
BY LenProperties

LEMMA SortByTypeInv ==
    ASSUME NEW table \in NodeTables, Known(table), SortByType
    PROVE  Known(table)'
<1>1. /\ phase = "sort" /\ phase' = "fill"
      /\ UNCHANGED <<disabled, super, entry_buffer, blocks, tables>>
      /\ disabled \in Disabled /\ SuperTyped /\ LogarithmOrNone
      /\ Reordered(table) /\ nodes \in Seq(Nodes)
      /\ \A f \in Fields \ PlacedFields : FieldFits(f)
      /\ MinimaOfRoot
      /\ super.dirbits = DirectoryWidths(table)
  BY DEF Known, SortByType, Reordered, FromSort
<1>. DEFINE n == Len(nodes)
<1>2. n \in Nat /\ DOMAIN nodes = 1..n /\ \A i \in 1..n : nodes[i] \in Nodes
  BY <1>1, NodesFacts
<1>. HIDE DEF n
<1>11. PICK order \in [DOMAIN nodes -> DOMAIN nodes] :
          /\ \A i, k \in DOMAIN nodes : i # k => order[i] # order[k]
          /\ \A i, k \in DOMAIN nodes :
                i < k => nodes[order[i]].ntype =< nodes[order[k]].ntype
          /\ nodes' = [i \in DOMAIN nodes |-> nodes[order[i]]]
  BY DEF SortByType
<1>3. /\ order \in [1..n -> 1..n]
      /\ \A i, k \in 1..n : i # k => order[i] # order[k]
      /\ \A i, k \in 1..n : i < k => nodes[order[i]].ntype =< nodes[order[k]].ntype
      /\ nodes' = [i \in 1..n |-> nodes[order[i]]]
  <2>1. DOMAIN nodes = 1..n
    BY <1>2
  <2>. QED  BY <1>11, <2>1
<1>4. /\ nodes' \in Seq(Nodes) /\ DOMAIN nodes' = 1..n /\ Len(nodes') = n
      /\ \A i \in 1..n : order[i] \in 1..n /\ nodes'[i] = nodes[order[i]]
  <2>1. nodes' \in [1..n -> Nodes]
    <3>. HIDE DEF n
    <3>. QED  BY <1>2, <1>3
  <2>. HIDE DEF n
  <2>. QED  BY <1>2, <1>3, <2>1
<1>5. super' = super /\ disabled' = disabled
  BY <1>1
<1>6. SuperTyped' /\ LogarithmOrNone'
  BY <1>1, <1>5 DEF SuperTyped, LogarithmOrNone
<1>7. Reordered(table)'
  <2>1. /\ Len(nodes) = Len(table)
        /\ \A i \in 1..n :
              /\ nodes[i].number + 1 \in DOMAIN table
              /\ \A f \in Kept : nodes[i][f] = table[nodes[i].number + 1][f]
        /\ \A i, k \in 1..n : nodes[i].number = nodes[k].number => i = k
    BY <1>1, <1>2 DEF Reordered
  <2>2. \A i \in 1..n :
              /\ nodes'[i].number + 1 \in DOMAIN table
              /\ \A f \in Kept : nodes'[i][f] = table[nodes'[i].number + 1][f]
    BY <1>4, <2>1
  <2>3. \A i, k \in 1..n : nodes'[i].number = nodes'[k].number => i = k
    BY <1>3, <1>4, <2>1
  <2>4. Len(nodes') = Len(table)
    BY <1>4, <2>1 DEF n
  <2>. QED  BY <1>4, <2>2, <2>3, <2>4 DEF Reordered
<1>8. ASSUME NEW f \in Fields \ PlacedFields
      PROVE  FieldFits(f)'
  <2>1. \A i \in 1..n : Stored(nodes[i], f)' = Stored(nodes[order[i]], f)
    BY <1>4, <1>5 DEF Stored
  <2>2. FieldFits(f)
    BY <1>1
  <2>. QED  BY <1>2, <1>4, <1>5, <2>1, <2>2 DEF FieldFits
<1>9. MinimaOfRoot'
  BY <1>1, <1>2, <1>4, <1>5 DEF MinimaOfRoot
<1>10. \A i, k \in 1..n : i < k => nodes'[i].ntype =< nodes'[k].ntype
  BY <1>3, <1>4
<1>. QED  BY <1>1, <1>4, <1>5, <1>6, <1>7, <1>8, <1>9, <1>10
          DEF Known, FromSort, FromFill, FromWidths2, FromCompress, FromWidths3,
              FromBlockTable, FromInodes, FromInodeTable, FromWritten

(***************************************************************************)
(* The contents                                                            *)
(***************************************************************************)
LEMMA BytesFacts ==
    \A bits \in Nat : /\ Bytes(bits) \in Nat /\ bits =< 8 * Bytes(bits)
                      /\ bits >= 1 => Bytes(bits) >= 1
BY DEF Bytes

LEMMA ContentSizeFacts ==
    ASSUME NEW d \in [DirectoryFields -> Nat]
    PROVE  \A node \in Nodes :
               /\ ContentSize(d, node) \in Nat
               /\ node.type = SymbolicLink => ContentSize(d, node) >= 1
               /\ node.type = Directory /\ d.parent >= 1 =>
                      ContentSize(d, node) >= 1
<1>. SUFFICES ASSUME NEW node \in Nodes
              PROVE  /\ ContentSize(d, node) \in Nat
                     /\ node.type = SymbolicLink => ContentSize(d, node) >= 1
                     /\ node.type = Directory /\ d.parent >= 1 =>
                            ContentSize(d, node) >= 1
  OBVIOUS
<1>1. /\ node.type \in {Regular, Directory, SymbolicLink} /\ node.length \in Nat
      /\ node.entries \in Seq([number : Nat, length : Nat, type : Nat])
  BY DEF Nodes
<1>2. /\ d.number \in Nat /\ d.length \in Nat /\ d.entry_type \in Nat
      /\ d.parent \in Nat /\ d.nentries \in Nat
  BY DEF DirectoryFields
<1>. DEFINE entry(e) == Bytes(d.number + d.length + d.entry_type) + e.length
            parts == [i \in DOMAIN node.entries |-> entry(node.entries[i])]
<1>3. parts \in Seq(Nat)
  <2>1. PICK b \in Nat : b = Bytes(d.number + d.length + d.entry_type)
    BY <1>2, BytesFacts
  <2>2. PICK k \in Nat : k = Len(node.entries) /\ DOMAIN node.entries = 1..k
    BY <1>1, LenProperties
  <2>3. \A i \in 1..k : node.entries[i].length \in Nat
    <3>1. PICK list \in Seq([number : Nat, length : Nat, type : Nat]) :
              list = node.entries
      BY <1>1
    <3>2. \A i \in 1..Len(list) : list[i] \in [number : Nat, length : Nat, type : Nat]
      BY LenProperties
    <3>. QED  BY <2>2, <3>1, <3>2
  <2>4. parts \in [1..k -> Nat]
    BY <2>1, <2>2, <2>3
  <2>. HIDE DEF parts
  <2>. QED  BY <2>4
<1>4. Total(parts) \in Nat
  <2>1. Sums(parts) \in [0..Len(parts) -> Nat] /\ Len(parts) \in Nat
    <3>. HIDE DEF parts
    <3>. QED  BY <1>3, SumsFacts, LenProperties
  <2>. HIDE DEF parts
  <2>. QED  BY <2>1 DEF Total
<1>5. DirectorySize(d, node) = Bytes(d.parent + d.nentries) + Total(parts)
  BY DEF DirectorySize
<1>6. /\ Bytes(d.parent + d.nentries) \in Nat
      /\ d.parent >= 1 => Bytes(d.parent + d.nentries) >= 1
  BY <1>2, BytesFacts
<1>7. DirectorySize(d, node) \in Nat
      /\ (d.parent >= 1 => DirectorySize(d, node) >= 1)
  <2>. HIDE DEF parts
  <2>. QED  BY <1>4, <1>5, <1>6
<1>. QED  BY <1>1, <1>7 DEF ContentSize, Regular, Directory, SymbolicLink

\* What a node's content takes does not depend on where the node is placed.
LEMMA ContentSizeKept ==
    ASSUME NEW d, NEW one, NEW other, \A f \in Kept : one[f] = other[f]
    PROVE  ContentSize(d, one) = ContentSize(d, other)
<1>1. one.type = other.type /\ one.length = other.length
      /\ one.entries = other.entries
  BY DEF Kept
<1>. QED  BY <1>1 DEF ContentSize, DirectorySize

\* One of the parts that follow one another is that of position p.
LEMMA Owner ==
    ASSUME NEW s \in Seq(Nat)
    PROVE  /\ \A p \in 1..Total(s) : \E i \in 1..Len(s) :
                  Sums(s)[i - 1] < p /\ p =< Sums(s)[i]
           /\ \A p \in Nat : \A i, k \in 1..Len(s) :
                 /\ Sums(s)[i - 1] < p /\ p =< Sums(s)[i]
                 /\ Sums(s)[k - 1] < p /\ p =< Sums(s)[k]
                 => i = k
           /\ Total(s) \in Nat
           /\ \A i \in 1..Len(s) :
                 Sums(s)[i] = Sums(s)[i - 1] + s[i] /\ Sums(s)[i] =< Total(s)
<1>. DEFINE n == Len(s)
            ends == Sums(s)
<1>1. n \in Nat /\ ends \in [0..n -> Nat] /\ ends[0] = 0 /\ Total(s) = ends[n]
      /\ \A i \in 1..n : ends[i] = ends[i - 1] + s[i]
  BY SumsFacts, LenProperties DEF Total
<1>2. \A i, k \in 0..n : i =< k => ends[i] =< ends[k]
  BY SumsGrow
<1>. HIDE DEF n, ends
<1>3. ASSUME NEW p \in 1..Total(s)
      PROVE  \E i \in 1..n : ends[i - 1] < p /\ p =< ends[i]
  <2>. DEFINE T == {i \in 0..n : p =< ends[i]}
  <2>1. T \subseteq Nat /\ n \in T
    BY <1>1
  <2>2. PICK i \in T : \A k \in T : i =< k
    <3>. HIDE DEF T
    <3>. QED  BY <2>1, LeastNat
  <2>3. i \in 1..n
    BY <1>1, <2>2
  <2>4. i - 1 \in 0..n /\ i - 1 \notin T
    BY <1>1, <2>2, <2>3
  <2>5. ends[i - 1] \in Nat /\ ends[i - 1] < p
    BY <1>1, <2>4
  <2>. QED  BY <2>2, <2>3, <2>5
<1>4. ASSUME NEW p \in Nat, NEW i \in 1..n, NEW k \in 1..n,
             ends[i - 1] < p, p =< ends[k]
      PROVE  i =< k
  <2>1. CASE k < i
    <3>1. k \in 0..n /\ i - 1 \in 0..n /\ k =< i - 1
      BY <1>1, <2>1
    <3>2. ends[k] =< ends[i - 1] /\ ends[k] \in Nat /\ ends[i - 1] \in Nat
      BY <1>1, <1>2, <3>1
    <3>. QED  BY <1>4, <3>2
  <2>. QED  BY <1>1, <2>1
<1>5. \A p \in Nat : \A i, k \in 1..n :
          /\ ends[i - 1] < p /\ p =< ends[i]
          /\ ends[k - 1] < p /\ p =< ends[k]
          => i = k
  <2>1. \A i, k \in 1..n : i =< k /\ k =< i => i = k
    BY <1>1
  <2>. QED  BY <1>4, <2>1
<1>6. \A i \in 1..n : ends[i] =< ends[n]
  BY <1>1, <1>2
<1>. QED  BY <1>1, <1>3, <1>5, <1>6 DEF n, ends

LEMMA ContentsFinite ==
    ASSUME NEW table \in NodeTables
    PROVE  IsFiniteSet(Contents(table))
<1>. DEFINE d == DirectoryWidths(table)
            part(i) == {table[i].number} \X (1..ContentSize(d, table[i]))
<1>1. Len(table) \in Nat /\ DOMAIN table = 1..Len(table)
      /\ \A i \in 1..Len(table) : table[i] \in Nodes
  BY TableFacts
<1>2. d \in [DirectoryFields -> Nat]
  BY DirectoryWidthsFacts
<1>3. PICK parts : parts = [i \in 1..Len(table) |-> part(i)]
  OBVIOUS
<1>4. Contents(table) = UNION {parts[i] : i \in 1..Len(table)}
  <2>1. {part(i) : i \in DOMAIN table} = {parts[i] : i \in 1..Len(table)}
    BY <1>1, <1>3
  <2>. QED  BY <2>1 DEF Contents
<1>5. ASSUME NEW i \in 1..Len(table)
      PROVE  IsFiniteSet(parts[i])
  <2>1. PICK c \in Nat : c = ContentSize(d, table[i])
    <3>. HIDE DEF d
    <3>. QED  BY <1>1, <1>2, ContentSizeFacts
  <2>2. IsFiniteSet(1..c) /\ IsFiniteSet({table[i].number})
    <3>1. IsFiniteSet(1..c)
      BY FS_Interval
    <3>. QED  BY <3>1, FS_Singleton
  <2>3. IsFiniteSet({table[i].number} \X (1..c))
    BY <2>2, FS_Product
  <2>. QED  BY <1>3, <2>1, <2>3
<1>6. IsFiniteSet({parts[i] : i \in 1..Len(table)})
  BY <1>1, FiniteList
<1>7. \A S \in {parts[i] : i \in 1..Len(table)} : IsFiniteSet(S)
  BY <1>5
<1>. QED  BY <1>4, <1>6, <1>7, FS_UNION


LEMMA TimesGrows ==
    \A b \in Nat \ {0}, q \in Nat : b * q >= q /\ b * q \in Nat
<1>. SUFFICES ASSUME NEW b \in Nat \ {0}, NEW q \in Nat
              PROVE  b * q >= q /\ b * q \in Nat
  OBVIOUS
<1>1. PICK c \in Nat : b = c + 1
  <2>1. b - 1 \in Nat /\ b = (b - 1) + 1
    OBVIOUS
  <2>. QED  BY <2>1
<1>2. (c + 1) * q = c * q + q
  OBVIOUS
<1>3. c * q \in Nat
  OBVIOUS
<1>. QED  BY <1>1, <1>2, <1>3

\* A quotient and its remainder are no more than what is divided.
LEMMA QuotientBounds ==
    ASSUME NEW a \in Nat, NEW b \in Nat \ {0}
    PROVE  /\ a \div b \in 0..a /\ a % b \in 0..a /\ a % b < b
           /\ (a \div b) * b + (a % b) = a
<1>. PICK q \in Int, r \in 0..(b - 1) : q = a \div b /\ r = a % b /\ a = b * q + r
  BY Division
<1>1. q >= 0
  OBVIOUS
<1>2. q * b = b * q
  OBVIOUS
<1>3. b * q >= q /\ b * q >= 0
  <2>. QED  BY <1>1, TimesGrows
<1>. QED  BY <1>1, <1>2, <1>3

LEMMA PlacedFacts ==
    ASSUME NEW node \in Nodes, NEW offset \in Word,
           ContentSize(super.dirbits, node) \in Word,
           Pow2[super.block_log2] \in Nat \ {0}
    PROVE  /\ Placed(node, offset) \in Nodes
           /\ \A f \in Kept : Placed(node, offset)[f] = node[f]
           /\ Placed(node, offset).size = ContentSize(super.dirbits, node)
           /\ Placed(node, offset).index < Pow2[super.block_log2]
           /\ Placed(node, offset).block * Pow2[super.block_log2]
                  + Placed(node, offset).index = offset
<1>. DEFINE P == Pow2[super.block_log2]
            q == offset \div P
            r == offset % P
<1>1. offset \in Nat /\ q \in 0..offset /\ r \in 0..offset /\ r < P
      /\ q * P + r = offset
  <2>1. offset \in Nat
    BY WordFacts
  <2>. HIDE DEF P
  <2>. QED  BY <2>1, QuotientBounds DEF P
<1>2. q \in Word /\ r \in Word
  <2>. HIDE DEF q, r
  <2>. QED  BY <1>1, WordFacts DEF Word
<1>3. Placed(node, offset) = [node EXCEPT !.size = ContentSize(super.dirbits, node),
                                          !.block = q, !.index = r]
  BY DEF Placed
<1>. HIDE DEF q, r, P
<1>4. Placed(node, offset) \in Nodes
  BY <1>2, <1>3, ZenonT(60) DEF Nodes
<1>5. /\ Placed(node, offset).size = ContentSize(super.dirbits, node)
      /\ Placed(node, offset).block = q /\ Placed(node, offset).index = r
      /\ \A f \in Kept : Placed(node, offset)[f] = node[f]
  BY <1>3 DEF Nodes, Kept
<1>. QED  BY <1>1, <1>4, <1>5 DEF P

LEMMA FillEntriesInv ==
    ASSUME NEW table \in NodeTables, Known(table), FillEntries
    PROVE  Known(table)'
<1>1. /\ phase = "fill" /\ phase' = "widths 2"
      /\ UNCHANGED <<disabled, super, blocks, tables>>
      /\ disabled \in Disabled /\ SuperTyped /\ LogarithmOrNone
      /\ Reordered(table) /\ nodes \in Seq(Nodes)
      /\ \A f \in Fields \ PlacedFields : FieldFits(f)
      /\ MinimaOfRoot
      /\ super.dirbits = DirectoryWidths(table)
      /\ \A i, k \in DOMAIN nodes : i < k => nodes[i].ntype =< nodes[k].ntype
  BY DEF Known, FillEntries, Reordered, FromSort, FromFill
<1>. DEFINE n == Len(nodes)
            d == super.dirbits
            sizes == [i \in DOMAIN nodes |-> ContentSize(super.dirbits, nodes[i])]
            ends == Sums(sizes)
            owner(p) == CHOOSE i \in DOMAIN nodes : ends[i - 1] < p /\ p =< ends[i]
            P == Pow2[super.block_log2]
<1>2. n \in Nat /\ DOMAIN nodes = 1..n /\ \A i \in 1..n : nodes[i] \in Nodes
  BY <1>1, NodesFacts
<1>3. /\ nodes' = [i \in DOMAIN nodes |-> Placed(nodes[i], ends[i - 1])]
      /\ entry_buffer' = [p \in 1..Total(sizes) |->
                 <<nodes[owner(p)].number, p - ends[owner(p) - 1]>>]
  BY DEF FillEntries
<1>4. d \in [DirectoryFields -> Nat] /\ d = DirectoryWidths(table)
      /\ P \in Nat \ {0}
  <2>1. super.block_log2 \in Nat
    <3>1. super.block_log2 \in 0..MaxBlockLog2
      BY <1>1 DEF SuperTyped
    <3>. QED  BY <3>1, BlockSizesAssumption
  <2>. QED  BY <1>1, <2>1, Pow2Facts DEF SuperTyped
<1>5. sizes \in Seq(Nat) /\ Len(sizes) = n
      /\ \A i \in 1..n : sizes[i] = ContentSize(d, nodes[i])
  <2>1. \A i \in 1..n : ContentSize(d, nodes[i]) \in Nat
    <3>. HIDE DEF d, n
    <3>. QED  BY <1>2, <1>4, ContentSizeFacts
  <2>2. sizes \in [1..n -> Nat]
    <3>. HIDE DEF n
    <3>. QED  BY <1>2, <2>1
  <2>. HIDE DEF n
  <2>. QED  BY <1>2, <2>1, <2>2
<1>6. /\ \A p \in 1..Total(sizes) : \E i \in 1..n : ends[i - 1] < p /\ p =< ends[i]
      /\ \A p \in Nat : \A i, k \in 1..n :
            /\ ends[i - 1] < p /\ p =< ends[i]
            /\ ends[k - 1] < p /\ p =< ends[k]
            => i = k
      /\ Total(sizes) \in Nat
      /\ \A i \in 1..n : /\ ends[i] = ends[i - 1] + sizes[i]
                        /\ ends[i] =< Total(sizes)
                        /\ ends[i - 1] \in Nat /\ ends[i] \in Nat
                        /\ sizes[i] \in Nat
      /\ \A i, k \in 0..n : i =< k => ends[i] =< ends[k]
  <2>. HIDE DEF n, sizes
  <2>1. ends \in [0..n -> Nat]
    BY <1>5, SumsFacts
  <2>3. \A i \in 1..n : i - 1 \in 0..n /\ i \in 0..n
    BY <1>2
  <2>4. \A i \in 1..n : sizes[i] \in Nat
    BY <1>5, LenProperties
  <2>5. /\ \A p \in 1..Total(sizes) : \E i \in 1..n : ends[i - 1] < p /\ p =< ends[i]
        /\ \A p \in Nat : \A i, k \in 1..n :
              /\ ends[i - 1] < p /\ p =< ends[i]
              /\ ends[k - 1] < p /\ p =< ends[k]
              => i = k
        /\ Total(sizes) \in Nat
        /\ \A i \in 1..n : ends[i] = ends[i - 1] + sizes[i] /\ ends[i] =< Total(sizes)
    BY <1>5, Owner
  <2>2. \A i, k \in 0..n : i =< k => ends[i] =< ends[k]
    BY <1>5, SumsGrow
  <2>. HIDE DEF ends
  <2>6. \A i \in 1..n : ends[i - 1] \in Nat /\ ends[i] \in Nat
    BY <2>1, <2>3
  <2>. QED  BY <2>2, <2>4, <2>5, <2>6
<1>. HIDE DEF sizes, ends, n, P, d
<1>7. \A i \in 1..n : \A p \in Nat :
          ends[i - 1] < p /\ p =< ends[i] => owner(p) = i
  BY <1>2, <1>6
<1>8. \A p \in 1..Total(sizes) : /\ owner(p) \in 1..n
                               /\ ends[owner(p) - 1] < p /\ p =< ends[owner(p)]
  <2>1. \A p \in 1..Total(sizes) : \E i \in 1..n : owner(p) = i /\ ends[i - 1] < p
                                                  /\ p =< ends[i]
    <3>. HIDE DEF owner
    <3>. QED  BY <1>6, <1>7
  <2>. HIDE DEF owner
  <2>. QED  BY <2>1
<1>. HIDE DEF owner
<1>9. /\ \A i \in 1..n :
            /\ nodes[i].number + 1 \in 1..Len(table)
            /\ \A f \in Kept : nodes[i][f] = table[nodes[i].number + 1][f]
            /\ nodes[i].number \in Nat
      /\ Len(table) \in Nat
      /\ \A i, k \in 1..n : nodes[i].number = nodes[k].number => i = k
      /\ n = Len(table)
  <2>1. \A i \in 1..n : nodes[i].number \in Nat
    BY <1>2 DEF Nodes
  <2>. QED  BY <1>1, <1>2, <2>1, TableFacts, ZenonT(60) DEF Reordered, n
<1>10. \A i \in 1..n : sizes[i] = ContentSize(DirectoryWidths(table),
                                            table[nodes[i].number + 1])
  <2>1. \A i \in 1..n : ContentSize(d, nodes[i])
                            = ContentSize(d, table[nodes[i].number + 1])
    <3>. TAKE i \in 1..n
    <3>1. \A f \in Kept : nodes[i][f] = table[nodes[i].number + 1][f]
      BY <1>9
    <3>. QED  BY <3>1, ContentSizeKept
  <2>. QED  BY <1>4, <1>5, <2>1
<1>11. Total(sizes) < WordSize
  <2>1. \A p \in 1..Total(sizes) : entry_buffer'[p] \in Contents(table)
    <3>. TAKE p \in 1..Total(sizes)
    <3>1. PICK i \in 1..n : i = owner(p) /\ ends[i - 1] < p /\ p =< ends[i]
      BY <1>8
    <3>2. p - ends[i - 1] \in 1..sizes[i]
      BY <1>6, <3>1
    <3>3. PICK t \in 1..Len(table) : t = nodes[i].number + 1 /\ table[t].number = t - 1
      BY <1>9, TableFacts, ZenonT(60)
    <3>4. nodes[i].number = table[t].number
      BY <1>9, <3>3
    <3>5. entry_buffer'[p] \in {table[t].number}
                              \X (1..ContentSize(DirectoryWidths(table), table[t]))
      BY <1>3, <1>10, <3>1, <3>2, <3>3, <3>4
    <3>. QED  BY <3>5, TableFacts DEF Contents
  <2>2. ASSUME NEW p \in 1..Total(sizes), NEW q \in 1..Total(sizes),
               entry_buffer'[p] = entry_buffer'[q]
        PROVE  p = q
    <3>1. nodes[owner(p)].number = nodes[owner(q)].number
          /\ p - ends[owner(p) - 1] = q - ends[owner(q) - 1]
      BY <1>3, <2>2
    <3>2. owner(p) = owner(q)
      BY <1>8, <1>9, <3>1
    <3>3. ends[owner(p) - 1] \in Nat
      BY <1>6, <1>8
    <3>. QED  BY <3>1, <3>2, <3>3
  <2>3. entry_buffer' \in Injection(1..Total(sizes), Contents(table))
    <3>1. entry_buffer' \in [1..Total(sizes) -> Contents(table)]
      BY <1>3, <2>1
    <3>. QED  BY <2>2, <3>1 DEF Injection, IsInjective
  <2>4. Cardinality(1..Total(sizes)) =< Cardinality(Contents(table))
    BY <2>3, ContentsFinite, FS_Injection
  <2>5. Cardinality(1..Total(sizes)) = Total(sizes)
    BY <1>6, FS_Interval
  <2>6. Cardinality(Contents(table)) \in Nat
    BY ContentsFinite, FS_CardinalityType
  <2>. QED  BY <1>6, <2>4, <2>5, <2>6, ContentsAssumption, WordFacts

<1>12. \A i \in 1..n :
           /\ nodes'[i] \in Nodes
           /\ \A f \in Kept : nodes'[i][f] = nodes[i][f]
           /\ nodes'[i].size = sizes[i]
           /\ nodes'[i].index < P
           /\ nodes'[i].block * P + nodes'[i].index = ends[i - 1]
  <2>. TAKE i \in 1..n
  <2>1. nodes'[i] = Placed(nodes[i], ends[i - 1])
    BY <1>2, <1>3
  <2>2. ends[i - 1] \in Word /\ sizes[i] \in Word
    BY <1>6, <1>11, WordFacts DEF Word
  <2>3. ContentSize(super.dirbits, nodes[i]) = sizes[i]
        /\ Pow2[super.block_log2] = P /\ nodes[i] \in Nodes
    BY <1>2, <1>5 DEF d, P
  <2>. QED  BY <1>4, <2>1, <2>2, <2>3, PlacedFacts
<1>13. nodes' \in Seq(Nodes) /\ DOMAIN nodes' = 1..n /\ Len(nodes') = n
  <2>1. nodes' \in [1..n -> Nodes]
    BY <1>2, <1>3, <1>12
  <2>. QED  BY <1>2, <2>1
<1>14. super' = super /\ disabled' = disabled
  BY <1>1
<1>15. SuperTyped' /\ LogarithmOrNone'
  BY <1>1, <1>14 DEF SuperTyped, LogarithmOrNone
<1>16. "number" \in Kept /\ "type" \in Kept /\ "ntype" \in Kept
       /\ Fields \ PlacedFields \subseteq Kept /\ Times \subseteq Kept
  BY FieldNames DEF Kept, PlacedFields, Times
<1>17. Reordered(table)'
  <2>1. \A i \in 1..n : nodes'[i].number = nodes[i].number
    BY <1>12, <1>16
  <2>2. \A i \in 1..n :
            /\ nodes'[i].number + 1 \in DOMAIN table
            /\ \A f \in Kept : nodes'[i][f] = table[nodes'[i].number + 1][f]
    <3>. TAKE i \in 1..n
    <3>1. \A f \in Kept : nodes'[i][f] = nodes[i][f]
      BY <1>12
    <3>2. \A f \in Kept : nodes[i][f] = table[nodes[i].number + 1][f]
      BY <1>9
    <3>3. nodes[i].number + 1 \in DOMAIN table
      BY <1>9, TableFacts
    <3>. QED  BY <2>1, <3>1, <3>2, <3>3
  <2>. QED  BY <1>9, <1>13, <2>1, <2>2 DEF Reordered
<1>18. ASSUME NEW f \in Fields \ PlacedFields
       PROVE  FieldFits(f)'
  <2>1. \A i \in 1..n : Stored(nodes[i], f)' = Stored(nodes[i], f)
    BY <1>12, <1>14, <1>16 DEF Stored
  <2>2. FieldFits(f)
    BY <1>1
  <2>. QED  BY <1>2, <1>13, <1>14, <2>1, <2>2 DEF FieldFits
<1>19. MinimaOfRoot'
  <2>1. ASSUME NEW f \in Times, NEW i \in 1..n, nodes'[i].number = 0
        PROVE  super'.min[f] = nodes'[i][f]
    <3>1. nodes'[i].number = nodes[i].number /\ nodes'[i][f] = nodes[i][f]
      BY <1>12, <1>16
    <3>2. super.min[f] = nodes[i][f]
      BY <1>1, <1>2, <2>1, <3>1 DEF MinimaOfRoot
    <3>. QED  BY <1>14, <3>1, <3>2
  <2>. QED  BY <1>13, <2>1 DEF MinimaOfRoot
<1>20. entry_buffer' \in Seq(Nat \X Nat) /\ Len(entry_buffer') = Total(sizes)
  <2>1. \A p \in 1..Total(sizes) : entry_buffer'[p] \in Nat \X Nat
    <3>. TAKE p \in 1..Total(sizes)
    <3>1. PICK i \in 1..n : i = owner(p) /\ ends[i - 1] < p /\ ends[i - 1] \in Nat
                             /\ nodes[i].number \in Nat
      BY <1>6, <1>8, <1>9
    <3>. QED  BY <1>3, <3>1
  <2>2. entry_buffer' \in [1..Total(sizes) -> Nat \X Nat]
    BY <1>3, <2>1
  <2>3. PICK t \in Nat : t = Total(sizes)
    BY <1>6
  <2>. QED  BY <2>2, <2>3
<1>21. ASSUME NEW i \in 1..n
       PROVE  /\ Place(nodes[i])' = ends[i - 1]
              /\ Place(nodes[i])' + nodes'[i].size =< Len(entry_buffer')
              /\ \A k \in 1..nodes'[i].size :
                    entry_buffer'[Place(nodes[i])' + k] = <<nodes'[i].number, k>>
  <2>1. Place(nodes[i])' = ends[i - 1]
    BY <1>12, <1>14 DEF Place, P
  <2>2. ends[i - 1] + nodes'[i].size =< Len(entry_buffer')
    BY <1>6, <1>12, <1>20
  <2>3. ASSUME NEW k \in 1..sizes[i]
        PROVE  entry_buffer'[ends[i - 1] + k] = <<nodes'[i].number, k>>
    <3>1. PICK p \in 1..Total(sizes) : p = ends[i - 1] + k /\ ends[i - 1] < p
                                       /\ p =< ends[i] /\ p - ends[i - 1] = k
      <4>1. PICK a \in Nat, b \in Nat, c \in Nat, t \in Nat :
                /\ a = ends[i - 1] /\ b = ends[i] /\ c = sizes[i] /\ t = Total(sizes)
                /\ b = a + c /\ b =< t
        BY <1>6, SMTT(30)
      <4>2. a + k \in 1..t /\ a < a + k /\ a + k =< b /\ (a + k) - a = k
        BY <4>1
      <4>. QED  BY <4>1, <4>2
    <3>2. owner(p) = i
      BY <1>7, <3>1
    <3>3. nodes'[i].number = nodes[i].number
      BY <1>12, <1>16
    <3>. QED  BY <1>3, <3>1, <3>2, <3>3
  <2>. QED  BY <1>12, <2>1, <2>2, <2>3
<1>22. ASSUME NEW i \in 1..n, Directories(nodes)' # {}
       PROVE  ends[i - 1] < Total(sizes)
  <2>1. PICK j \in 1..n : nodes'[j].type = Directory
    BY <1>13, <1>22 DEF Directories
  <2>2. ASSUME NEW k \in 1..n
        PROVE  /\ nodes[k].type = Regular <=> nodes[k].ntype < 3
               /\ nodes[k].type = Directory <=> nodes[k].ntype = 3
               /\ nodes[k].type \in {Regular, Directory, SymbolicLink}
               /\ nodes[k].ntype \in 1..4
               /\ nodes[k].type = table[nodes[k].number + 1].type
    <3>1. PICK t \in 1..Len(table) : t = nodes[k].number + 1
      BY <1>9
    <3>2. nodes[k].type = table[t].type /\ nodes[k].ntype = table[t].ntype
      BY <1>9, <1>16, <3>1
    <3>3. nodes[k] \in Nodes
      BY <1>2
    <3>4. nodes[k].type \in {Regular, Directory, SymbolicLink}
          /\ nodes[k].ntype \in 1..4
      BY <3>3 DEF Nodes
    <3>. QED  BY <3>1, <3>2, <3>4, TableFacts
  <2>3. nodes[j].type = Directory
    BY <1>12, <1>16, <2>1
  <2>4. Directories(table) # {}
    <3>1. PICK t \in 1..Len(table) : t = nodes[j].number + 1 /\ table[t].type = Directory
      <4>1. nodes[j].number + 1 \in 1..Len(table)
        BY <1>9
      <4>2. table[nodes[j].number + 1].type = Directory
        BY <2>2, <2>3
      <4>. QED  BY <4>1, <4>2
    <3>. QED  BY <3>1, TableFacts DEF Directories
  <2>5. \A k \in 1..n : nodes[k].type # Regular => sizes[k] >= 1
    <3>1. d.parent >= 1
      BY <1>4, <2>4, DirectoryWidthsFacts
    <3>. TAKE k \in 1..n
    <3>2. nodes[k] \in Nodes /\ sizes[k] = ContentSize(d, nodes[k])
      BY <1>2, <1>5
    <3>3. nodes[k].type \in {Regular, Directory, SymbolicLink}
      BY <2>2
    <3>4. nodes[k].type # Regular => ContentSize(d, nodes[k]) >= 1
      BY <1>4, <3>1, <3>2, <3>3, ContentSizeFacts
    <3>. QED  BY <3>2, <3>4
  <2>6. CASE i =< j
    <3>1. i - 1 \in 0..n /\ j - 1 \in 0..n /\ i - 1 =< j - 1
      BY <1>2, <2>6
    <3>2. ends[i - 1] =< ends[j - 1] /\ sizes[j] >= 1
      BY <1>6, <2>3, <2>5, <3>1 DEF Regular, Directory
    <3>. QED  BY <1>6, <3>2
  <2>7. CASE j < i
    <3>1. nodes[j].ntype =< nodes[i].ntype
      BY <1>1, <1>2, <2>7
    <3>4. nodes[j].ntype = 3 /\ nodes[i].ntype \in 1..4
      BY <2>2, <2>3
    <3>5. ~(nodes[i].ntype < 3)
      BY <3>1, <3>4
    <3>2. nodes[i].type # Regular
      BY <2>2, <3>5
    <3>3. sizes[i] >= 1
      BY <2>5, <3>2
    <3>. QED  BY <1>6, <3>3
  <2>. QED  BY <1>2, <2>6, <2>7
<1>23. Filled'
  BY <1>11, <1>12, <1>13, <1>14, <1>20, <1>21, <1>22, SMTT(30) DEF Filled, P
<1>. QED  BY <1>1, <1>14, <1>15, <1>17, <1>18, <1>19, <1>23
          DEF Known, FromSort, FromFill, FromWidths2, FromCompress, FromWidths3,
              FromBlockTable, FromInodes, FromInodeTable, FromWritten

(***************************************************************************)
(* The second pass                                                         *)
(***************************************************************************)
LEMMA SuperFacts ==
    ASSUME SuperTyped
    PROVE  /\ super.block_log2 \in Nat /\ super.block_log2 \in 0..MaxBlockLog2
           /\ super.block_size \in Nat \ {0}
           /\ Pow2[super.block_log2] \in Nat \ {0}
           /\ Pow2[super.block_log2] < WordSize
           /\ super.blocks \in Nat
           /\ super.min.ctime \in Word /\ super.min.mtime \in Word
           /\ \A f \in Fields : super.bits[f] \in 0..WordBits
<1>1. super.block_log2 \in 0..MaxBlockLog2
  BY DEF SuperTyped
<1>2. super.block_log2 \in Nat /\ super.block_log2 + 1 =< WordBits
      /\ WordBits \in Nat
  BY <1>1, BlockSizesAssumption
<1>3. Pow2[super.block_log2 + 1] =< WordSize
      /\ Pow2[super.block_log2 + 1] = 2 * Pow2[super.block_log2]
      /\ Pow2[super.block_log2] \in Nat \ {0} /\ WordSize \in Nat
  BY <1>2, Pow2Grows, Pow2Facts DEF WordSize
<1>4. Pow2[super.block_log2] < WordSize
  BY <1>3
<1>. QED  BY <1>1, <1>2, <1>3, <1>4 DEF SuperTyped

\* A minimum or a width of a time does not change with the other fields.
LEMMA FieldStillFits ==
    ASSUME NEW f \in Fields, FieldFits(f), super'.bits[f] = super.bits[f],
           super'.min.ctime = super.min.ctime, super'.min.mtime = super.min.mtime,
           UNCHANGED <<nodes, disabled>>
    PROVE  FieldFits(f)'
<1>1. nodes' = nodes /\ disabled' = disabled
  OBVIOUS
<1>2. \A i \in DOMAIN nodes : Stored(nodes[i], f)' = Stored(nodes[i], f)
  BY <1>1 DEF Stored
<1>. QED  BY <1>1, <1>2 DEF FieldFits

LEMMA Widths2Inv ==
    ASSUME NEW table \in NodeTables, Known(table), Widths2
    PROVE  Known(table)'
<1>. DEFINE bits == [f \in Fields |-> IF f \in PlacedFields
                                      THEN blog(LargestField(f))
                                      ELSE super.bits[f]]
            count == (Len(entry_buffer) + super.block_size - 1)
                     \div Pow2[super.block_log2]
<1>1. /\ phase = "widths 2" /\ phase' = "compress"
      /\ UNCHANGED <<disabled, nodes, entry_buffer, blocks, tables>>
      /\ disabled \in Disabled /\ SuperTyped /\ LogarithmOrNone
      /\ Reordered(table) /\ nodes \in Seq(Nodes)
      /\ \A f \in Fields \ PlacedFields : FieldFits(f)
      /\ MinimaOfRoot
      /\ super.dirbits = DirectoryWidths(table)
      /\ Filled
  BY DEF Known, Widths2, Reordered, FromSort, FromFill, FromWidths2
<1>2. super' = [super EXCEPT !.bits = bits, !.blocks = count]
  BY DEF Widths2
<1>3. nodes' = nodes /\ disabled' = disabled /\ entry_buffer' = entry_buffer
  BY <1>1
<1>4. \A f \in PlacedFields : f \notin disabled /\ f \in Fields /\ f \notin Times
  BY <1>1, DisabledAssumption, FieldNames DEF PlacedFields, OptionalFields, Times
<1>5. \A f \in PlacedFields :
          /\ bits[f] = blog(LargestField(f)) /\ bits[f] \in 0..WordBits
          /\ \A i \in DOMAIN nodes :
                bits[f] >= 1 /\ nodes[i][f] < Pow2[bits[f]]
  <2>. TAKE f \in PlacedFields
  <2>1. /\ LargestField(f) \in Int /\ LargestField(f) < WordSize
        /\ \A i \in DOMAIN nodes :
              nodes[i][f] \in Nat /\ nodes[i][f] =< LargestField(f)
    BY <1>1, <1>4, LargestFieldFacts
  <2>2. bits[f] = blog(LargestField(f))
    BY <1>4
  <2>. HIDE DEF bits
  <2>3. PICK z \in Int : z = LargestField(f) /\ z < WordSize
    BY <2>1
  <2>4. /\ z < 0 => blog(z) = 0
        /\ z >= 0 => blog(z) \in 1..WordBits /\ z < Pow2[blog(z)]
    BY <2>3, BlogFacts
  <2>5. bits[f] \in 0..WordBits
    BY <2>2, <2>3, <2>4, WordFacts
  <2>6. ASSUME NEW i \in DOMAIN nodes
        PROVE  bits[f] >= 1 /\ nodes[i][f] < Pow2[bits[f]]
    <3>1. PICK y \in Nat : y = nodes[i][f] /\ y =< z
      BY <2>1, <2>3
    <3>2. blog(z) \in 1..WordBits /\ z < Pow2[blog(z)]
      BY <2>4, <3>1
    <3>3. Pow2[blog(z)] \in Nat \ {0}
      BY <3>2, WordFacts, Pow2Facts
    <3>. QED  BY <2>2, <2>3, <3>1, <3>2, <3>3, WordFacts
  <2>. QED  BY <2>2, <2>5, <2>6
<1>6. \A f \in Fields \ PlacedFields : bits[f] = super.bits[f]
  OBVIOUS
<1>7. bits \in [Fields -> 0..WordBits]
  <2>1. \A f \in Fields : bits[f] \in 0..WordBits
    <3>1. \A f \in Fields : super.bits[f] \in 0..WordBits
      BY <1>1, SuperFacts
    <3>. HIDE DEF bits
    <3>. QED  BY <1>5, <1>6, <3>1
  <2>2. DOMAIN bits = Fields /\ bits = [f \in Fields |-> bits[f]]
    OBVIOUS
  <2>. HIDE DEF bits
  <2>. QED  BY <2>1, <2>2
<1>8. count \in Nat
  <2>1. PICK l \in Nat, s \in Nat \ {0}, p \in Nat \ {0} :
            l = Len(entry_buffer) /\ s = super.block_size
            /\ p = Pow2[super.block_log2]
    BY <1>1, SuperFacts, LenProperties DEF Filled
  <2>2. l + s - 1 \in Nat
    BY <2>1
  <2>3. (l + s - 1) \div p \in Nat
    BY <2>2, QuotientBounds
  <2>. QED  BY <2>1, <2>3
<1>. HIDE DEF bits, count
<1>9. /\ super'.bits = bits /\ super'.blocks = count
      /\ super'.block_size = super.block_size
      /\ super'.block_log2 = super.block_log2
      /\ super'.dirbits = super.dirbits /\ super'.min = super.min
  BY <1>1, <1>2 DEF SuperTyped
<1>10. SuperTyped'
  BY <1>1, <1>2, <1>7, <1>8 DEF SuperTyped
<1>11. LogarithmOrNone'
  BY <1>1, <1>9 DEF LogarithmOrNone
<1>12. Reordered(table)'
  <2>1. Reordered(table)
    BY <1>1
  <2>. QED  BY <1>3, <2>1 DEF Reordered
<1>13. MinimaOfRoot'
  BY <1>1, <1>3, <1>9 DEF MinimaOfRoot
<1>14. Filled'
  <2>1. \A i \in DOMAIN nodes : Place(nodes[i])' = Place(nodes[i])
    BY <1>3, <1>9 DEF Place
  <2>2. Directories(nodes)' = Directories(nodes)
    BY <1>3 DEF Directories
  <2>3. Filled
    BY <1>1
  <2>. QED  BY <1>3, <1>9, <2>1, <2>2, <2>3 DEF Filled
<1>15. ASSUME NEW f \in Fields \ PlacedFields
       PROVE  FieldFits(f)'
  <2>1. FieldFits(f) /\ super'.bits[f] = super.bits[f]
    BY <1>1, <1>6, <1>9
  <2>. QED  BY <1>3, <1>9, <2>1, FieldStillFits
<1>16. ASSUME NEW f \in PlacedFields
       PROVE  FieldFits(f)'
  <2>1. f \notin disabled' /\ super'.bits[f] = bits[f]
    BY <1>3, <1>4, <1>9
  <2>2. ASSUME NEW i \in DOMAIN nodes
        PROVE  Stored(nodes[i], f)' = nodes[i][f]
    BY <1>3, <1>4 DEF Stored, Times
  <2>. QED  BY <1>3, <1>5, <2>1, <2>2 DEF FieldFits
<1>17. super'.blocks = (Len(entry_buffer') + super'.block_size - 1)
                       \div Pow2[super'.block_log2]
  BY <1>3, <1>9 DEF count
<1>18. super'.dirbits = DirectoryWidths(table)
  BY <1>1, <1>9
<1>. QED  BY <1>1, <1>3, <1>10, <1>11, <1>12, <1>13, <1>14, <1>15, <1>16, <1>17,
             <1>18
          DEF Known, FromSort, FromFill, FromWidths2, FromCompress, FromWidths3,
              FromBlockTable, FromInodes, FromInodeTable, FromWritten

(***************************************************************************)
(* The blocks                                                              *)
(***************************************************************************)
\* So many blocks of size p hold l bytes, and not one fewer.
LEMMA BlockCount ==
    ASSUME NEW l \in Nat, NEW p \in Nat \ {0}
    PROVE  LET count == (l + p - 1) \div p
           IN  /\ count \in Nat
               /\ \A b \in 1..count : /\ p * (b - 1) \in Nat
                                      /\ p * (b - 1) + 1 =< l
                                      /\ b < count => p * (b - 1) + p =< l
               /\ l =< p * count
<1>. PICK a \in Nat : a = l + p - 1
  OBVIOUS
<1>. PICK q \in Nat, r \in Nat : q = a \div p /\ r = a % p /\ r < p /\ q * p + r = a
  <2>1. a \div p \in 0..a /\ a % p \in 0..a /\ a % p < p
        /\ (a \div p) * p + (a % p) = a
    BY QuotientBounds
  <2>. QED  BY <2>1
<1>1. ASSUME NEW b \in 1..q
      PROVE  p * (b - 1) \in Nat /\ p * (b - 1) + 1 =< l
             /\ (b < q => p * (b - 1) + p =< l)
  <2>1. PICK c \in Nat, e \in Nat : b = c + 1 /\ q = b + e
    <3>1. b - 1 \in Nat /\ q - b \in Nat /\ b = (b - 1) + 1 /\ q = b + (q - b)
      OBVIOUS
    <3>. QED  BY <3>1
  <2>2. q * p = p * c + p + p * e
    <3>1. (c + 1 + e) * p = p * c + p + p * e
      OBVIOUS
    <3>. QED  BY <2>1, <3>1
  <2>3. PICK x \in Nat, y \in Nat : x = p * c /\ y = p * e
    OBVIOUS
  <2>4. b < q => y >= p
    <3>1. ASSUME b < q
          PROVE  p * e >= p
      <4>1. e \in Nat \ {0}
        BY <2>1, <3>1
      <4>2. e * p >= p
        BY <4>1, TimesGrows
      <4>. QED  BY <4>2
    <3>. QED  BY <2>3, <3>1
  <2>5. b - 1 = c /\ x + p + y + r = l + p - 1
    BY <2>1, <2>2, <2>3
  <2>. QED  BY <2>3, <2>4, <2>5
<1>2. l =< p * q
  <2>1. PICK x \in Nat : x = p * q
    OBVIOUS
  <2>2. x + r = l + p - 1 /\ r < p
    BY <2>1
  <2>. QED  BY <2>1, <2>2
<1>. QED  BY <1>1, <1>2

\* If no block is beyond the contents, the block size is a power of two.
LEMMA NoBlockBeyond ==
    ASSUME NEW l \in Nat, NEW s \in Nat, s >= 3,
           \A b \in 1..(l + s - 1) : Smaller(s, l - s * (b - 1)) >= 0
    PROVE  FALSE
<1>1. PICK c \in Nat : c = l + s - 2 /\ c >= l + 1
  OBVIOUS
<1>2. c + 1 \in 1..(l + s - 1) /\ (c + 1) - 1 = c
  BY <1>1
<1>3. Smaller(s, l - s * c) >= 0
  BY <1>2
<1>4. s * c \in Nat /\ s * c > l
  <2>1. c \in Nat \ {0} /\ s \in Nat \ {0}
    BY <1>1
  <2>2. s * c >= c /\ s * c \in Nat
    BY <2>1, TimesGrows
  <2>. QED  BY <1>1, <2>2
<1>. QED  BY <1>3, <1>4 DEF Smaller

LEMMA FunctionIsSeq ==
    ASSUME NEW n \in Nat, NEW S, NEW f \in [1..n -> S]
    PROVE  f \in Seq(S) /\ Len(f) = n /\ DOMAIN f = 1..n
OBVIOUS

LEMMA CompressInv ==
    ASSUME NEW table \in NodeTables, Known(table), Compress
    PROVE  Known(table)'
<1>1. /\ phase = "compress" /\ phase' = "widths 3"
      /\ UNCHANGED <<disabled, nodes, super, entry_buffer, tables>>
      /\ disabled \in Disabled /\ SuperTyped /\ LogarithmOrNone
      /\ Reordered(table)
      /\ \A f \in Fields : FieldFits(f)
      /\ MinimaOfRoot
      /\ super.dirbits = DirectoryWidths(table)
      /\ Filled
      /\ super.blocks = (Len(entry_buffer) + super.block_size - 1)
                            \div Pow2[super.block_log2]
      /\ \A b \in 1..super.blocks : BlockBytes(b) >= 0
  BY DEF Known, Compress, FromSort, FromFill, FromWidths2, FromCompress
<1>. DEFINE l == Len(entry_buffer)
            s == super.block_size
            B == super.blocks
<1>2. /\ l \in Nat /\ l < WordSize /\ s \in Nat \ {0} /\ B \in Nat
      /\ super.block_log2 \in Nat
  BY <1>1, SuperFacts, LenProperties DEF Filled
<1>3. s = Pow2[super.block_log2]
  <2>1. CASE super.block_log2 = 0 /\ s >= 3
    <3>1. l + s - 1 \in Nat /\ (l + s - 1) \div 1 = l + s - 1
      BY <1>2
    <3>2. B = l + s - 1
      <4>1. B = (l + s - 1) \div Pow2[super.block_log2]
        BY <1>1
      <4>2. Pow2[super.block_log2] = 1
        BY <2>1, Pow2Values
      <4>. HIDE DEF l, s, B
      <4>. QED  BY <3>1, <4>1, <4>2
    <3>3. \A b \in 1..(l + s - 1) : Smaller(s, l - s * (b - 1)) >= 0
      BY <1>1, <3>2 DEF BlockBytes
    <3>. HIDE DEF l, s
    <3>4. FALSE
      BY <1>2, <2>1, <3>3, NoBlockBeyond
    <3>. QED  BY <3>4
  <2>. QED  BY <1>1, <2>1 DEF LogarithmOrNone
<1>4. /\ \A b \in 1..B : /\ s * (b - 1) \in Nat /\ s * (b - 1) + 1 =< l
                         /\ b < B => s * (b - 1) + s =< l
  <2>1. B = (l + s - 1) \div s
    BY <1>1, <1>3
  <2>. HIDE DEF l, s, B
  <2>. QED  BY <1>2, <2>1, BlockCount
<1>. DEFINE full(b) == BlockBytes(b)
<1>5. \A b \in 1..B : full(b) \in Nat /\ full(b) >= 1 /\ full(b) =< s
                      /\ full(b) \in Word
  <2>. TAKE b \in 1..B
  <2>1. full(b) = Smaller(s, l - s * (b - 1))
    BY DEF BlockBytes
  <2>2. PICK x \in Nat : x = s * (b - 1) /\ x + 1 =< l
    BY <1>4
  <2>. HIDE DEF l, s, B, full
  <2>. QED  BY <1>2, <2>1, <2>2, WordFacts DEF Smaller, Word
<1>6. PICK limit \in [1..B -> CompressedSizes] : blocks' =
          LET csize == [b \in 1..B |-> Smaller(limit[b], full(b))]
          IN  [b \in 1..B |-> [offset |-> Sums(csize)[b - 1],
                               size |-> full(b),
                               compressed_size |-> csize[b]]]
  BY DEF Compress
<1>. HIDE DEF full
<1>. DEFINE csize == [b \in 1..B |-> Smaller(limit[b], full(b))]
<1>7. blocks' = [b \in 1..B |-> [offset |-> Sums(csize)[b - 1],
                                 size |-> full(b),
                                 compressed_size |-> csize[b]]]
  BY <1>6
<1>. HIDE DEF l, s, B
<1>8. \A b \in 1..B : /\ csize[b] \in Nat /\ csize[b] >= 1 /\ csize[b] =< s
                      /\ csize[b] \in Word
  <2>. TAKE b \in 1..B
  <2>1. full(b) \in Nat /\ full(b) >= 1 /\ full(b) =< s /\ full(b) \in Word
    BY <1>5
  <2>2. csize[b] = Smaller(limit[b], full(b))
    OBVIOUS
  <2>3. limit[b] \in Nat \ {0}
    BY <1>6, BlockSizesAssumption
  <2>. HIDE DEF csize
  <2>. QED  BY <1>2, <2>1, <2>2, <2>3, WordFacts DEF Smaller, Word
<1>9. csize \in Seq(Nat) /\ Len(csize) = B
  <2>1. csize \in [1..B -> Nat]
    <3>1. \A b \in 1..B : csize[b] \in Nat
      BY <1>8
    <3>2. csize = [b \in 1..B |-> csize[b]]
      OBVIOUS
    <3>. HIDE DEF csize
    <3>. QED  BY <3>1, <3>2
  <2>. HIDE DEF csize
  <2>. QED  BY <1>2, <2>1
<1>. HIDE DEF csize
<1>10. /\ Sums(csize) \in [0..B -> Nat] /\ Sums(csize)[0] = 0
       /\ \A k \in 1..B : Sums(csize)[k] = Sums(csize)[k - 1] + csize[k]
       /\ \A i, k \in 0..B : i =< k => Sums(csize)[i] =< Sums(csize)[k]
  <2>1. /\ Sums(csize) \in [0..B -> Nat] /\ Sums(csize)[0] = 0
        /\ \A k \in 1..B : Sums(csize)[k] = Sums(csize)[k - 1] + csize[k]
    BY <1>9, SumsFacts
  <2>2. \A i, k \in 0..B : i =< k => Sums(csize)[i] =< Sums(csize)[k]
    BY <1>9, SumsGrow
  <2>. QED  BY <2>1, <2>2
<1>11. \A k \in 0..B : Sums(csize)[k] =< s * k
  <2>. PICK T : T = {k \in 0..B : Sums(csize)[k] =< s * k}
    OBVIOUS
  <2>1. 0 \in T
    BY <1>2, <1>10
  <2>2. ASSUME NEW k \in 1..B, k - 1 \in T
        PROVE  k \in T
    <3>1. PICK x \in Nat, y \in Nat, c \in Nat :
              x = Sums(csize)[k - 1] /\ y = Sums(csize)[k] /\ c = csize[k]
              /\ y = x + c /\ c =< s
      <4>1. k - 1 \in 0..B /\ k \in 0..B
        BY <1>2
      <4>. QED  BY <1>8, <1>10, <4>1
    <3>2. x =< s * (k - 1) /\ k \in 0..B
      BY <2>2, <3>1
    <3>3. s * k = s * (k - 1) + s
      BY <1>2
    <3>4. PICK z \in Int : z = s * (k - 1)
      BY <1>2
    <3>5. y =< s * k
      BY <1>2, <3>1, <3>2, <3>3, <3>4
    <3>. QED  BY <3>1, <3>2, <3>5
  <2>. QED  BY <1>2, <2>1, <2>2, Upwards
<1>12. \A b \in 1..B : Sums(csize)[b - 1] \in Word
  <2>. TAKE b \in 1..B
  <2>1. b - 1 \in 0..B
    BY <1>2
  <2>2. PICK x \in Nat, y \in Nat : x = Sums(csize)[b - 1] /\ y = s * (b - 1)
            /\ x =< y /\ y + 1 =< l
    BY <1>4, <1>10, <1>11, <2>1
  <2>. QED  BY <1>2, <2>2, WordFacts DEF Word
<1>13. \A b \in 1..B : /\ blocks'[b].offset = Sums(csize)[b - 1]
                       /\ blocks'[b].size = full(b)
                       /\ blocks'[b].compressed_size = csize[b]
                       /\ blocks'[b] \in [offset : Word, size : Word,
                                          compressed_size : Word]
  BY <1>5, <1>7, <1>8, <1>12
<1>14. blocks' \in Seq([offset : Word, size : Word, compressed_size : Word])
       /\ Len(blocks') = B
  <2>. PICK R : R = [offset : Word, size : Word, compressed_size : Word]
    OBVIOUS
  <2>1. blocks' \in [1..B -> R]
    BY <1>7, <1>13
  <2>2. B \in Nat
    BY <1>2
  <2>3. blocks' \in Seq(R) /\ Len(blocks') = B
    BY <2>1, <2>2, FunctionIsSeq
  <2>. QED  BY <2>3
<1>15. ASSUME NEW b \in 1..B, NEW c \in 1..B, b < c
       PROVE  blocks'[b].offset < blocks'[c].offset
  <2>1. b \in 0..B /\ c - 1 \in 0..B /\ b =< c - 1 /\ b - 1 \in 0..B
    BY <1>2, <1>15
  <2>2. PICK x \in Nat, y \in Nat, z \in Nat, w \in Nat :
            /\ x = Sums(csize)[b - 1] /\ y = Sums(csize)[b]
            /\ z = Sums(csize)[c - 1] /\ w = csize[b]
            /\ y = x + w /\ y =< z /\ w >= 1
    BY <1>8, <1>10, <2>1
  <2>. QED  BY <1>13, <2>2
<1>16. super' = super /\ nodes' = nodes /\ disabled' = disabled
       /\ entry_buffer' = entry_buffer
  BY <1>1
<1>17. Compressed'
  <2>1. \A b \in 1..B : BlockBytes(b)' = full(b)
    BY <1>16 DEF BlockBytes, full
  <2>2. super'.block_size = Pow2[super'.block_log2] /\ super'.blocks = B
    BY <1>3, <1>16 DEF s, B
  <2>. QED  BY <1>5, <1>8, <1>13, <1>14, <1>15, <2>1, <2>2 DEF Compressed
<1>18. SuperTyped' /\ LogarithmOrNone'
  BY <1>1, <1>16 DEF SuperTyped, LogarithmOrNone
<1>19. Reordered(table)'
  <2>1. Reordered(table)
    BY <1>1
  <2>. QED  BY <1>16, <2>1 DEF Reordered
<1>20. \A f \in Fields : FieldFits(f)'
  BY <1>1, <1>16, FieldStillFits
<1>21. MinimaOfRoot'
  BY <1>1, <1>16 DEF MinimaOfRoot
<1>22. Filled'
  <2>1. Filled
    BY <1>1
  <2>2. Directories(nodes)' = Directories(nodes)
    BY <1>16 DEF Directories
  <2>. QED  BY <1>16, <2>1, <2>2 DEF Filled, Place
<1>23. PlacedFields \subseteq Fields
  BY FieldNames DEF PlacedFields
<1>. QED  BY <1>1, <1>16, <1>17, <1>18, <1>19, <1>20, <1>21, <1>22, <1>23
          DEF Known, FromSort, FromFill, FromWidths2, FromCompress, FromWidths3,
              FromBlockTable, FromInodes, FromInodeTable, FromWritten

(***************************************************************************)
(* The third pass                                                          *)
(***************************************************************************)
\* What is known from the third pass on, whatever is written.
Settled(table) ==
    /\ disabled \in Disabled /\ SuperTyped /\ LogarithmOrNone
    /\ Reordered(table)
    /\ \A f \in Fields : FieldFits(f)
    /\ MinimaOfRoot
    /\ super.dirbits = DirectoryWidths(table)
    /\ Filled
    /\ super.blocks = (Len(entry_buffer) + super.block_size - 1)
                      \div Pow2[super.block_log2]
    /\ Compressed

LEMMA KnownSettled ==
    ASSUME NEW table, Known(table), phase \in FromWidths3
    PROVE  Settled(table)
<1>1. phase \in FromCompress /\ phase \in FromWidths2 /\ phase \in FromSort
  BY DEF FromSort, FromFill, FromWidths2, FromCompress
<1>. QED  BY <1>1 DEF Known, Settled

LEMMA SettledKept ==
    ASSUME NEW table, Settled(table),
           UNCHANGED <<disabled, nodes, super, entry_buffer, blocks>>
    PROVE  Settled(table)'
<1>1. super' = super /\ nodes' = nodes /\ disabled' = disabled
      /\ entry_buffer' = entry_buffer /\ blocks' = blocks
  OBVIOUS
<1>2. SuperTyped' /\ LogarithmOrNone'
  BY <1>1 DEF Settled, SuperTyped, LogarithmOrNone
<1>3. Reordered(table)'
  <2>1. Reordered(table)
    BY DEF Settled
  <2>. QED  BY <1>1, <2>1 DEF Reordered
<1>4. \A f \in Fields : FieldFits(f)'
  BY <1>1, FieldStillFits DEF Settled
<1>5. MinimaOfRoot'
  BY <1>1 DEF Settled, MinimaOfRoot
<1>6. Filled'
  <2>1. Filled
    BY DEF Settled
  <2>2. Directories(nodes)' = Directories(nodes)
    BY <1>1 DEF Directories
  <2>. QED  BY <1>1, <2>1, <2>2 DEF Filled, Place
<1>7. Compressed'
  <2>1. Compressed
    BY DEF Settled
  <2>. QED  BY <1>1, <2>1 DEF Compressed, BlockBytes
<1>8. /\ disabled' \in Disabled /\ super'.dirbits = DirectoryWidths(table)
      /\ super'.blocks = (Len(entry_buffer') + super'.block_size - 1)
                         \div Pow2[super'.block_log2]
  BY <1>1 DEF Settled
<1>. QED  BY <1>2, <1>3, <1>4, <1>5, <1>6, <1>7, <1>8 DEF Settled

\* The numbers of the blocks are a finite set.
LEMMA BlockNumbers ==
    ASSUME NEW n \in Nat, n >= 1, NEW f \in [1..n -> Word]
    PROVE  LET S == {f[b] : b \in 1..n}
           IN  /\ Max(S) \in Word /\ Min(S) \in Word
               /\ \A b \in 1..n : Min(S) =< f[b] /\ f[b] =< Max(S)
<1>. DEFINE S == {f[b] : b \in 1..n}
<1>1. S \subseteq Word /\ S # {}
  <2>1. 1 \in 1..n
    OBVIOUS
  <2>. QED  BY <2>1
<1>2. IsFiniteSet(S)
  BY FiniteList
<1>3. \A b \in 1..n : f[b] \in S
  OBVIOUS
<1>. HIDE DEF S
<1>4. S \subseteq Int
  BY <1>1, WordFacts
<1>5. /\ Max(S) \in S /\ \A z \in S : z =< Max(S)
      /\ Min(S) \in S /\ \A z \in S : Min(S) =< z
  BY <1>1, <1>2, <1>4, MaxMin
<1>6. Max(S) \in Word /\ Min(S) \in Word
      /\ \A b \in 1..n : Min(S) =< f[b] /\ f[b] =< Max(S)
  BY <1>1, <1>3, <1>5
<1>. QED  BY <1>6 DEF S

LEMMA Widths3Inv ==
    ASSUME NEW table \in NodeTables, Known(table), Widths3
    PROVE  Known(table)'
<1>. DEFINE offsets == {blocks[b].offset : b \in DOMAIN blocks}
            csizes == {blocks[b].compressed_size : b \in DOMAIN blocks}
            bits == [offset |-> blog(Max(offsets)),
                     compressed_size |-> blog(Max(csizes) - Min(csizes)),
                     size |-> blog(blocks[super.blocks].size)]
            B == super.blocks
<1>1. /\ phase = "widths 3" /\ phase' = "block table" /\ super.blocks > 0
      /\ next' = 1
      /\ UNCHANGED <<disabled, nodes, entry_buffer, blocks, block_buffer,
                     inode_buffer>>
  BY DEF Widths3
<1>2. /\ super' = [super EXCEPT !.blockbits = bits,
                                !.min.compressed_size = Min(csizes)]
      /\ bitbuffer' = bitbuffer_init(Bytes(
            super.blocks * (bits.offset + bits.compressed_size) + bits.size))
  BY DEF Widths3
<1>3. Settled(table)
  BY <1>1, KnownSettled DEF FromWidths3
<1>4. SuperTyped /\ LogarithmOrNone /\ Compressed
  BY <1>3 DEF Settled
<1>5. /\ B \in Nat /\ B >= 1 /\ DOMAIN blocks = 1..B
      /\ \A b \in 1..B : /\ blocks[b].offset \in Word
                         /\ blocks[b].compressed_size \in Word
                         /\ blocks[b].size \in Word
  <2>1. B \in Nat /\ B >= 1
    <3>1. PICK k \in Nat : k = super.blocks
      BY <1>4, SuperFacts
    <3>2. k > 0
      BY <1>1, <3>1
    <3>3. k >= 1
      BY <3>2
    <3>. QED  BY <3>1, <3>3
  <2>2. blocks \in Seq([offset : Word, size : Word, compressed_size : Word])
        /\ Len(blocks) = B
    BY <1>4 DEF Compressed
  <2>3. DOMAIN blocks = 1..B
        /\ \A b \in 1..B :
              blocks[b] \in [offset : Word, size : Word, compressed_size : Word]
    <3>. HIDE DEF B
    <3>. QED  BY <2>2, LenProperties
  <2>. HIDE DEF B
  <2>. QED  BY <2>1, <2>3
<1>. HIDE DEF B
<1>6. /\ Max(offsets) \in Word
      /\ \A b \in 1..B : blocks[b].offset =< Max(offsets)
  <2>1. PICK f \in [1..B -> Word] : f = [b \in 1..B |-> blocks[b].offset]
    BY <1>5
  <2>2. {f[b] : b \in 1..B} = offsets
    BY <1>5, <2>1
  <2>. HIDE DEF offsets
  <2>3. Max(offsets) \in Word /\ \A b \in 1..B : f[b] =< Max(offsets)
    BY <1>5, <2>2, BlockNumbers
  <2>. QED  BY <2>1, <2>3
<1>7. /\ Max(csizes) \in Word /\ Min(csizes) \in Word
      /\ \A b \in 1..B : /\ Min(csizes) =< blocks[b].compressed_size
                         /\ blocks[b].compressed_size =< Max(csizes)
  <2>1. PICK f \in [1..B -> Word] : f = [b \in 1..B |-> blocks[b].compressed_size]
    BY <1>5
  <2>2. {f[b] : b \in 1..B} = csizes
    BY <1>5, <2>1
  <2>. HIDE DEF csizes
  <2>3. /\ Max(csizes) \in Word /\ Min(csizes) \in Word
        /\ \A b \in 1..B : Min(csizes) =< f[b] /\ f[b] =< Max(csizes)
    BY <1>5, <2>2, BlockNumbers
  <2>. QED  BY <2>1, <2>3
<1>. HIDE DEF offsets, csizes
<1>8. \A z \in Int : 0 =< z /\ z < WordSize =>
          blog(z) \in 1..WordBits /\ z < Pow2[blog(z)] /\ Pow2[blog(z)] \in Nat
  <2>1. \A z \in Int : 0 =< z /\ z < WordSize =>
            blog(z) \in 1..WordBits /\ z < Pow2[blog(z)]
    BY BlogFacts
  <2>2. \A k \in 1..WordBits : Pow2[k] \in Nat
    <3>1. \A k \in 1..WordBits : k \in Nat
      OBVIOUS
    <3>. QED  BY <3>1, Pow2Facts
  <2>. QED  BY <2>1, <2>2
<1>9. /\ bits.offset \in 0..WordBits
      /\ \A b \in 1..B : blocks[b].offset < Pow2[bits.offset]
  <2>1. PICK z \in Int : z = Max(offsets) /\ 0 =< z /\ z < WordSize
            /\ bits.offset = blog(z)
    BY <1>6, WordFacts DEF Word
  <2>2. blog(z) \in 1..WordBits /\ z < Pow2[blog(z)] /\ Pow2[blog(z)] \in Nat
    BY <1>8, <2>1
  <2>3. \A b \in 1..B : blocks[b].offset \in Nat /\ blocks[b].offset =< z
    BY <1>5, <1>6, <2>1, WordFacts
  <2>. HIDE DEF bits
  <2>. QED  BY <2>1, <2>2, <2>3
<1>10. /\ bits.compressed_size \in 0..WordBits
       /\ \A b \in 1..B : blocks[b].compressed_size - Min(csizes)
                              < Pow2[bits.compressed_size]
  <2>1. PICK x \in Nat, y \in Nat : x = Max(csizes) /\ y = Min(csizes)
            /\ x < WordSize /\ y =< x
    <3>1. 1 \in 1..B
      BY <1>5
    <3>2. Min(csizes) =< blocks[1].compressed_size
          /\ blocks[1].compressed_size =< Max(csizes)
          /\ blocks[1].compressed_size \in Nat
      BY <1>5, <1>7, <3>1, WordFacts
    <3>. QED  BY <1>7, <3>2, WordFacts DEF Word
  <2>2. PICK z \in Int : z = x - y /\ 0 =< z /\ z < WordSize
            /\ bits.compressed_size = blog(z)
    BY <2>1, WordFacts
  <2>3. blog(z) \in 1..WordBits /\ z < Pow2[blog(z)] /\ Pow2[blog(z)] \in Nat
    BY <1>8, <2>2
  <2>4. \A b \in 1..B : /\ blocks[b].compressed_size \in Nat
                        /\ blocks[b].compressed_size - y =< z
    <3>1. \A b \in 1..B : blocks[b].compressed_size \in Nat
      BY <1>5, WordFacts
    <3>. QED  BY <1>7, <2>1, <2>2, <3>1
  <2>. HIDE DEF bits
  <2>. QED  BY <2>1, <2>2, <2>3, <2>4
<1>11. bits.size \in 0..WordBits /\ blocks[B].size < Pow2[bits.size]
  <2>1. PICK z \in Int : z = blocks[B].size /\ 0 =< z /\ z < WordSize
    <3>1. B \in 1..B
      BY <1>5
    <3>. QED  BY <1>5, <3>1, WordFacts DEF Word
  <2>2. bits.size = blog(z)
    BY <2>1 DEF B
  <2>. HIDE DEF bits
  <2>. QED  BY <1>8, <2>1, <2>2
<1>12. bits \in [offset : 0..WordBits, compressed_size : 0..WordBits,
                 size : 0..WordBits]
  <2>1. bits = [offset |-> bits.offset, compressed_size |-> bits.compressed_size,
                size |-> bits.size]
    OBVIOUS
  <2>. HIDE DEF bits
  <2>. QED  BY <1>9, <1>10, <1>11, <2>1
<1>. HIDE DEF bits
<1>13. /\ super'.blockbits = bits /\ super'.min.compressed_size = Min(csizes)
       /\ super'.bits = super.bits /\ super'.blocks = super.blocks
       /\ super'.block_size = super.block_size
       /\ super'.block_log2 = super.block_log2
       /\ super'.dirbits = super.dirbits
       /\ super'.min.ctime = super.min.ctime /\ super'.min.mtime = super.min.mtime
  BY <1>2, <1>4 DEF SuperTyped
<1>14. SuperTyped'
  <2>1. Min(csizes) \in Nat
    BY <1>7, WordFacts
  <2>. QED  BY <1>2, <1>4, <1>12, <2>1 DEF SuperTyped
<1>15. nodes' = nodes /\ disabled' = disabled /\ entry_buffer' = entry_buffer
       /\ blocks' = blocks
  BY <1>1
<1>16. Settled(table)'
  <2>1. LogarithmOrNone'
    BY <1>4, <1>13 DEF LogarithmOrNone
  <2>2. Reordered(table)'
    <3>1. Reordered(table)
      BY <1>3 DEF Settled
    <3>. QED  BY <1>15, <3>1 DEF Reordered
  <2>3. \A f \in Fields : FieldFits(f)'
    BY <1>3, <1>13, <1>15, FieldStillFits DEF Settled
  <2>4. MinimaOfRoot'
    <3>1. \A f \in Times : super'.min[f] = super.min[f]
      BY <1>13 DEF Times
    <3>. QED  BY <1>3, <1>15, <3>1 DEF Settled, MinimaOfRoot
  <2>5. Filled'
    <3>1. Filled
      BY <1>3 DEF Settled
    <3>2. Directories(nodes)' = Directories(nodes)
      BY <1>15 DEF Directories
    <3>. QED  BY <1>13, <1>15, <3>1, <3>2 DEF Filled, Place
  <2>6. Compressed'
    BY <1>4, <1>13, <1>15 DEF Compressed, BlockBytes
  <2>7. /\ disabled' \in Disabled /\ super'.dirbits = DirectoryWidths(table)
        /\ super'.blocks = (Len(entry_buffer') + super'.block_size - 1)
                           \div Pow2[super'.block_log2]
    BY <1>3, <1>13, <1>15 DEF Settled
  <2>. QED  BY <1>14, <2>1, <2>2, <2>3, <2>4, <2>5, <2>6, <2>7 DEF Settled
<1>17. BlocksFit'
  BY <1>5, <1>7, <1>9, <1>10, <1>11, <1>13, <1>15 DEF BlocksFit, B
<1>18. BlockTableLen' \in Nat
       /\ bitbuffer' = bitbuffer_init(BlockTableLen') /\ BlockRowBits' \in Nat
  <2>1. bits.offset \in Nat /\ bits.compressed_size \in Nat /\ bits.size \in Nat
    BY <1>9, <1>10, <1>11
  <2>2. BlockRowBits' = bits.offset + bits.compressed_size
    BY <1>13 DEF BlockRowBits
  <2>3. PICK r \in Nat : r = bits.offset + bits.compressed_size
    BY <2>1
  <2>4. BlockTableLen' = Bytes(B * r + bits.size)
    BY <1>13, <2>2, <2>3 DEF BlockTableLen, B
  <2>5. B * r + bits.size \in Nat
    BY <1>5, <2>1
  <2>. QED  BY <1>2, <2>2, <2>3, <2>4, <2>5, BytesFacts DEF B
<1>19. /\ bitbuffer' \in Buffers(BlockTableLen')
       /\ bitbuffer'.index = 0 /\ Clear(bitbuffer', BlockTableLen')
  BY <1>18, NewBuffer
<1>20. /\ next' \in 1..(super'.blocks + 1)
       /\ bitbuffer'.index = (next' - 1) * BlockRowBits'
       /\ BlockRows(bitbuffer.buffer, next - 1)'
  <2>1. next' - 1 = 0 /\ next' \in 1..(super'.blocks + 1)
    <3>1. 1 \in 1..(B + 1) /\ 1 - 1 = 0
      BY <1>5
    <3>2. next' = 1 /\ super'.blocks = B
      BY <1>1, <1>13 DEF B
    <3>. QED  BY <3>1, <3>2
  <2>2. 0 * BlockRowBits' = 0
    <3>1. PICK k \in Nat : k = BlockRowBits'
      BY <1>18
    <3>2. 0 * k = 0
      OBVIOUS
    <3>. QED  BY <3>1, <3>2
  <2>3. 1..0 = {}
    OBVIOUS
  <2>. QED  BY <1>19, <2>1, <2>2, <2>3 DEF BlockRows
<1>21. PlacedFields \subseteq Fields
  BY FieldNames DEF PlacedFields
<1>22. Clear(bitbuffer, BlockTableLen)'
  BY <1>19 DEF Clear
<1>. QED  BY <1>1, <1>16, <1>17, <1>19, <1>20, <1>21, <1>22
          DEF Known, Settled, FromSort, FromFill, FromWidths2, FromCompress,
              FromWidths3, FromBlockTable, FromInodes, FromInodeTable,
              FromWritten

(***************************************************************************)
(* Rows                                                                    *)
(***************************************************************************)
RowFields == [width : 0..WordBits, value : Int]
RowWidths(row) == [k \in DOMAIN row |-> row[k].width]

\* new is bb with the first k fields of a row put.
RowPut(bb, new, row, k, len) ==
    /\ new \in Buffers(len)
    /\ new.index = bb.index + Sums(RowWidths(row))[k]
    /\ Clear(new, len)
    /\ \A i, n \in Nat, value \in Int :
          i + n =< bb.index /\ Holds(bb.buffer, i, n, value) =>
              Holds(new.buffer, i, n, value)
    /\ \A j \in 1..k : Holds(new.buffer, bb.index + Sums(RowWidths(row))[j - 1],
                             row[j].width, row[j].value)

LEMMA RowFacts ==
    ASSUME WordBits \in Nat, NEW row \in Seq(RowFields)
    PROVE  /\ Len(row) \in Nat /\ DOMAIN row = 1..Len(row)
           /\ RowWidths(row) \in Seq(Nat) /\ Len(RowWidths(row)) = Len(row)
           /\ \A k \in 1..Len(row) : /\ RowWidths(row)[k] = row[k].width
                                     /\ row[k].width \in 0..WordBits
                                     /\ row[k].width \in Nat
                                     /\ row[k].value \in Int
           /\ Sums(RowWidths(row)) \in [0..Len(row) -> Nat]
           /\ Sums(RowWidths(row))[0] = 0
           /\ \A k \in 1..Len(row) : Sums(RowWidths(row))[k]
                  = Sums(RowWidths(row))[k - 1] + row[k].width
           /\ \A k \in 0..Len(row) :
                  Sums(RowWidths(row))[k] =< Total(RowWidths(row))
<1>1. /\ Len(row) \in Nat /\ DOMAIN row = 1..Len(row)
      /\ \A k \in 1..Len(row) : row[k] \in RowFields
  BY LenProperties
<1>2. \A k \in 1..Len(row) : /\ row[k].width \in 0..WordBits
                             /\ row[k].width \in Nat
                             /\ row[k].value \in Int
  BY <1>1 DEF RowFields
<1>3. RowWidths(row) \in [1..Len(row) -> Nat]
      /\ \A k \in 1..Len(row) : RowWidths(row)[k] = row[k].width
  BY <1>1, <1>2 DEF RowWidths
<1>4. RowWidths(row) \in Seq(Nat) /\ Len(RowWidths(row)) = Len(row)
  BY <1>1, <1>3, FunctionIsSeq
<1>5. /\ Sums(RowWidths(row)) \in [0..Len(row) -> Nat]
      /\ Sums(RowWidths(row))[0] = 0
      /\ \A k \in 1..Len(row) : Sums(RowWidths(row))[k]
             = Sums(RowWidths(row))[k - 1] + RowWidths(row)[k]
  BY <1>4, SumsFacts
<1>6. \A i, k \in 0..Len(row) :
          i =< k => Sums(RowWidths(row))[i] =< Sums(RowWidths(row))[k]
  BY <1>4, SumsGrow
<1>7. \A k \in 0..Len(row) : Sums(RowWidths(row))[k] =< Total(RowWidths(row))
  BY <1>1, <1>4, <1>6 DEF Total
<1>. QED  BY <1>1, <1>2, <1>3, <1>4, <1>5, <1>7

\* One more field of a row.
LEMMA RowStep ==
    ASSUME WordBits \in Nat, NEW len \in Nat, NEW row \in Seq(RowFields),
           NEW bb \in Buffers(len),
           bb.index + Total(RowWidths(row)) =< 8 * len
    PROVE  \A k \in 1..Len(row) : \A x : RowPut(bb, x, row, k - 1, len) =>
               RowPut(bb, bitbuffer_putbits(x, row[k].width, row[k].value),
                      row, k, len)
<1>. SUFFICES ASSUME NEW k \in 1..Len(row), NEW x,
                     RowPut(bb, x, row, k - 1, len)
              PROVE  RowPut(bb, bitbuffer_putbits(x, row[k].width, row[k].value),
                            row, k, len)
  OBVIOUS
<1>. DEFINE sums == Sums(RowWidths(row))
<1>1. PICK a \in Nat, b \in Nat, m \in 0..WordBits, v \in Int, s \in Nat :
          /\ a = sums[k - 1] /\ b = sums[k] /\ m = row[k].width
          /\ v = row[k].value /\ s = bb.index /\ b = a + m /\ s + b =< 8 * len
          /\ m \in Nat
  <2>1. k - 1 \in 0..Len(row) /\ k \in 0..Len(row) /\ Len(row) \in Nat
    BY RowFacts
  <2>2. sums[k - 1] \in Nat /\ sums[k] \in Nat /\ sums[k] = sums[k - 1] + row[k].width
        /\ row[k].width \in 0..WordBits /\ row[k].width \in Nat
        /\ row[k].value \in Int
        /\ sums[k] =< Total(RowWidths(row))
    BY <2>1, RowFacts
  <2>3. Total(RowWidths(row)) \in Nat
    <3>1. Len(row) \in 0..Len(row) /\ Len(RowWidths(row)) = Len(row)
      BY <2>1, RowFacts
    <3>2. sums \in [0..Len(row) -> Nat]
      BY RowFacts
    <3>. QED  BY <3>1, <3>2 DEF Total
  <2>4. bb.index \in Nat
    BY DEF Buffers
  <2>5. bb.index + sums[k] =< 8 * len
    <3>. HIDE DEF sums
    <3>. QED  BY <2>2, <2>3, <2>4
  <2>. HIDE DEF sums
  <2>. QED  BY <2>2, <2>4, <2>5
<1>2. /\ x \in Buffers(len) /\ x.index = s + a /\ Clear(x, len)
      /\ \A i, n \in Nat, value \in Int :
            i + n =< s /\ Holds(bb.buffer, i, n, value) =>
                Holds(x.buffer, i, n, value)
      /\ \A j \in 1..(k - 1) :
            Holds(x.buffer, s + sums[j - 1], row[j].width, row[j].value)
  BY <1>1 DEF RowPut
<1>. HIDE DEF sums
<1>11. b = a + m /\ s + b =< 8 * len /\ m \in Nat
  BY <1>1
<1>10. PICK t \in Nat : /\ t = x.index /\ t = s + a /\ t + m = s + b
                        /\ s =< t /\ t + m =< 8 * len
  <2>1. s + a \in Nat /\ s =< s + a /\ s + a + m = s + b
    BY <1>11
  <2>2. s + a + m =< 8 * len
    BY <1>11
  <2>3. x.index = s + a
    BY <1>2
  <2>. QED  BY <2>1, <2>2, <2>3
<1>3. PICK new : new = bitbuffer_putbits(x, m, v)
  OBVIOUS
<1>4. Extended(x, new, m, v, len)
  <2>1. x.index + m =< 8 * len
    BY <1>10
  <2>. QED  BY <1>2, <1>3, <2>1, PutBits
<1>5. /\ new \in Buffers(len)
      /\ new.index = t + m
      /\ Clear(new, len)
      /\ Holds(new.buffer, t, m, v)
      /\ \A i, n \in Nat, value \in Int :
            i + n =< t /\ Holds(x.buffer, i, n, value) =>
                Holds(new.buffer, i, n, value)
  <2>1. x \in Buffers(len) /\ x.index = t
    BY <1>2, <1>10
  <2>. QED  BY <1>4, <1>11, <2>1, PutKeeps
<1>6. new.index = s + b
  BY <1>5, <1>10
<1>7. ASSUME NEW i \in Nat, NEW n \in Nat, NEW value \in Int, i + n =< s,
             Holds(bb.buffer, i, n, value)
      PROVE  Holds(new.buffer, i, n, value)
  <2>1. i + n =< t
    BY <1>7, <1>10
  <2>2. Holds(x.buffer, i, n, value)
    BY <1>2, <1>7
  <2>. QED  BY <1>5, <2>1, <2>2
<1>8. ASSUME NEW j \in 1..k
      PROVE  Holds(new.buffer, s + sums[j - 1], row[j].width, row[j].value)
  <2>1. CASE j = k
    BY <1>1, <1>5, <1>10, <2>1
  <2>2. CASE j # k
    <3>1. j \in 1..(k - 1) /\ j \in 1..Len(row) /\ j \in 0..Len(row)
          /\ k - 1 \in 0..Len(row) /\ j - 1 \in 0..Len(row)
      BY <2>2, RowFacts
    <3>2. PICK c \in Nat, d \in Nat, w \in Nat, z \in Int :
              /\ c = sums[j - 1] /\ d = sums[j] /\ w = row[j].width
              /\ z = row[j].value /\ d = c + w
      <4>1. sums[j - 1] \in Nat /\ sums[j] \in Nat /\ sums[j] = sums[j - 1] + row[j].width
            /\ row[j].width \in Nat /\ row[j].value \in Int
        BY <3>1, RowFacts DEF sums
      <4>. QED  BY <4>1
    <3>3. d =< a
      BY <1>1, <3>1, <3>2, RowFacts, SumsGrow DEF sums
    <3>4. s + c \in Nat /\ s + c + w =< t
      <4>1. d = c + w /\ t = s + a
        BY <1>10, <3>2
      <4>. QED  BY <3>3, <4>1
    <3>5. Holds(x.buffer, s + c, w, z)
      BY <1>2, <3>1, <3>2
    <3>6. Holds(new.buffer, s + c, w, z)
      BY <1>5, <3>4, <3>5
    <3>. QED  BY <3>2, <3>6
  <2>. QED  BY <2>1, <2>2
<1>9. RowPut(bb, new, row, k, len)
  BY <1>1, <1>5, <1>6, <1>7, <1>8 DEF RowPut, sums
<1>. QED  BY <1>1, <1>3, <1>9

LEMMA PutRowFacts ==
    ASSUME WordBits \in Nat, NEW len \in Nat
    PROVE  \A row \in Seq(RowFields), bb \in Buffers(len) :
               bb.index + Total(RowWidths(row)) =< 8 * len /\ Clear(bb, len) =>
                   RowPut(bb, PutRow(bb, row), row, Len(row), len)
<1>. SUFFICES ASSUME NEW row \in Seq(RowFields), NEW bb \in Buffers(len),
                     bb.index + Total(RowWidths(row)) =< 8 * len, Clear(bb, len)
              PROVE  RowPut(bb, PutRow(bb, row), row, Len(row), len)
  OBVIOUS
<1>. DEFINE n == Len(row)
            S == Buffers(len)
            field(x, k) == bitbuffer_putbits(x, row[k].width, row[k].value)
            F(f) == [k \in 0..n |-> IF k = 0 THEN bb ELSE field(f[k - 1], k)]
<1>0. n \in Nat
  BY RowFacts
<1>1. RowPut(bb, bb, row, 0, len)
  <2>1. Sums(RowWidths(row))[0] = 0 /\ bb.index \in Nat
    BY RowFacts DEF Buffers
  <2>2. bb.index = bb.index + 0
    BY <2>1
  <2>3. 1..0 = {}
    OBVIOUS
  <2>. QED  BY <2>1, <2>2, <2>3 DEF RowPut
<1>2. \A k \in 1..n : \A x : RowPut(bb, x, row, k - 1, len) =>
                                 RowPut(bb, field(x, k), row, k, len)
  BY RowStep
<1>. HIDE DEF n, field
\* A function that puts whenever the outcome is a buffer always puts.
<1>3. ASSUME NEW f, f[0] = bb,
             \A k \in 1..n : field(f[k - 1], k) \in S => f[k] = field(f[k - 1], k)
      PROVE  \A k \in 0..n : RowPut(bb, f[k], row, k, len)
  <2>. PICK T : T = {k \in 0..n : RowPut(bb, f[k], row, k, len)}
    OBVIOUS
  <2>1. 0 \in T
    BY <1>0, <1>1, <1>3
  <2>2. ASSUME NEW k \in 1..n, k - 1 \in T
        PROVE  k \in T
    <3>1. RowPut(bb, field(f[k - 1], k), row, k, len)
      BY <1>2, <2>2
    <3>2. field(f[k - 1], k) \in S
      BY <3>1 DEF RowPut
    <3>3. f[k] = field(f[k - 1], k) /\ k \in 0..n
      BY <1>0, <1>3, <3>2
    <3>. QED  BY <3>1, <3>3
  <2>. QED  BY <1>0, <2>1, <2>2, Upwards
<1>4. PICK step : step = [k \in 1..n |-> [x \in S |->
                            IF field(x, k) \in S THEN field(x, k) ELSE x]]
  OBVIOUS
<1>5. step \in [1..n -> [S -> S]]
  <2>. HIDE DEF S
  <2>. QED  BY <1>4
<1>6. PICK f \in [0..n -> S] : Iterates(f, bb, step, n)
  <2>1. bb \in S
    OBVIOUS
  <2>. HIDE DEF S
  <2>. QED  BY <1>0, <1>5, <2>1, Iteration
<1>7. f[0] = bb /\ \A k \in 1..n : /\ f[k - 1] \in S
                                   /\ f[k] = IF field(f[k - 1], k) \in S
                                             THEN field(f[k - 1], k) ELSE f[k - 1]
  <2>. HIDE DEF S
  <2>1. \A k \in 1..n : f[k - 1] \in S
    BY <1>0, <1>6
  <2>. QED  BY <1>4, <1>6, <2>1 DEF Iterates
<1>8. \A k \in 0..n : RowPut(bb, f[k], row, k, len)
  <2>. HIDE DEF S
  <2>. QED  BY <1>3, <1>7
<1>9. \A k \in 1..n : f[k] = field(f[k - 1], k)
  <2>. TAKE k \in 1..n
  <2>1. k - 1 \in 0..n
    BY <1>0
  <2>2. RowPut(bb, field(f[k - 1], k), row, k, len)
    BY <1>2, <1>8, <2>1
  <2>3. field(f[k - 1], k) \in S
    BY <2>2 DEF RowPut
  <2>. QED  BY <1>7, <2>3
<1>10. f = F(f)
  <2>1. \A k \in 0..n : f[k] = F(f)[k]
    BY <1>7, <1>9
  <2>. HIDE DEF S
  <2>. QED  BY <1>6, <2>1
<1>11. PICK g : g = (CHOOSE h : h = F(h)) /\ g = F(g)
  <2>. HIDE DEF F
  <2>. QED  BY <1>10
<1>12. PutRow(bb, row) = g[n]
  BY <1>11 DEF PutRow, field, n
<1>13. g[0] = bb /\ \A k \in 1..n : g[k] = field(g[k - 1], k)
  <2>1. F(g)[0] = bb /\ \A k \in 1..n : F(g)[k] = field(g[k - 1], k)
    BY <1>0
  <2>. HIDE DEF F
  <2>. QED  BY <1>11, <2>1
<1>14. RowPut(bb, g[n], row, n, len)
  <2>1. \A k \in 0..n : RowPut(bb, g[k], row, k, len)
    BY <1>3, <1>13
  <2>2. n \in 0..n
    BY <1>0
  <2>. QED  BY <2>1, <2>2
<1>. QED  BY <1>12, <1>14 DEF n

(***************************************************************************)
(* The block table                                                         *)
(***************************************************************************)
LEMMA TimesMonotonic ==
    \A a, b, r \in Nat : a =< b => a * r =< b * r /\ a * r \in Nat
<1>. SUFFICES ASSUME NEW a \in Nat, NEW b \in Nat, NEW r \in Nat, a =< b
              PROVE  a * r =< b * r /\ a * r \in Nat
  OBVIOUS
<1>1. PICK c \in Nat : b = a + c
  <2>1. b - a \in Nat /\ b = a + (b - a)
    OBVIOUS
  <2>. QED  BY <2>1
<1>2. (a + c) * r = a * r + c * r /\ a * r \in Nat /\ c * r \in Nat
  OBVIOUS
<1>. QED  BY <1>1, <1>2

LEMMA BlockTableFacts ==
    ASSUME NEW table, Settled(table), super.blocks >= 1
    PROVE  /\ super.blocks \in Nat /\ BlockRowBits \in Nat
           /\ super.blockbits.offset \in 0..WordBits
           /\ super.blockbits.compressed_size \in 0..WordBits
           /\ super.blockbits.size \in 0..WordBits
           /\ super.min.compressed_size \in Nat
           /\ BlockTableLen \in Nat
           /\ super.blocks * BlockRowBits \in Nat
           /\ super.blocks * BlockRowBits + super.blockbits.size
                  =< 8 * BlockTableLen
           /\ \A b \in 1..super.blocks : /\ blocks[b].offset \in Nat
                                         /\ blocks[b].size \in Nat
                                         /\ blocks[b].compressed_size \in Nat
<1>1. /\ super.blocks \in Nat
      /\ super.blockbits.offset \in 0..WordBits
      /\ super.blockbits.compressed_size \in 0..WordBits
      /\ super.blockbits.size \in 0..WordBits
      /\ super.min.compressed_size \in Nat
  BY DEF Settled, SuperTyped
<1>2. PICK o \in Nat, c \in Nat, s \in Nat, n \in Nat :
          /\ o = super.blockbits.offset /\ c = super.blockbits.compressed_size
          /\ s = super.blockbits.size /\ n = super.blocks
  BY <1>1
<1>3. PICK r \in Nat : r = o + c /\ r = BlockRowBits
  BY <1>2 DEF BlockRowBits
<1>4. n * r \in Nat /\ n * r + s \in Nat
  OBVIOUS
<1>5. Bytes(n * r + s) \in Nat /\ n * r + s =< 8 * Bytes(n * r + s)
  BY <1>4, BytesFacts
<1>6. BlockTableLen = Bytes(n * r + s)
  BY <1>2, <1>3 DEF BlockTableLen
<1>7. /\ BlockRowBits \in Nat /\ BlockTableLen \in Nat
      /\ super.blocks * BlockRowBits \in Nat
      /\ super.blocks * BlockRowBits + super.blockbits.size =< 8 * BlockTableLen
  BY <1>2, <1>3, <1>4, <1>5, <1>6
<1>8. \A b \in 1..super.blocks : /\ blocks[b].offset \in Nat
                                 /\ blocks[b].size \in Nat
                                 /\ blocks[b].compressed_size \in Nat
  <2>. TAKE b \in 1..super.blocks
  <2>1. blocks \in Seq([offset : Word, size : Word, compressed_size : Word])
        /\ Len(blocks) = super.blocks
    BY DEF Settled, Compressed
  <2>2. blocks[b] \in [offset : Word, size : Word, compressed_size : Word]
    BY <2>1, LenProperties
  <2>. QED  BY <2>2, WordFacts
<1>. QED  BY <1>1, <1>7, <1>8

LEMMA BlockRowInv ==
    ASSUME NEW table \in NodeTables, Known(table), BlockRow
    PROVE  Known(table)'
<1>. DEFINE B == super.blocks
            bits == super.blockbits
            len == BlockTableLen
            row == <<[width |-> bits.offset, value |-> blocks[next].offset],
                     [width |-> bits.compressed_size,
                      value |-> blocks[next].compressed_size
                                - super.min.compressed_size]>>
            new == bitbuffer'
<1>1. /\ phase = "block table" /\ phase' = "block table"
      /\ next =< super.blocks /\ next' = next + 1
      /\ UNCHANGED <<disabled, nodes, super, entry_buffer, blocks,
                     block_buffer, inode_buffer>>
      /\ new = PutRow(bitbuffer, row)
  BY DEF BlockRow
<1>2. /\ BlocksFit
      /\ bitbuffer \in Buffers(BlockTableLen)
      /\ next \in 1..(super.blocks + 1)
      /\ bitbuffer.index = (next - 1) * BlockRowBits
      /\ Clear(bitbuffer, BlockTableLen)
      /\ BlockRows(bitbuffer.buffer, next - 1)
  BY <1>1 DEF Known, FromBlockTable
<1>3. Settled(table)
  BY <1>1, KnownSettled DEF FromWidths3, FromBlockTable
<1>4. Settled(table)'
  BY <1>1, <1>3, SettledKept
<1>5. /\ super' = super /\ blocks' = blocks /\ BlockTableLen' = len
      /\ BlockRowBits' = BlockRowBits
  BY <1>1 DEF BlockTableLen, BlockRowBits
<1>6. BlocksFit'
  BY <1>2, <1>5 DEF BlocksFit
<1>7. super.blocks >= 1
  BY <1>2 DEF BlocksFit
<1>8. PICK o \in 0..WordBits, c \in 0..WordBits, s \in Nat, r \in Nat, n \in Nat,
           k \in Nat :
          /\ o = bits.offset /\ c = bits.compressed_size /\ s = bits.size
          /\ r = BlockRowBits /\ n = B /\ k = next
          /\ n * r + s =< 8 * len /\ k \in 1..n /\ r = o + c
          /\ o \in Nat /\ c \in Nat
          /\ bitbuffer.index = (k - 1) * r
  <2>1. bits.size \in 0..WordBits /\ bits.offset \in 0..WordBits
        /\ bits.compressed_size \in 0..WordBits
        /\ BlockRowBits = bits.offset + bits.compressed_size
        /\ BlockRowBits \in Nat
        /\ B \in Nat
        /\ B * BlockRowBits + bits.size =< 8 * len
    BY <1>3, <1>7, BlockTableFacts DEF BlockRowBits
  <2>2. next \in 1..B /\ next \in Nat
    <3>1. PICK a \in Nat : a = super.blocks
      BY <2>1
    <3>2. next \in 1..(a + 1) /\ next =< a
      BY <1>1, <1>2, <3>1
    <3>3. next \in 1..a /\ next \in Nat
      BY <3>2
    <3>. QED  BY <3>1, <3>3
  <2>. HIDE DEF B, bits, len
  <2>. QED  BY <1>2, <2>1, <2>2
<1>9. len \in Nat /\ WordBits \in Nat
  BY <1>3, <1>7, BlockTableFacts, WordFacts
<1>10. PICK p \in Nat, q \in Int : p = blocks[next].offset
           /\ q = blocks[next].compressed_size - super.min.compressed_size
  <2>1. \A b \in 1..super.blocks : blocks[b].offset \in Nat
                                   /\ blocks[b].compressed_size \in Nat
    BY <1>3, <1>7, BlockTableFacts
  <2>2. super.min.compressed_size \in Nat
    BY <1>3, <1>7, BlockTableFacts
  <2>3. next \in 1..super.blocks
    BY <1>8
  <2>4. blocks[next].offset \in Nat /\ blocks[next].compressed_size \in Nat
    BY <2>1, <2>3
  <2>. QED  BY <2>2, <2>4
<1>11. row = <<[width |-> o, value |-> p], [width |-> c, value |-> q]>>
  BY <1>8, <1>10
<1>. HIDE DEF B, bits, len, row
<1>12. row \in Seq(RowFields) /\ Len(row) = 2
       /\ row[1].width = o /\ row[2].width = c
       /\ row[1].value = p /\ row[2].value = q
  BY <1>11 DEF RowFields
<1>13. /\ Sums(RowWidths(row))[0] = 0 /\ Sums(RowWidths(row))[1] = o
       /\ Sums(RowWidths(row))[2] = r /\ Total(RowWidths(row)) = r
  <2>1. /\ Sums(RowWidths(row))[0] = 0
        /\ \A j \in 1..2 : Sums(RowWidths(row))[j]
               = Sums(RowWidths(row))[j - 1] + row[j].width
        /\ Len(RowWidths(row)) = 2
    BY <1>9, <1>12, RowFacts
  <2>2. 1 \in 1..2 /\ 2 \in 1..2 /\ 1 - 1 = 0 /\ 2 - 1 = 1
    OBVIOUS
  <2>3. Sums(RowWidths(row))[1] = 0 + o
    BY <1>12, <2>1, <2>2
  <2>4. 0 + o = o
    BY <1>8
  <2>5. Sums(RowWidths(row))[2] = o + c
    BY <1>12, <2>1, <2>2, <2>3, <2>4
  <2>. QED  BY <1>8, <2>1, <2>3, <2>4, <2>5 DEF Total
<1>14. PICK i \in Nat : /\ i = (k - 1) * r /\ i = bitbuffer.index
                        /\ i + r = k * r /\ i + r =< 8 * len
  <2>1. k \in Nat /\ k =< n /\ k - 1 \in Nat
    BY <1>8
  <2>2. k * r =< n * r /\ n * r \in Nat /\ k * r \in Nat /\ (k - 1) * r \in Nat
    BY <2>1, TimesMonotonic
  <2>3. (k - 1) * r + r = k * r
    BY <2>1
  <2>4. n * r + s =< 8 * len
    BY <1>8
  <2>5. k * r =< 8 * len
    BY <1>9, <2>2, <2>4
  <2>6. bitbuffer.index = (k - 1) * r
    BY <1>8
  <2>. QED  BY <2>2, <2>3, <2>5, <2>6
<1>15. RowPut(bitbuffer, new, row, 2, len)
  <2>1. bitbuffer.index + Total(RowWidths(row)) =< 8 * len
    BY <1>13, <1>14
  <2>2. bitbuffer \in Buffers(len) /\ Clear(bitbuffer, len)
    BY <1>2 DEF len
  <2>. QED  BY <1>1, <1>9, <1>12, <2>1, <2>2, PutRowFacts
<1>16. /\ new \in Buffers(len) /\ new.index = i + r /\ Clear(new, len)
       /\ \A j, m \in Nat, value \in Int :
             j + m =< i /\ Holds(bitbuffer.buffer, j, m, value) =>
                 Holds(new.buffer, j, m, value)
       /\ Holds(new.buffer, i + 0, o, p) /\ Holds(new.buffer, i + o, c, q)
  <2>1. 1 \in 1..2 /\ 2 \in 1..2 /\ 1 - 1 = 0 /\ 2 - 1 = 1
    OBVIOUS
  <2>2. \A j \in 1..2 : Holds(new.buffer,
            bitbuffer.index + Sums(RowWidths(row))[j - 1],
            row[j].width, row[j].value)
    BY <1>15 DEF RowPut
  <2>3. Holds(new.buffer, i + 0, o, p)
    BY <1>12, <1>13, <1>14, <2>1, <2>2
  <2>4. Holds(new.buffer, i + o, c, q)
    BY <1>12, <1>13, <1>14, <2>1, <2>2
  <2>5. new.index = i + r
    BY <1>13, <1>14, <1>15 DEF RowPut
  <2>. QED  BY <1>14, <1>15, <2>3, <2>4, <2>5 DEF RowPut
<1>17. ASSUME NEW b \in 1..k
       PROVE  /\ Holds(new.buffer, (b - 1) * BlockRowBits,
                       super.blockbits.offset, blocks[b].offset)
              /\ Holds(new.buffer,
                       (b - 1) * BlockRowBits + super.blockbits.offset,
                       super.blockbits.compressed_size,
                       blocks[b].compressed_size - super.min.compressed_size)
  <2>1. CASE b = k
    <3>1. i + 0 = i
      OBVIOUS
    <3>2. (b - 1) * BlockRowBits = i
      BY <1>8, <1>14, <2>1
    <3>. QED  BY <1>8, <1>10, <1>16, <2>1, <3>1, <3>2 DEF bits
  <2>2. CASE b # k
    <3>1. b \in 1..(next - 1) /\ b \in Nat /\ b =< k - 1 /\ k - 1 \in Nat
          /\ b \in 1..super.blocks /\ b - 1 \in Nat
      BY <1>8, <2>2 DEF B
    <3>2. PICK x \in Nat, y \in Int : x = blocks[b].offset
              /\ y = blocks[b].compressed_size - super.min.compressed_size
      <4>1. \A d \in 1..super.blocks : blocks[d].offset \in Nat
                                       /\ blocks[d].compressed_size \in Nat
        BY <1>3, <1>7, BlockTableFacts
      <4>2. super.min.compressed_size \in Nat
        BY <1>3, <1>7, BlockTableFacts
      <4>. QED  BY <3>1, <4>1, <4>2
    <3>3. Holds(bitbuffer.buffer, (b - 1) * r, o, x)
          /\ Holds(bitbuffer.buffer, (b - 1) * r + o, c, y)
      BY <1>2, <1>8, <3>1, <3>2 DEF BlockRows, bits
    <3>4. PICK z \in Nat : z = (b - 1) * r /\ z + r =< i
      <4>1. b * r =< (k - 1) * r /\ b * r \in Nat /\ (b - 1) * r \in Nat
        BY <3>1, TimesMonotonic
      <4>2. (b - 1) * r + r = b * r
        BY <3>1
      <4>. QED  BY <1>14, <4>1, <4>2
    <3>5. z + o =< i /\ z + o \in Nat /\ (z + o) + c =< i
      <4>1. r = o + c /\ o \in Nat /\ c \in Nat
        BY <1>8
      <4>. QED  BY <3>4, <4>1
    <3>6. Holds(new.buffer, z, o, x) /\ Holds(new.buffer, z + o, c, y)
      <4>1. o \in Nat /\ c \in Nat
        BY <1>8
      <4>. QED  BY <1>16, <3>2, <3>3, <3>4, <3>5, <4>1
    <3>. QED  BY <1>8, <3>2, <3>4, <3>6 DEF bits
  <2>. QED  BY <2>1, <2>2
<1>18. /\ next' \in 1..(super'.blocks + 1)
       /\ new.index = (next' - 1) * BlockRowBits'
       /\ next' - 1 = k
  <2>1. k + 1 \in 1..(n + 1) /\ (k + 1) - 1 = k /\ next' = k + 1
    <3>1. k \in 1..n
      BY <1>8
    <3>2. next' = k + 1
      BY <1>1, <1>8
    <3>. QED  BY <3>1, <3>2
  <2>. QED  BY <1>5, <1>8, <1>14, <1>16, <2>1 DEF B
<1>19. BlockRows(bitbuffer.buffer, next - 1)'
  BY <1>5, <1>17, <1>18 DEF BlockRows
<1>20. Clear(bitbuffer, BlockTableLen)'
  BY <1>5, <1>16 DEF Clear
<1>21. new \in Buffers(BlockTableLen')
  BY <1>5, <1>16
<1>22. PlacedFields \subseteq Fields
  BY FieldNames DEF PlacedFields
<1>. QED  BY <1>1, <1>4, <1>6, <1>18, <1>19, <1>20, <1>21, <1>22
          DEF Known, Settled, FromSort, FromFill, FromWidths2, FromCompress,
              FromWidths3, FromBlockTable, FromInodes, FromInodeTable,
              FromWritten


LEMMA LastBlockSizeInv ==
    ASSUME NEW table \in NodeTables, Known(table), LastBlockSize
    PROVE  Known(table)'
<1>. DEFINE len == BlockTableLen
            end == super.blocks * BlockRowBits
<1>1. /\ phase = "block table" /\ phase' = "inodes"
      /\ next > super.blocks
      /\ UNCHANGED <<disabled, nodes, super, entry_buffer, blocks, bitbuffer,
                     next, inode_buffer>>
      /\ block_buffer' = bitbuffer_putbits(bitbuffer, super.blockbits.size,
                                           blocks[super.blocks].size).buffer
  BY DEF LastBlockSize
<1>2. /\ BlocksFit
      /\ bitbuffer \in Buffers(BlockTableLen)
      /\ next \in 1..(super.blocks + 1)
      /\ bitbuffer.index = (next - 1) * BlockRowBits
      /\ Clear(bitbuffer, BlockTableLen)
      /\ BlockRows(bitbuffer.buffer, next - 1)
  BY <1>1 DEF Known, FromBlockTable
<1>3. Settled(table)
  BY <1>1, KnownSettled DEF FromWidths3, FromBlockTable
<1>4. Settled(table)'
  BY <1>1, <1>3, SettledKept
<1>5. /\ super' = super /\ blocks' = blocks /\ BlockTableLen' = len
      /\ BlockRowBits' = BlockRowBits
  BY <1>1 DEF BlockTableLen, BlockRowBits
<1>6. BlocksFit'
  BY <1>2, <1>5 DEF BlocksFit
<1>7. super.blocks >= 1
  BY <1>2 DEF BlocksFit
<1>8. PICK n \in Nat, s \in 0..WordBits, v \in Nat, r \in Nat, o \in Nat, c \in Nat :
          /\ n = super.blocks /\ s = super.blockbits.size
          /\ v = blocks[super.blocks].size /\ r = BlockRowBits
          /\ o = super.blockbits.offset /\ c = super.blockbits.compressed_size
          /\ r = o + c /\ n \in 1..n /\ n * r \in Nat /\ n * r + s =< 8 * len
          /\ s \in Nat
  <2>1. /\ super.blocks \in Nat /\ BlockRowBits \in Nat
        /\ super.blockbits.size \in 0..WordBits
        /\ super.blockbits.offset \in 0..WordBits
        /\ super.blockbits.compressed_size \in 0..WordBits
        /\ super.blocks * BlockRowBits \in Nat
        /\ super.blocks * BlockRowBits + super.blockbits.size =< 8 * BlockTableLen
        /\ \A b \in 1..super.blocks : blocks[b].size \in Nat
    BY <1>3, <1>7, BlockTableFacts
  <2>2. super.blocks \in 1..super.blocks
    <3>1. PICK a \in Nat : a = super.blocks
      BY <2>1
    <3>2. a >= 1
      BY <1>7, <3>1
    <3>. QED  BY <3>1, <3>2
  <2>3. blocks[super.blocks].size \in Nat
    BY <2>1, <2>2
  <2>4. /\ super.blockbits.size \in Nat /\ super.blockbits.offset \in Nat
        /\ super.blockbits.compressed_size \in Nat
        /\ BlockRowBits = super.blockbits.offset + super.blockbits.compressed_size
    BY <2>1 DEF BlockRowBits
  <2>. HIDE DEF len
  <2>5. super.blocks * BlockRowBits + super.blockbits.size =< 8 * len
    BY <2>1 DEF len
  <2>. QED  BY <2>1, <2>2, <2>3, <2>4, <2>5
<1>9. len \in Nat /\ WordBits \in Nat
  BY <1>3, <1>7, BlockTableFacts, WordFacts
<1>10. next = n + 1 /\ next - 1 = n /\ bitbuffer.index = n * r
  <2>1. next \in 1..(n + 1) /\ next > n
    BY <1>1, <1>2, <1>8
  <2>2. next = n + 1 /\ next - 1 = n
    BY <2>1
  <2>. QED  BY <1>2, <1>8, <2>2
<1>. HIDE DEF len
<1>11. PICK i \in Nat : i = n * r /\ i = bitbuffer.index /\ i + s =< 8 * len
  BY <1>8, <1>10
<1>12. PICK new : new = bitbuffer_putbits(bitbuffer, s, v)
  OBVIOUS
<1>13. bitbuffer \in Buffers(len) /\ Clear(bitbuffer, len)
  BY <1>2 DEF len
<1>14. Extended(bitbuffer, new, s, v, len)
  <2>1. bitbuffer.index + s =< 8 * len
    BY <1>11
  <2>. QED  BY <1>9, <1>12, <1>13, <2>1, PutBits
<1>15. /\ new \in Buffers(len)
       /\ Holds(new.buffer, i, s, v)
       /\ \A j, m \in Nat, value \in Int :
             j + m =< i /\ Holds(bitbuffer.buffer, j, m, value) =>
                 Holds(new.buffer, j, m, value)
  <2>1. s \in Nat /\ v \in Int
    BY <1>8
  <2>. QED  BY <1>9, <1>11, <1>13, <1>14, <2>1, PutKeeps
<1>16. block_buffer' = new.buffer
  BY <1>1, <1>8, <1>12
<1>17. ASSUME NEW b \in 1..n
       PROVE  /\ Holds(new.buffer, (b - 1) * BlockRowBits,
                       super.blockbits.offset, blocks[b].offset)
              /\ Holds(new.buffer,
                       (b - 1) * BlockRowBits + super.blockbits.offset,
                       super.blockbits.compressed_size,
                       blocks[b].compressed_size - super.min.compressed_size)
  <2>1. PICK x \in Nat, y \in Int : x = blocks[b].offset
            /\ y = blocks[b].compressed_size - super.min.compressed_size
    <3>1. \A d \in 1..super.blocks : blocks[d].offset \in Nat
                                     /\ blocks[d].compressed_size \in Nat
      BY <1>3, <1>7, BlockTableFacts
    <3>2. super.min.compressed_size \in Nat
      BY <1>3, <1>7, BlockTableFacts
    <3>. QED  BY <1>8, <3>1, <3>2
  <2>2. Holds(bitbuffer.buffer, (b - 1) * r, o, x)
        /\ Holds(bitbuffer.buffer, (b - 1) * r + o, c, y)
    BY <1>2, <1>8, <1>10, <2>1 DEF BlockRows
  <2>3. PICK z \in Nat : z = (b - 1) * r /\ z + r =< i
    <3>1. b \in Nat /\ b =< n /\ b - 1 \in Nat
      OBVIOUS
    <3>2. b * r =< n * r /\ b * r \in Nat /\ (b - 1) * r \in Nat
      BY <3>1, TimesMonotonic
    <3>3. (b - 1) * r + r = b * r
      BY <3>1
    <3>. QED  BY <1>11, <3>2, <3>3
  <2>4. z + o =< i /\ z + o \in Nat /\ (z + o) + c =< i
    <3>1. r = o + c
      BY <1>8
    <3>. QED  BY <2>3, <3>1
  <2>5. Holds(new.buffer, z, o, x) /\ Holds(new.buffer, z + o, c, y)
    <3>1. Holds(bitbuffer.buffer, z, o, x) /\ Holds(bitbuffer.buffer, z + o, c, y)
      BY <2>2, <2>3
    <3>2. x \in Int
      OBVIOUS
    <3>. QED  BY <1>15, <2>4, <3>1, <3>2
  <2>. QED  BY <1>8, <2>1, <2>3, <2>5
<1>18. /\ block_buffer' \in ByteArrays(BlockTableLen')
       /\ BlockRows(block_buffer, super.blocks)'
       /\ Holds(block_buffer', super'.blocks * BlockRowBits',
                super'.blockbits.size, blocks'[super'.blocks].size)
  <2>1. new.buffer \in ByteArrays(len)
    BY <1>15 DEF Buffers
  <2>2. BlockRows(block_buffer, super.blocks)'
    BY <1>5, <1>8, <1>16, <1>17 DEF BlockRows
  <2>3. Holds(block_buffer', super'.blocks * BlockRowBits',
              super'.blockbits.size, blocks'[super'.blocks].size)
    BY <1>5, <1>8, <1>11, <1>15, <1>16
  <2>. QED  BY <1>5, <1>16, <2>1, <2>2, <2>3
<1>19. PlacedFields \subseteq Fields
  BY FieldNames DEF PlacedFields
<1>20. Holds(block_buffer, super.blocks * BlockRowBits,
             super.blockbits.size, blocks[super.blocks].size)'
  BY <1>18 DEF Holds
<1>. QED  BY <1>1, <1>4, <1>6, <1>18, <1>19, <1>20
          DEF Known, Settled, FromSort, FromFill, FromWidths2, FromCompress,
              FromWidths3, FromBlockTable, FromInodes, FromInodeTable,
              FromWritten

(***************************************************************************)
(* The inode table                                                         *)
(***************************************************************************)
\* What is known of the block table once it is complete.
BlockTableDone ==
    /\ BlocksFit
    /\ block_buffer \in ByteArrays(BlockTableLen)
    /\ BlockRows(block_buffer, super.blocks)
    /\ Holds(block_buffer, super.blocks * BlockRowBits,
             super.blockbits.size, blocks[super.blocks].size)

LEMMA BlockTableKept ==
    ASSUME BlockTableDone, UNCHANGED <<super, blocks, block_buffer>>
    PROVE  BlockTableDone'
<1>1. super' = super /\ blocks' = blocks /\ block_buffer' = block_buffer
  OBVIOUS
<1>2. BlockRowBits' = BlockRowBits /\ BlockTableLen' = BlockTableLen
  BY <1>1 DEF BlockRowBits, BlockTableLen
<1>3. BlocksFit'
  BY <1>1 DEF BlockTableDone, BlocksFit
<1>4. BlockRows(block_buffer, super.blocks)'
  BY <1>1, <1>2 DEF BlockTableDone, BlockRows
<1>5. Holds(block_buffer, super.blocks * BlockRowBits,
            super.blockbits.size, blocks[super.blocks].size)'
  BY <1>1, <1>2 DEF BlockTableDone, Holds
<1>. QED  BY <1>1, <1>2, <1>3, <1>4, <1>5 DEF BlockTableDone

LEMMA InodeWidthsFacts ==
    ASSUME SuperTyped
    PROVE  /\ InodeWidths \in Seq(Nat) /\ Len(InodeWidths) = 11
           /\ \A k \in 1..11 : /\ InodeWidths[k] = super.bits[FieldOrder[k]]
                               /\ InodeWidths[k] \in 0..WordBits
                               /\ InodeWidths[k] \in Nat
                               /\ FieldOrder[k] \in Fields
           /\ Total(InodeWidths) \in Nat
           /\ \A k \in 1..11 :
                 /\ Sums(InodeWidths)[k - 1] \in Nat
                 /\ Sums(InodeWidths)[k - 1] + InodeWidths[k] =< Total(InodeWidths)
<1>1. \A k \in 1..11 : /\ InodeWidths[k] = super.bits[FieldOrder[k]]
                       /\ InodeWidths[k] \in 0..WordBits
                       /\ InodeWidths[k] \in Nat
                       /\ FieldOrder[k] \in Fields
  <2>. TAKE k \in 1..11
  <2>1. FieldOrder[k] \in Fields /\ k \in DOMAIN FieldOrder
    BY FieldNames
  <2>2. InodeWidths[k] = super.bits[FieldOrder[k]]
    BY <2>1 DEF InodeWidths
  <2>. QED  BY <2>1, <2>2, SuperFacts
<1>2. InodeWidths \in [1..11 -> Nat]
  <2>1. InodeWidths = [k \in 1..11 |-> super.bits[FieldOrder[k]]]
    BY FieldNames DEF InodeWidths
  <2>. QED  BY <1>1, <2>1
<1>3. InodeWidths \in Seq(Nat) /\ Len(InodeWidths) = 11
  BY <1>2, FunctionIsSeq
<1>4. \A k \in 1..11 : /\ Sums(InodeWidths)[k] = Sums(InodeWidths)[k - 1] + InodeWidths[k]
                       /\ Sums(InodeWidths)[k] =< Total(InodeWidths)
  BY <1>3, Owner
<1>5. Sums(InodeWidths) \in [0..11 -> Nat]
  BY <1>3, SumsFacts
<1>6. \A k \in 1..11 : Sums(InodeWidths)[k - 1] \in Nat
  <2>1. \A k \in 1..11 : k - 1 \in 0..11
    OBVIOUS
  <2>. QED  BY <1>5, <2>1
<1>7. Total(InodeWidths) \in Nat
  BY <1>3, Owner
<1>8. \A k \in 1..11 :
          Sums(InodeWidths)[k - 1] + InodeWidths[k] =< Total(InodeWidths)
  BY <1>4
<1>. QED  BY <1>1, <1>3, <1>6, <1>7, <1>8

\* Each number is that of one node.
LEMMA NodeAtFacts ==
    ASSUME NEW table \in NodeTables, Reordered(table)
    PROVE  \A i \in 1..Len(nodes) :
               /\ NodeAt(i - 1).number = i - 1
               /\ \E k \in 1..Len(nodes) : NodeAt(i - 1) = nodes[k]
<1>. DEFINE n == Len(nodes)
<1>1. /\ n \in Nat /\ DOMAIN nodes = 1..n /\ n = Len(table)
      /\ \A i \in 1..n : nodes[i].number \in Nat /\ nodes[i].number + 1 \in 1..n
      /\ \A i, k \in 1..n : nodes[i].number = nodes[k].number => i = k
  <2>1. /\ nodes \in Seq(Nodes) /\ Len(nodes) = Len(table)
        /\ \A i \in DOMAIN nodes : nodes[i].number + 1 \in DOMAIN table
        /\ \A i, k \in DOMAIN nodes : nodes[i].number = nodes[k].number => i = k
    BY DEF Reordered
  <2>2. n \in Nat /\ DOMAIN nodes = 1..n /\ \A i \in 1..n : nodes[i] \in Nodes
    BY <2>1, NodesFacts
  <2>3. \A i \in 1..n : nodes[i].number \in Nat
    BY <2>2 DEF Nodes
  <2>. QED  BY <2>1, <2>2, <2>3, TableFacts
<1>. HIDE DEF n
<1>2. PICK f \in [1..n -> 1..n] : f = [i \in 1..n |-> nodes[i].number + 1]
  BY <1>1
<1>3. f \in Injection(1..n, 1..n)
  <2>1. ASSUME NEW i \in 1..n, NEW k \in 1..n, f[i] = f[k]
        PROVE  i = k
    <3>1. nodes[i].number + 1 = nodes[k].number + 1
      BY <1>2, <2>1
    <3>2. nodes[i].number = nodes[k].number
      BY <1>1, <3>1
    <3>. QED  BY <1>1, <3>2
  <2>. QED  BY <2>1 DEF Injection, IsInjective
<1>4. f \in Surjection(1..n, 1..n)
  <2>1. IsFiniteSet(1..n)
    BY <1>1, FS_Interval
  <2>. QED  BY <1>3, <2>1, FS_Injection
<1>5. ASSUME NEW i \in 1..n
      PROVE  /\ NodeAt(i - 1).number = i - 1
             /\ \E k \in 1..n : NodeAt(i - 1) = nodes[k]
  <2>1. PICK k \in 1..n : f[k] = i
    BY <1>4 DEF Surjection
  <2>2. nodes[k].number = i - 1
    <3>1. nodes[k].number + 1 = i /\ nodes[k].number \in Nat
      BY <1>1, <1>2, <2>1
    <3>. QED  BY <3>1
  <2>3. PICK c : c = CHOOSE j \in DOMAIN nodes : nodes[j].number = i - 1
    OBVIOUS
  <2>4. c \in 1..n /\ nodes[c].number = i - 1
    BY <1>1, <2>2, <2>3
  <2>. QED  BY <2>3, <2>4 DEF NodeAt
<1>. QED  BY <1>5 DEF n

LEMMA InodeTableInv ==
    ASSUME NEW table \in NodeTables, Known(table), InodeTable
    PROVE  Known(table)'
<1>. DEFINE n == Len(nodes)
<1>1. /\ phase = "inodes" /\ phase' = "inode table" /\ next' = 1
      /\ nodes' = [i \in DOMAIN nodes |-> NodeAt(i - 1)]
      /\ bitbuffer' = NewInodeTable
      /\ UNCHANGED <<disabled, super, entry_buffer, blocks, block_buffer,
                     inode_buffer>>
  BY DEF InodeTable
<1>2. Settled(table)
  BY <1>1, KnownSettled
     DEF FromWidths3, FromBlockTable, FromInodes, FromInodeTable
<1>3. BlockTableDone
  BY <1>1 DEF Known, BlockTableDone, FromBlockTable, FromInodes
<1>4. BlockTableDone'
  BY <1>1, <1>3, BlockTableKept
<1>5. SuperTyped /\ Reordered(table)
  BY <1>2 DEF Settled
<1>6. /\ n \in Nat /\ DOMAIN nodes = 1..n /\ \A i \in 1..n : nodes[i] \in Nodes
  BY <1>5, NodesFacts DEF Reordered
<1>7. \A i \in 1..n : /\ NodeAt(i - 1).number = i - 1
                      /\ \E k \in 1..n : NodeAt(i - 1) = nodes[k]
  BY <1>5, NodeAtFacts
<1>. HIDE DEF n
<1>8. /\ DOMAIN nodes' = 1..n
      /\ \A i \in 1..n : /\ nodes'[i].number = i - 1
                         /\ \E k \in 1..n : nodes'[i] = nodes[k]
  BY <1>1, <1>6, <1>7
<1>9. nodes' \in Seq(Nodes) /\ Len(nodes') = n
  <2>1. nodes' \in [1..n -> Nodes]
    <3>1. \A i \in 1..n : nodes'[i] \in Nodes
      BY <1>6, <1>8
    <3>2. nodes' = [i \in 1..n |-> NodeAt(i - 1)]
      BY <1>1, <1>6
    <3>. QED  BY <3>1, <3>2
  <2>. QED  BY <1>6, <2>1, FunctionIsSeq
<1>10. super' = super /\ disabled' = disabled /\ entry_buffer' = entry_buffer
       /\ blocks' = blocks
  BY <1>1
<1>11. SuperTyped' /\ LogarithmOrNone'
  BY <1>2, <1>10 DEF Settled, SuperTyped, LogarithmOrNone
<1>12. Reordered(table)'
  <2>1. /\ Len(nodes) = Len(table)
        /\ \A i \in 1..n :
              /\ nodes[i].number + 1 \in DOMAIN table
              /\ \A f \in Kept : nodes[i][f] = table[nodes[i].number + 1][f]
    BY <1>5, <1>6 DEF Reordered
  <2>2. \A i \in 1..n :
              /\ nodes'[i].number + 1 \in DOMAIN table
              /\ \A f \in Kept : nodes'[i][f] = table[nodes'[i].number + 1][f]
    <3>. TAKE i \in 1..n
    <3>1. PICK k \in 1..n : nodes'[i] = nodes[k]
      BY <1>8
    <3>. QED  BY <2>1, <3>1
  <2>3. ASSUME NEW i \in 1..n, NEW k \in 1..n, nodes'[i].number = nodes'[k].number
        PROVE  i = k
    <3>1. i - 1 = k - 1
      BY <1>8, <2>3
    <3>. QED  BY <3>1
  <2>4. Len(nodes') = Len(table)
    BY <1>9, <2>1 DEF n
  <2>. QED  BY <1>8, <1>9, <2>2, <2>3, <2>4 DEF Reordered
<1>13. ASSUME NEW f \in Fields
       PROVE  FieldFits(f)'
  <2>1. FieldFits(f)
    BY <1>2 DEF Settled
  <2>2. \A i \in 1..n : \E k \in 1..n : Stored(nodes[i], f)' = Stored(nodes[k], f)
    <3>. TAKE i \in 1..n
    <3>1. PICK k \in 1..n : nodes'[i] = nodes[k]
      BY <1>8
    <3>2. Stored(nodes[i], f)' = Stored(nodes[k], f)
      BY <1>10, <3>1 DEF Stored
    <3>. QED  BY <3>2
  <2>3. CASE f \in disabled
    BY <1>10, <2>1, <2>3 DEF FieldFits
  <2>4. CASE f \notin disabled
    <3>1. ASSUME NEW i \in 1..n
          PROVE  /\ super'.bits[f] >= 1
                 /\ Stored(nodes[i], f)' < Pow2[super'.bits[f]]
      <4>1. PICK k \in 1..n : Stored(nodes[i], f)' = Stored(nodes[k], f)
        BY <2>2
      <4>2. super.bits[f] >= 1 /\ Stored(nodes[k], f) < Pow2[super.bits[f]]
        BY <1>6, <2>1, <2>4 DEF FieldFits
      <4>. QED  BY <1>10, <4>1, <4>2
    <3>. QED  BY <1>8, <1>10, <2>4, <3>1 DEF FieldFits
  <2>. QED  BY <2>3, <2>4
<1>14. MinimaOfRoot'
  <2>1. MinimaOfRoot
    BY <1>2 DEF Settled
  <2>2. ASSUME NEW f \in Times, NEW i \in 1..n, nodes'[i].number = 0
        PROVE  super'.min[f] = nodes'[i][f]
    <3>1. PICK k \in 1..n : nodes'[i] = nodes[k]
      BY <1>8
    <3>2. super.min[f] = nodes[k][f]
      BY <1>6, <2>1, <2>2, <3>1 DEF MinimaOfRoot
    <3>. QED  BY <1>10, <3>1, <3>2
  <2>. QED  BY <1>8, <2>2 DEF MinimaOfRoot
<1>15. Filled'
  <2>1. Filled
    BY <1>2 DEF Settled
  <2>2. ASSUME NEW i \in 1..n
        PROVE  /\ nodes'[i].index < Pow2[super'.block_log2]
               /\ Place(nodes[i])' + nodes'[i].size =< Len(entry_buffer')
               /\ \A k \in 1..nodes'[i].size :
                     entry_buffer'[Place(nodes[i])' + k] = <<nodes'[i].number, k>>
               /\ Directories(nodes)' # {} => Place(nodes[i])' < Len(entry_buffer')
    <3>1. PICK j \in 1..n : nodes'[i] = nodes[j]
      BY <1>8
    <3>2. Place(nodes[i])' = Place(nodes[j])
      BY <1>10, <3>1 DEF Place
    <3>3. Directories(nodes)' # {} => Directories(nodes) # {}
      <4>1. ASSUME NEW k \in Directories(nodes)'
            PROVE  Directories(nodes) # {}
        <5>1. k \in 1..n /\ nodes'[k].type = Directory
          BY <1>8, <4>1 DEF Directories
        <5>2. PICK m \in 1..n : nodes'[k] = nodes[m]
          BY <1>8, <5>1
        <5>. QED  BY <1>6, <5>1, <5>2 DEF Directories
      <4>. QED  BY <4>1
    <3>4. /\ nodes[j].index < Pow2[super.block_log2]
          /\ Place(nodes[j]) + nodes[j].size =< Len(entry_buffer)
          /\ \A k \in 1..nodes[j].size :
                entry_buffer[Place(nodes[j]) + k] = <<nodes[j].number, k>>
          /\ Directories(nodes) # {} => Place(nodes[j]) < Len(entry_buffer)
      BY <1>6, <2>1 DEF Filled
    <3>. QED  BY <1>10, <3>1, <3>2, <3>3, <3>4
  <2>3. entry_buffer' \in Seq(Nat \X Nat) /\ Len(entry_buffer') < WordSize
    BY <1>10, <2>1 DEF Filled
  <2>. QED  BY <1>8, <2>2, <2>3 DEF Filled
<1>16. Compressed'
  <2>1. Compressed
    BY <1>2 DEF Settled
  <2>. QED  BY <1>10, <2>1 DEF Compressed, BlockBytes
<1>17. /\ disabled' \in Disabled /\ super'.dirbits = DirectoryWidths(table)
       /\ super'.blocks = (Len(entry_buffer') + super'.block_size - 1)
                          \div Pow2[super'.block_log2]
  BY <1>2, <1>10 DEF Settled
<1>18. Settled(table)'
  BY <1>11, <1>12, <1>13, <1>14, <1>15, <1>16, <1>17 DEF Settled
<1>19. InodeWidths' = InodeWidths
  BY <1>10 DEF InodeWidths
<1>20. InodeTableLen \in Nat /\ InodeTableLen' = InodeTableLen
       /\ bitbuffer' = bitbuffer_init(InodeTableLen)
  <2>1. n * Total(InodeWidths) \in Nat
    <3>1. PICK t \in Nat : t = Total(InodeWidths)
      BY <1>5, InodeWidthsFacts
    <3>2. n * t \in Nat
      BY <1>6
    <3>. QED  BY <3>1, <3>2
  <2>2. InodeTableLen = Bytes(n * Total(InodeWidths))
    BY DEF InodeTableLen, n
  <2>3. InodeTableLen' = Bytes(n * Total(InodeWidths))
    BY <1>9, <1>19 DEF InodeTableLen
  <2>4. bitbuffer' = bitbuffer_init(InodeTableLen)
    BY <1>1 DEF NewInodeTable, InodeTableLen
  <2>. QED  BY <2>1, <2>2, <2>3, <2>4, BytesFacts
<1>21. /\ bitbuffer' \in Buffers(InodeTableLen') /\ bitbuffer'.index = 0
       /\ Clear(bitbuffer', InodeTableLen')
  BY <1>20, NewBuffer
<1>22. /\ next' \in 1..(Len(nodes') + 1)
       /\ bitbuffer'.index = (next' - 1) * Total(InodeWidths')
       /\ InodeRows(bitbuffer.buffer, next - 1)'
  <2>1. 1 \in 1..(n + 1) /\ 1 - 1 = 0 /\ 1..0 = {}
    BY <1>6
  <2>2. 0 * Total(InodeWidths') = 0
    <3>1. PICK t \in Nat : t = Total(InodeWidths')
      BY <1>5, <1>19, InodeWidthsFacts
    <3>2. 0 * t = 0
      OBVIOUS
    <3>. QED  BY <3>1, <3>2
  <2>3. next' = 1 /\ next' - 1 = 0
    BY <1>1, <2>1
  <2>4. InodeRows(bitbuffer.buffer, next - 1)'
    BY <2>1, <2>3 DEF InodeRows
  <2>. QED  BY <1>9, <1>21, <2>1, <2>2, <2>3, <2>4
<1>23. Clear(bitbuffer, InodeTableLen)'
  BY <1>21 DEF Clear
<1>24. PlacedFields \subseteq Fields
  BY FieldNames DEF PlacedFields
<1>25. bitbuffer'.index = ((next - 1) * Total(InodeWidths))'
  BY <1>22
<1>26. \A i \in DOMAIN nodes' : nodes'[i].number = i - 1
  BY <1>8
<1>. QED  BY <1>1, <1>4, <1>18, <1>21, <1>22, <1>23, <1>24, <1>25, <1>26
          DEF Known, Settled, BlockTableDone, FromSort, FromFill, FromWidths2,
              FromCompress, FromWidths3, FromBlockTable, FromInodes,
              FromInodeTable, FromWritten

\* What is stored of a node is a number, and its place is in its row.
LEMMA StoredFacts ==
    ASSUME SuperTyped, nodes \in Seq(Nodes)
    PROVE  \A i \in 1..Len(nodes), k \in 1..11 :
               Stored(nodes[i], FieldOrder[k]) \in Int
<1>. TAKE i \in 1..Len(nodes), k \in 1..11
<1>1. FieldOrder[k] \in Fields /\ i \in DOMAIN nodes
  BY NodesFacts, InodeWidthsFacts
<1>2. nodes[i][FieldOrder[k]] \in Nat
  BY <1>1, LargestFieldFacts
<1>3. super.min.ctime \in Nat /\ super.min.mtime \in Nat
  BY SuperFacts, WordFacts
<1>4. CASE FieldOrder[k] \in {"ctime", "mtime"}
  <2>1. super.min[FieldOrder[k]] \in Nat
    BY <1>3, <1>4
  <2>. QED  BY <1>2, <1>4, <2>1 DEF Stored
<1>5. CASE FieldOrder[k] \notin {"ctime", "mtime"}
  BY <1>2, <1>5 DEF Stored
<1>. QED  BY <1>4, <1>5

\* The rows are one after the other, up to the end of the table.
LEMMA RowPlaces ==
    ASSUME SuperTyped, nodes \in Seq(Nodes)
    PROVE  /\ InodeTableLen \in Nat
           /\ \A i \in 1..Len(nodes) :
                 /\ (i - 1) * Total(InodeWidths) \in Nat
                 /\ (i - 1) * Total(InodeWidths) + Total(InodeWidths)
                        = i * Total(InodeWidths)
                 /\ i * Total(InodeWidths) =< 8 * InodeTableLen
           /\ \A i, j \in 1..Len(nodes) :
                 j < i => j * Total(InodeWidths) =< (i - 1) * Total(InodeWidths)
<1>1. PICK w \in Nat, n \in Nat : w = Total(InodeWidths) /\ n = Len(nodes)
  BY NodesFacts, InodeWidthsFacts
<1>2. n * w \in Nat
  OBVIOUS
<1>3. Bytes(n * w) \in Nat /\ n * w =< 8 * Bytes(n * w)
  BY <1>2, BytesFacts
<1>4. InodeTableLen = Bytes(n * w)
  BY <1>1 DEF InodeTableLen
<1>5. ASSUME NEW i \in 1..n
      PROVE  /\ (i - 1) * w \in Nat /\ (i - 1) * w + w = i * w
             /\ i * w =< n * w /\ i * w \in Nat
  <2>1. i \in Nat /\ i - 1 \in Nat /\ i =< n
    OBVIOUS
  <2>2. i * w =< n * w /\ i * w \in Nat /\ (i - 1) * w \in Nat
    BY <2>1, TimesMonotonic
  <2>3. (i - 1) * w + w = i * w
    BY <2>1
  <2>. QED  BY <2>2, <2>3
<1>6. ASSUME NEW i \in 1..n, NEW j \in 1..n, j < i
      PROVE  j * w =< (i - 1) * w
  <2>1. j \in Nat /\ i - 1 \in Nat /\ j =< i - 1
    BY <1>6
  <2>. QED  BY <2>1, TimesMonotonic
<1>7. \A i \in 1..n : i * w =< 8 * Bytes(n * w)
  BY <1>2, <1>3, <1>5
<1>. QED  BY <1>1, <1>3, <1>4, <1>5, <1>6, <1>7

LEMMA InodeRowInv ==
    ASSUME NEW table \in NodeTables, Known(table), InodeRow
    PROVE  Known(table)'
<1>. DEFINE len == InodeTableLen
            row == [k \in DOMAIN FieldOrder |->
                       [width |-> InodeWidths[k],
                        value |-> Stored(nodes[next], FieldOrder[k])]]
            new == bitbuffer'
<1>1. /\ phase = "inode table" /\ phase' = "inode table"
      /\ next =< Len(nodes) /\ next' = next + 1
      /\ UNCHANGED <<disabled, nodes, super, entry_buffer, blocks,
                     block_buffer, inode_buffer>>
      /\ new = PutRow(bitbuffer, row)
  BY DEF InodeRow
<1>2. /\ bitbuffer \in Buffers(InodeTableLen)
      /\ next \in 1..(Len(nodes) + 1)
      /\ bitbuffer.index = (next - 1) * Total(InodeWidths)
      /\ Clear(bitbuffer, InodeTableLen)
      /\ InodeRows(bitbuffer.buffer, next - 1)
      /\ \A i \in DOMAIN nodes : nodes[i].number = i - 1
  BY <1>1 DEF Known, FromInodeTable
<1>3. Settled(table)
  BY <1>1, KnownSettled
     DEF FromWidths3, FromBlockTable, FromInodes, FromInodeTable
<1>4. Settled(table)'
  BY <1>1, <1>3, SettledKept
<1>5. BlockTableDone
  BY <1>1 DEF Known, BlockTableDone, FromBlockTable, FromInodes, FromInodeTable
<1>6. BlockTableDone'
  BY <1>1, <1>5, BlockTableKept
<1>7. /\ super' = super /\ nodes' = nodes
      /\ InodeWidths' = InodeWidths /\ InodeTableLen' = len
      /\ \A i, f : Stored(nodes[i], f)' = Stored(nodes[i], f)
  BY <1>1 DEF InodeTableLen, InodeWidths, Stored
<1>8. SuperTyped /\ nodes \in Seq(Nodes)
  BY <1>3 DEF Settled, Reordered
<1>9. len \in Nat /\ WordBits \in Nat
  BY <1>8, RowPlaces, WordFacts
<1>10. PICK k \in Nat, n \in Nat, w \in Nat :
          /\ k = next /\ n = Len(nodes) /\ w = Total(InodeWidths)
          /\ k \in 1..n /\ DOMAIN nodes = 1..n
  <2>1. PICK n \in Nat, w \in Nat :
            n = Len(nodes) /\ w = Total(InodeWidths) /\ DOMAIN nodes = 1..n
    BY <1>8, NodesFacts, InodeWidthsFacts
  <2>2. next \in 1..(n + 1) /\ next =< n
    BY <1>1, <1>2, <2>1
  <2>3. next \in 1..n /\ next \in Nat
    BY <2>2
  <2>. QED  BY <2>1, <2>3
<1>11. /\ row \in Seq(RowFields) /\ Len(row) = 11 /\ DOMAIN row = 1..11
       /\ \A f \in 1..11 : /\ row[f].width = InodeWidths[f]
                           /\ row[f].value = Stored(nodes[k], FieldOrder[f])
  <2>1. row = [f \in 1..11 |->
                  [width |-> InodeWidths[f],
                   value |-> Stored(nodes[k], FieldOrder[f])]]
    BY <1>10, FieldNames
  <2>2. \A f \in 1..11 : InodeWidths[f] \in 0..WordBits
                         /\ Stored(nodes[k], FieldOrder[f]) \in Int
    BY <1>8, <1>10, InodeWidthsFacts, StoredFacts
  <2>. HIDE DEF row
  <2>3. row \in [1..11 -> RowFields]
    BY <2>1, <2>2 DEF RowFields
  <2>4. row \in Seq(RowFields) /\ Len(row) = 11 /\ DOMAIN row = 1..11
    BY <2>3, FunctionIsSeq
  <2>. QED  BY <2>1, <2>4
<1>. HIDE DEF row, len
<1>12. RowWidths(row) = InodeWidths
  <2>1. RowWidths(row) = [f \in 1..11 |-> InodeWidths[f]]
    BY <1>11 DEF RowWidths
  <2>2. InodeWidths = [f \in 1..11 |-> InodeWidths[f]]
    <3>1. InodeWidths \in Seq(Nat) /\ Len(InodeWidths) = 11
      BY <1>8, InodeWidthsFacts
    <3>. QED  BY <3>1, LenProperties
  <2>. QED  BY <2>1, <2>2
<1>13. PICK i \in Nat : /\ i = (k - 1) * w /\ i = bitbuffer.index
                        /\ i + w = k * w /\ i + w =< 8 * len
  <2>1. /\ (k - 1) * w \in Nat /\ (k - 1) * w + w = k * w
        /\ k * w =< 8 * len
    BY <1>8, <1>10, RowPlaces DEF len
  <2>2. bitbuffer.index = (k - 1) * w
    BY <1>2, <1>10
  <2>. QED  BY <2>1, <2>2
<1>14. RowPut(bitbuffer, new, row, 11, len)
  <2>1. bitbuffer.index + Total(RowWidths(row)) =< 8 * len
    BY <1>10, <1>12, <1>13
  <2>2. bitbuffer \in Buffers(len) /\ Clear(bitbuffer, len)
    BY <1>2 DEF len
  <2>. QED  BY <1>1, <1>9, <1>11, <2>1, <2>2, PutRowFacts
<1>15. /\ new \in Buffers(len) /\ Clear(new, len)
       /\ \A j, m \in Nat, value \in Int :
             j + m =< i /\ Holds(bitbuffer.buffer, j, m, value) =>
                 Holds(new.buffer, j, m, value)
       /\ \A f \in 1..11 : Holds(new.buffer, i + Sums(InodeWidths)[f - 1],
                                 InodeWidths[f],
                                 Stored(nodes[k], FieldOrder[f]))
  BY <1>11, <1>12, <1>13, <1>14 DEF RowPut
<1>16. new.index = i + w
  <2>1. 11 = Len(InodeWidths)
    BY <1>8, InodeWidthsFacts
  <2>2. Sums(InodeWidths)[11] = w
    BY <1>10, <2>1 DEF Total
  <2>. QED  BY <1>12, <1>13, <1>14, <2>2 DEF RowPut
<1>17. ASSUME NEW b \in 1..k, NEW f \in 1..11
       PROVE  Holds(new.buffer,
                    (b - 1) * w + Sums(InodeWidths)[f - 1],
                    InodeWidths[f], Stored(nodes[b], FieldOrder[f]))
  <2>1. CASE b = k
    BY <1>13, <1>15, <2>1
  <2>2. CASE b # k
    <3>1. b \in 1..(next - 1) /\ b \in 1..n /\ b < k
      BY <1>10, <2>2
    <3>2. PICK v \in Int : v = Stored(nodes[b], FieldOrder[f])
      BY <1>8, <1>10, <3>1, StoredFacts
    <3>3. PICK s \in Nat, m \in Nat : s = Sums(InodeWidths)[f - 1]
                                      /\ m = InodeWidths[f] /\ s + m =< w
      BY <1>8, <1>10, InodeWidthsFacts
    <3>4. PICK z \in Nat : z = (b - 1) * w /\ z + w =< i
      <4>1. (b - 1) * w \in Nat /\ (b - 1) * w + w = b * w
            /\ b * w =< (k - 1) * w
        BY <1>8, <1>10, <3>1, RowPlaces
      <4>. QED  BY <1>13, <4>1
    <3>5. Holds(bitbuffer.buffer, (b - 1) * w + s, m, v)
      BY <1>2, <1>10, <3>1, <3>2, <3>3, FieldNames DEF InodeRows
    <3>6. z + s \in Nat /\ (z + s) + m =< i
      BY <3>3, <3>4
    <3>7. Holds(new.buffer, z + s, m, v)
      BY <1>15, <3>4, <3>5, <3>6
    <3>. QED  BY <3>2, <3>3, <3>4, <3>7
  <2>. QED  BY <2>1, <2>2
<1>18. /\ next' \in 1..(Len(nodes') + 1) /\ next' - 1 = k
       /\ bitbuffer'.index = ((next - 1) * Total(InodeWidths))'
  <2>1. k + 1 \in 1..(n + 1) /\ (k + 1) - 1 = k /\ next' = k + 1
    <3>1. k \in 1..n
      BY <1>10
    <3>2. next' = k + 1
      BY <1>1, <1>10
    <3>. QED  BY <3>1, <3>2
  <2>. QED  BY <1>7, <1>10, <1>13, <1>16, <2>1
<1>19. InodeRows(bitbuffer.buffer, next - 1)'
  <2>1. \A b \in 1..(next' - 1) : \A f \in DOMAIN FieldOrder :
            Holds(new.buffer,
                  (b - 1) * Total(InodeWidths') + Sums(InodeWidths')[f - 1],
                  InodeWidths'[f], Stored(nodes[b], FieldOrder[f])')
    <3>1. DOMAIN FieldOrder = 1..11
      BY FieldNames
    <3>2. ASSUME NEW b \in 1..k, NEW f \in 1..11
          PROVE  Holds(new.buffer,
                       (b - 1) * Total(InodeWidths) + Sums(InodeWidths)[f - 1],
                       InodeWidths[f], Stored(nodes[b], FieldOrder[f])')
      <4>1. Stored(nodes[b], FieldOrder[f])' = Stored(nodes[b], FieldOrder[f])
        BY <1>7
      <4>. QED  BY <1>10, <1>17, <4>1
    <3>. QED  BY <1>7, <1>18, <3>1, <3>2
  <2>. QED  BY <2>1 DEF InodeRows
<1>20. Clear(bitbuffer, InodeTableLen)'
  BY <1>7, <1>15 DEF Clear
<1>21. new \in Buffers(InodeTableLen')
  BY <1>7, <1>15
<1>22. PlacedFields \subseteq Fields
  BY FieldNames DEF PlacedFields
<1>23. \A b \in DOMAIN nodes' : nodes'[b].number = b - 1
  BY <1>2, <1>7
<1>. QED  BY <1>1, <1>4, <1>6, <1>18, <1>19, <1>20, <1>21, <1>22, <1>23
          DEF Known, Settled, BlockTableDone, FromSort, FromFill, FromWidths2,
              FromCompress, FromWidths3, FromBlockTable, FromInodes,
              FromInodeTable, FromWritten

LEMMA WriteInv ==
    ASSUME NEW table \in NodeTables, Known(table), Write
    PROVE  Known(table)'
<1>1. /\ phase = "inode table" /\ phase' = "written"
      /\ next > Len(nodes)
      /\ inode_buffer' = bitbuffer.buffer
      /\ UNCHANGED <<disabled, nodes, super, entry_buffer, blocks,
                     block_buffer, bitbuffer, next>>
  BY DEF Write
<1>2. /\ bitbuffer \in Buffers(InodeTableLen)
      /\ next \in 1..(Len(nodes) + 1)
      /\ InodeRows(bitbuffer.buffer, next - 1)
      /\ \A i \in DOMAIN nodes : nodes[i].number = i - 1
  BY <1>1 DEF Known, FromInodeTable
<1>3. Settled(table)
  BY <1>1, KnownSettled
     DEF FromWidths3, FromBlockTable, FromInodes, FromInodeTable
<1>4. Settled(table)'
  BY <1>1, <1>3, SettledKept
<1>5. BlockTableDone
  BY <1>1 DEF Known, BlockTableDone, FromBlockTable, FromInodes, FromInodeTable
<1>6. BlockTableDone'
  BY <1>1, <1>5, BlockTableKept
<1>7. /\ super' = super /\ nodes' = nodes
      /\ InodeWidths' = InodeWidths /\ InodeTableLen' = InodeTableLen
      /\ \A i, f : Stored(nodes[i], f)' = Stored(nodes[i], f)
  BY <1>1 DEF InodeTableLen, InodeWidths, Stored
<1>8. next - 1 = Len(nodes)
  <2>1. PICK n \in Nat : n = Len(nodes)
    BY <1>3, NodesFacts DEF Settled, Reordered
  <2>2. next \in 1..(n + 1) /\ next > n
    BY <1>1, <1>2, <2>1
  <2>. QED  BY <2>1, <2>2
<1>9. inode_buffer' \in ByteArrays(InodeTableLen')
  BY <1>1, <1>2, <1>7 DEF Buffers
<1>10. InodeRows(inode_buffer, Len(nodes))'
  <2>1. \A b \in 1..Len(nodes') : \A f \in DOMAIN FieldOrder :
            Holds(inode_buffer',
                  (b - 1) * Total(InodeWidths') + Sums(InodeWidths')[f - 1],
                  InodeWidths'[f], Stored(nodes[b], FieldOrder[f])')
    <3>1. ASSUME NEW b \in 1..Len(nodes), NEW f \in DOMAIN FieldOrder
          PROVE  Holds(inode_buffer',
                       (b - 1) * Total(InodeWidths) + Sums(InodeWidths)[f - 1],
                       InodeWidths[f], Stored(nodes[b], FieldOrder[f])')
      <4>1. Stored(nodes[b], FieldOrder[f])' = Stored(nodes[b], FieldOrder[f])
        BY <1>7
      <4>. QED  BY <1>1, <1>2, <1>8, <4>1 DEF InodeRows
    <3>. QED  BY <1>7, <3>1
  <2>. QED  BY <2>1 DEF InodeRows
<1>11. PlacedFields \subseteq Fields
  BY FieldNames DEF PlacedFields
<1>12. \A b \in DOMAIN nodes' : nodes'[b].number = b - 1
  BY <1>2, <1>7
<1>. QED  BY <1>1, <1>4, <1>6, <1>9, <1>10, <1>11, <1>12
          DEF Known, Settled, BlockTableDone, FromSort, FromFill, FromWidths2,
              FromCompress, FromWidths3, FromBlockTable, FromInodes,
              FromInodeTable, FromWritten

\* A step that changes nothing keeps what is known.
LEMMA StutterInv ==
    ASSUME NEW table \in NodeTables, Known(table), UNCHANGED vars
    PROVE  Known(table)'
<1>1. /\ phase' = phase /\ disabled' = disabled /\ nodes' = nodes
      /\ super' = super /\ entry_buffer' = entry_buffer /\ blocks' = blocks
      /\ bitbuffer' = bitbuffer /\ next' = next
      /\ block_buffer' = block_buffer /\ inode_buffer' = inode_buffer
  BY DEF vars, tables
<1>2. SuperTyped' /\ LogarithmOrNone' /\ Reordered(table)'
  <2>1. SuperTyped /\ LogarithmOrNone /\ Reordered(table)
    BY DEF Known
  <2>. QED  BY <1>1, <2>1 DEF SuperTyped, LogarithmOrNone, Reordered
<1>3. ASSUME NEW f \in Fields, FieldFits(f)
      PROVE  FieldFits(f)'
  BY <1>1, <1>3, FieldStillFits
<1>4. MinimaOfRoot => MinimaOfRoot'
  BY <1>1 DEF MinimaOfRoot
<1>5. Filled => Filled'
  BY <1>1 DEF Filled, Place, Directories
<1>6. Compressed => Compressed'
  BY <1>1 DEF Compressed, BlockBytes
<1>7. BlocksFit => BlocksFit'
  BY <1>1 DEF BlocksFit
<1>8. /\ BlockRowBits' = BlockRowBits /\ BlockTableLen' = BlockTableLen
      /\ InodeWidths' = InodeWidths /\ InodeTableLen' = InodeTableLen
      /\ \A i, f : Stored(nodes[i], f)' = Stored(nodes[i], f)
  BY <1>1 DEF BlockRowBits, BlockTableLen, InodeWidths, InodeTableLen, Stored
<1>9. /\ BlockRows(bitbuffer.buffer, next - 1) =>
             BlockRows(bitbuffer.buffer, next - 1)'
      /\ BlockRows(block_buffer, super.blocks) =>
             BlockRows(block_buffer, super.blocks)'
  BY <1>1, <1>8 DEF BlockRows
<1>10. ASSUME NEW f \in DOMAIN FieldOrder, NEW i
       PROVE  Stored(nodes[i], FieldOrder[f])' = Stored(nodes[i], FieldOrder[f])
  BY <1>8
<1>11. InodeRows(bitbuffer.buffer, next - 1) =>
           InodeRows(bitbuffer.buffer, next - 1)'
  BY <1>1, <1>8, <1>10 DEF InodeRows
<1>12. InodeRows(inode_buffer, Len(nodes)) => InodeRows(inode_buffer, Len(nodes))'
  BY <1>1, <1>8, <1>10 DEF InodeRows
<1>13. Holds(block_buffer, super.blocks * BlockRowBits,
             super.blockbits.size, blocks[super.blocks].size) =>
       Holds(block_buffer, super.blocks * BlockRowBits,
             super.blockbits.size, blocks[super.blocks].size)'
  BY <1>1, <1>8 DEF Holds
<1>14. /\ Clear(bitbuffer, BlockTableLen) => Clear(bitbuffer, BlockTableLen)'
       /\ Clear(bitbuffer, InodeTableLen) => Clear(bitbuffer, InodeTableLen)'
  BY <1>1, <1>8 DEF Clear
<1>15. PlacedFields \subseteq Fields
  BY FieldNames DEF PlacedFields
<1>16. /\ phase \in FromSort =>
             /\ \A f \in Fields \ PlacedFields : FieldFits(f)'
             /\ MinimaOfRoot'
             /\ super.dirbits = DirectoryWidths(table)
       /\ phase \in FromCompress => \A f \in PlacedFields : FieldFits(f)'
  BY <1>3, <1>4, <1>15 DEF Known
<1>17. /\ disabled' \in Disabled
       /\ phase' = "widths 1" => nodes' = table
       /\ phase' \in FromSort =>
             /\ \A f \in Fields \ PlacedFields : FieldFits(f)'
             /\ MinimaOfRoot'
             /\ super'.dirbits = DirectoryWidths(table)
       /\ phase' = "fill" =>
             \A i, k \in DOMAIN nodes' : i < k => nodes'[i].ntype =< nodes'[k].ntype
       /\ phase' \in FromWidths2 => Filled'
       /\ phase' \in FromCompress =>
             /\ \A f \in PlacedFields : FieldFits(f)'
             /\ super'.blocks = (Len(entry_buffer') + super'.block_size - 1)
                                \div Pow2[super'.block_log2]
       /\ phase' \in FromWidths3 => Compressed'
       /\ phase' \in FromBlockTable => BlocksFit'
  BY <1>1, <1>5, <1>6, <1>7, <1>16 DEF Known
<1>18. /\ phase' = "block table" =>
              /\ bitbuffer' \in Buffers(BlockTableLen')
              /\ next' \in 1..(super'.blocks + 1)
              /\ bitbuffer'.index = (next' - 1) * BlockRowBits'
              /\ Clear(bitbuffer, BlockTableLen)'
              /\ BlockRows(bitbuffer.buffer, next - 1)'
       /\ phase' \in FromInodes =>
              /\ block_buffer' \in ByteArrays(BlockTableLen')
              /\ BlockRows(block_buffer, super.blocks)'
              /\ Holds(block_buffer, super.blocks * BlockRowBits,
                       super.blockbits.size, blocks[super.blocks].size)'
  BY <1>1, <1>8, <1>9, <1>13, <1>14 DEF Known
<1>19. /\ phase' \in FromInodeTable =>
              \A i \in DOMAIN nodes' : nodes'[i].number = i - 1
       /\ phase' = "inode table" =>
              /\ bitbuffer' \in Buffers(InodeTableLen')
              /\ next' \in 1..(Len(nodes') + 1)
              /\ bitbuffer'.index = ((next - 1) * Total(InodeWidths))'
              /\ Clear(bitbuffer, InodeTableLen)'
              /\ InodeRows(bitbuffer.buffer, next - 1)'
       /\ phase' \in FromWritten =>
              /\ inode_buffer' \in ByteArrays(InodeTableLen')
              /\ InodeRows(inode_buffer, Len(nodes))'
  BY <1>1, <1>8, <1>11, <1>12, <1>14 DEF Known
<1>. QED  BY <1>2, <1>17, <1>18, <1>19 DEF Known

(***************************************************************************)
(* The invariant of the tables holds in every state.                       *)
(***************************************************************************)
THEOREM TablesInvariance == Spec => []TablesInv
<1>1. Init => TablesInv
  BY TablesInitInv
<1>2. TablesInv /\ [Next]_vars => TablesInv'
  <2>. SUFFICES ASSUME TablesInv, [Next]_vars
                PROVE  TablesInv'
    OBVIOUS
  <2>1. CASE phase \in {"failed", "crashed"}
    <3>1. phase' = phase
      BY <2>1 DEF vars, Next, Widths1, SortByType, FillEntries, Widths2,
                  Compress, CompressRefused, Widths3, BlockRow, LastBlockSize,
                  NoBlocks, InodeTable, InodeRow, Write, Bail
    <3>. QED  BY <2>1, <3>1 DEF TablesInv
  <2>2. ASSUME NEW table \in NodeTables, Known(table)
        PROVE  TablesInv'
    <3>1. CASE CompressRefused \/ NoBlocks \/ Bail
      BY <3>1 DEF TablesInv, CompressRefused, NoBlocks, Bail
    <3>2. CASE Widths1
      BY <2>2, <3>2, Widths1Inv DEF TablesInv
    <3>3. CASE SortByType
      BY <2>2, <3>3, SortByTypeInv DEF TablesInv
    <3>4. CASE FillEntries
      BY <2>2, <3>4, FillEntriesInv DEF TablesInv
    <3>5. CASE Widths2
      BY <2>2, <3>5, Widths2Inv DEF TablesInv
    <3>6. CASE Compress
      BY <2>2, <3>6, CompressInv DEF TablesInv
    <3>7. CASE Widths3
      BY <2>2, <3>7, Widths3Inv DEF TablesInv
    <3>8. CASE BlockRow
      BY <2>2, <3>8, BlockRowInv DEF TablesInv
    <3>9. CASE LastBlockSize
      BY <2>2, <3>9, LastBlockSizeInv DEF TablesInv
    <3>10. CASE InodeTable
      BY <2>2, <3>10, InodeTableInv DEF TablesInv
    <3>11. CASE InodeRow
      BY <2>2, <3>11, InodeRowInv DEF TablesInv
    <3>12. CASE Write
      BY <2>2, <3>12, WriteInv DEF TablesInv
    <3>13. CASE UNCHANGED vars
      BY <2>2, <3>13, StutterInv DEF TablesInv
    <3>. QED  BY <3>1, <3>2, <3>3, <3>4, <3>5, <3>6, <3>7, <3>8, <3>9, <3>10,
                 <3>11, <3>12, <3>13 DEF Next
  <2>. QED  BY <2>1, <2>2 DEF TablesInv
<1>. QED  BY <1>1, <1>2, PTL DEF Spec

(***************************************************************************)
(* What the readers find in the inode table                                *)
(***************************************************************************)
\* What node_fill gets for each field.
Raw(number) ==
    [f \in Fields |->
        LET k == CHOOSE k \in DOMAIN FieldOrder : FieldOrder[k] = f
        IN  bitbuffer_getbits(
                bitbuffer_setpos(
                    bitbuffer_init_from_buffer(inode_buffer),
                    number * Total(InodeWidths) + Sums(InodeWidths)[k - 1]),
                super.bits[f]).value]

InodeTableDone ==
    /\ \A i \in DOMAIN nodes : nodes[i].number = i - 1
    /\ inode_buffer \in ByteArrays(InodeTableLen)
    /\ InodeRows(inode_buffer, Len(nodes))

\* All that is known when the tables are written.
WrittenKnown(table) ==
    /\ Settled(table)
    /\ BlockTableDone
    /\ InodeTableDone

LEMMA KnownWritten ==
    ASSUME NEW table, Known(table), Written
    PROVE  WrittenKnown(table)
<1>1. phase = "written"
  BY DEF Written
<1>2. Settled(table)
  BY <1>1, KnownSettled DEF FromWidths3, FromBlockTable, FromInodes,
                            FromInodeTable, FromWritten
<1>3. BlockTableDone /\ InodeTableDone
  BY <1>1 DEF Known, BlockTableDone, InodeTableDone, FromBlockTable, FromInodes,
              FromInodeTable, FromWritten
<1>. QED  BY <1>2, <1>3 DEF WrittenKnown

LEMMA RawFacts ==
    ASSUME SuperTyped, nodes \in Seq(Nodes), InodeTableDone
    PROVE  \A i \in 1..Len(nodes), f \in Fields :
               Raw(i - 1)[f] = Stored(nodes[i], f) % Pow2[super.bits[f]]
<1>. SUFFICES ASSUME NEW i \in 1..Len(nodes), NEW f \in Fields
              PROVE  Raw(i - 1)[f] = Stored(nodes[i], f) % Pow2[super.bits[f]]
  OBVIOUS
<1>1. PICK k \in 1..11 :
          /\ FieldOrder[k] = f
          /\ k = CHOOSE j \in DOMAIN FieldOrder : FieldOrder[j] = f
  BY FieldNames
<1>2. PICK w \in Nat, n \in Nat, len \in Nat :
          /\ w = Total(InodeWidths) /\ n = Len(nodes) /\ len = InodeTableLen
  BY NodesFacts, InodeWidthsFacts, RowPlaces
<1>3. PICK s \in Nat, m \in 0..WordBits, v \in Int :
          /\ s = Sums(InodeWidths)[k - 1] /\ m = super.bits[f]
          /\ m = InodeWidths[k] /\ v = Stored(nodes[i], f) /\ s + m =< w
  <2>1. /\ Sums(InodeWidths)[k - 1] \in Nat
        /\ Sums(InodeWidths)[k - 1] + InodeWidths[k] =< Total(InodeWidths)
        /\ InodeWidths[k] = super.bits[FieldOrder[k]]
        /\ InodeWidths[k] \in 0..WordBits
    BY InodeWidthsFacts
  <2>2. Stored(nodes[i], FieldOrder[k]) \in Int
    BY StoredFacts
  <2>. QED  BY <1>1, <1>2, <2>1, <2>2
<1>4. PICK z \in Nat : z = (i - 1) * w /\ z + w =< 8 * len
  <2>1. /\ (i - 1) * w \in Nat /\ (i - 1) * w + w = i * w
        /\ i * w =< 8 * len
    BY <1>2, RowPlaces
  <2>. QED  BY <2>1
<1>5. Holds(inode_buffer, z + s, m, v)
  <2>1. \A b \in 1..Len(nodes) : \A j \in DOMAIN FieldOrder :
            Holds(inode_buffer,
                  (b - 1) * Total(InodeWidths) + Sums(InodeWidths)[j - 1],
                  InodeWidths[j], Stored(nodes[b], FieldOrder[j]))
    BY DEF InodeTableDone, InodeRows
  <2>2. k \in DOMAIN FieldOrder
    BY FieldNames
  <2>. QED  BY <1>1, <1>2, <1>3, <1>4, <2>1, <2>2
<1>6. z + s \in Nat /\ (z + s) + m =< 8 * len
  <2>1. m \in Nat /\ s + m =< w
    BY <1>3, WordFacts
  <2>2. z + w =< 8 * len
    BY <1>4
  <2>. QED  BY <2>1, <2>2
<1>7. bitbuffer_getbits(At(inode_buffer, z + s), m).value = v % Pow2[m]
  <2>1. inode_buffer \in ByteArrays(len)
    BY <1>2 DEF InodeTableDone
  <2>2. bitbuffer_getbits(At(inode_buffer, z + s), m)
            = [value |-> v % Pow2[m], bb |-> At(inode_buffer, (z + s) + m)]
    BY <1>5, <1>6, <2>1, FieldRead, WordFacts
  <2>. QED  BY <2>2
<1>8. bitbuffer_setpos(bitbuffer_init_from_buffer(inode_buffer), z + s)
          = At(inode_buffer, z + s)
  BY DEF bitbuffer_setpos, bitbuffer_init_from_buffer, At
<1>9. Raw(i - 1)[f]
          = bitbuffer_getbits(
                bitbuffer_setpos(bitbuffer_init_from_buffer(inode_buffer),
                                 (i - 1) * w + s), m).value
  BY <1>1, <1>2, <1>3 DEF Raw
<1>. QED  BY <1>3, <1>4, <1>7, <1>8, <1>9

\* A field that is not disabled is got as it was put, a disabled one as 0.
LEMMA RawValues ==
    ASSUME SuperTyped, nodes \in Seq(Nodes), InodeTableDone,
           \A f \in Fields : FieldFits(f)
    PROVE  \A i \in 1..Len(nodes), f \in Fields :
               /\ f \in disabled => Raw(i - 1)[f] = 0 /\ super.bits[f] = 0
               /\ f \notin disabled => super.bits[f] >= 1 /\ super.bits[f] # 0
               /\ f \notin disabled /\ Stored(nodes[i], f) >= 0 =>
                      Raw(i - 1)[f] = Stored(nodes[i], f)
<1>. SUFFICES ASSUME NEW i \in 1..Len(nodes), NEW f \in Fields
              PROVE  /\ f \in disabled => Raw(i - 1)[f] = 0 /\ super.bits[f] = 0
                     /\ f \notin disabled => super.bits[f] >= 1 /\ super.bits[f] # 0
                     /\ f \notin disabled /\ Stored(nodes[i], f) >= 0 =>
                            Raw(i - 1)[f] = Stored(nodes[i], f)
  OBVIOUS
<1>1. i \in DOMAIN nodes /\ FieldFits(f)
  BY NodesFacts
<1>2. PICK k \in 1..11 : FieldOrder[k] = f
  BY FieldNames
<1>3. PICK v \in Int, m \in 0..WordBits : v = Stored(nodes[i], f) /\ m = super.bits[f]
  BY <1>2, StoredFacts, SuperFacts
<1>4. m \in Nat /\ Pow2[m] \in Nat \ {0}
  <2>1. m \in Nat
    BY WordFacts
  <2>. QED  BY <2>1, Pow2Facts
<1>5. PICK p \in Nat : p = Pow2[m] /\ p > 0
  BY <1>4
<1>6. Raw(i - 1)[f] = v % p
  BY <1>3, <1>5, RawFacts
<1>7. CASE f \in disabled
  <2>1. m = 0
    BY <1>1, <1>3, <1>7 DEF FieldFits
  <2>2. p = 1
    BY <1>5, <2>1, Pow2Facts
  <2>3. v % 1 = 0
    OBVIOUS
  <2>. QED  BY <1>3, <1>6, <1>7, <2>1, <2>2, <2>3
<1>8. CASE f \notin disabled
  <2>1. m >= 1 /\ v < p
    BY <1>1, <1>3, <1>5, <1>8 DEF FieldFits
  <2>2. v >= 0 => v % p = v
    BY <1>5, <2>1
  <2>3. m # 0
    BY <2>1
  <2>. QED  BY <1>3, <1>6, <1>8, <2>1, <2>2, <2>3
<1>. QED  BY <1>7, <1>8

\* What node_fill finds of a node.
NodeRead(i) ==
    LET node == nodes[i]
        read == node_fill(i - 1)
    IN  /\ \A f \in {"type", "owner_mode"} \cup PlacedFields :
              read[f] = node[f]
        /\ \A f \in {"group_mode", "other_mode"} :
              read[f] = IF f \in disabled THEN node.owner_mode ELSE node[f]
        /\ \A f \in {"uid", "gid"} :
              read[f] = IF f \in disabled THEN 0 ELSE node[f]
        /\ \A f \in Times \ disabled :
              node[f] >= super.min[f] => read[f] = node[f]

LEMMA NodeFill ==
    ASSUME NEW table, WrittenKnown(table)
    PROVE  \A i \in 1..Len(nodes) : NodeRead(i)
<1>. SUFFICES ASSUME NEW i \in 1..Len(nodes)
              PROVE  NodeRead(i)
  OBVIOUS
<1>. DEFINE node == nodes[i]
            read == node_fill(i - 1)
<1>1. /\ SuperTyped /\ nodes \in Seq(Nodes) /\ InodeTableDone
      /\ \A f \in Fields : FieldFits(f)
      /\ disabled \in Disabled
  BY DEF WrittenKnown, Settled, Reordered
<1>2. disabled \subseteq OptionalFields
  BY <1>1, DisabledAssumption
<1>3. i \in DOMAIN nodes
  BY <1>1, NodesFacts
<1>4. \A f \in Fields : node[f] \in Nat
  BY <1>1, <1>3, LargestFieldFacts
<1>5. \A f \in Fields \ Times : Stored(node, f) = node[f] /\ node[f] >= 0
  BY <1>4 DEF Stored, Times
<1>6. \A f \in Fields \ Times :
          /\ f \in disabled => Raw(i - 1)[f] = 0 /\ super.bits[f] = 0
          /\ f \notin disabled => Raw(i - 1)[f] = node[f] /\ super.bits[f] # 0
  BY <1>1, <1>5, RawValues
<1>7. /\ DOMAIN Raw(i - 1) = Fields
      /\ read = [Raw(i - 1) EXCEPT
            !.group_mode = IF super.bits["group_mode"] = 0
                           THEN Raw(i - 1).owner_mode ELSE Raw(i - 1)["group_mode"],
            !.other_mode = IF super.bits["other_mode"] = 0
                           THEN Raw(i - 1).owner_mode ELSE Raw(i - 1)["other_mode"],
            !.uid = IF super.bits["uid"] = 0 THEN 0 ELSE Raw(i - 1)["uid"],
            !.gid = IF super.bits["gid"] = 0 THEN 0 ELSE Raw(i - 1)["gid"],
            !.ctime = (IF super.bits.ctime = 0 THEN super.ctime
                       ELSE Raw(i - 1).ctime) + super.min.ctime,
            !.mtime = (IF super.bits.mtime = 0
                       THEN IF super.bits.ctime = 0 THEN super.ctime
                            ELSE Raw(i - 1).ctime
                       ELSE Raw(i - 1).mtime) + super.min.mtime]
  <2>1. DOMAIN Raw(i - 1) = Fields
    BY DEF Raw
  <2>. QED  BY <2>1 DEF node_fill, Raw
<1>. HIDE DEF read
<1>8. ASSUME NEW f \in {"type", "owner_mode"} \cup PlacedFields
      PROVE  read[f] = node[f]
  <2>1. f \in Fields \ Times /\ f \notin OptionalFields
        /\ f # "group_mode" /\ f # "other_mode" /\ f # "uid" /\ f # "gid"
        /\ f # "ctime" /\ f # "mtime"
    BY FieldNames DEF PlacedFields, Times, OptionalFields
  <2>2. Raw(i - 1)[f] = node[f]
    BY <1>2, <1>6, <2>1
  <2>3. read[f] = Raw(i - 1)[f]
    BY <1>7, <2>1
  <2>. QED  BY <2>2, <2>3
<1>9. ASSUME NEW f \in {"group_mode", "other_mode"}
      PROVE  read[f] = IF f \in disabled THEN node.owner_mode ELSE node[f]
  <2>1. f \in Fields \ Times /\ "owner_mode" \in Fields \ Times
        /\ "owner_mode" \notin OptionalFields
    BY FieldNames DEF Times, OptionalFields
  <2>2. Raw(i - 1)["owner_mode"] = node["owner_mode"]
    BY <1>2, <1>6, <2>1
  <2>3. read[f] = IF super.bits[f] = 0 THEN Raw(i - 1).owner_mode
                  ELSE Raw(i - 1)[f]
    BY <1>7, <2>1
  <2>. QED  BY <1>6, <2>1, <2>2, <2>3
<1>10. ASSUME NEW f \in {"uid", "gid"}
       PROVE  read[f] = IF f \in disabled THEN 0 ELSE node[f]
  <2>1. f \in Fields \ Times
    BY FieldNames DEF Times
  <2>2. read[f] = IF super.bits[f] = 0 THEN 0 ELSE Raw(i - 1)[f]
    BY <1>7, <2>1
  <2>. QED  BY <1>6, <2>1, <2>2
<1>11. ASSUME NEW f \in Times \ disabled, node[f] >= super.min[f]
       PROVE  read[f] = node[f]
  <2>1. f \in Fields /\ f \in {"ctime", "mtime"}
    BY FieldNames DEF Times
  <2>2. super.min[f] \in Nat /\ node[f] \in Nat
    BY <1>1, <1>4, <2>1, SuperFacts, WordFacts
  <2>3. Stored(node, f) = node[f] - super.min[f] /\ Stored(node, f) >= 0
    BY <1>11, <2>1, <2>2 DEF Stored
  <2>4. Raw(i - 1)[f] = node[f] - super.min[f] /\ super.bits[f] # 0
    BY <1>1, <2>1, <2>3, RawValues
  <2>5. read[f] = Raw(i - 1)[f] + super.min[f]
    BY <1>7, <2>1, <2>4
  <2>. QED  BY <2>2, <2>4, <2>5
<1>. QED  BY <1>8, <1>9, <1>10, <1>11 DEF NodeRead, read

(***************************************************************************)
(* In every image that is written, the block size is the power of two that *)
(* the driver shifts by (BlockSizeIsShift).                                *)
(***************************************************************************)
THEOREM BlockSizesShift == Spec => []BlockSizeIsShift
<1>1. TablesInv => BlockSizeIsShift
  <2>. SUFFICES ASSUME TablesInv, Written
                PROVE  super.block_size = Pow2[super.block_log2]
    BY DEF BlockSizeIsShift
  <2>1. PICK table \in NodeTables : Known(table)
    BY DEF TablesInv, Written
  <2>. QED  BY <2>1, KnownWritten DEF WrittenKnown, Settled, Compressed
<1>. QED  BY <1>1, TablesInvariance, PTL

(***************************************************************************)
(* In every image that is written, node_fill finds in the inode table what *)
(* each node was (FieldsReadBack).                                         *)
(***************************************************************************)
THEOREM NodesReadBack == Spec => []FieldsReadBack
<1>1. TablesInv => FieldsReadBack
  <2>. SUFFICES ASSUME TablesInv, Written, NEW i \in DOMAIN nodes
                PROVE  /\ \A f \in {"type", "owner_mode"} \cup PlacedFields :
                             node_fill(nodes[i].number)[f] = nodes[i][f]
                       /\ \A f \in {"group_mode", "other_mode"} :
                             node_fill(nodes[i].number)[f] =
                                 IF f \in disabled THEN nodes[i].owner_mode
                                 ELSE nodes[i][f]
                       /\ \A f \in {"uid", "gid"} :
                             node_fill(nodes[i].number)[f] =
                                 IF f \in disabled THEN 0 ELSE nodes[i][f]
                       /\ \A f \in {"ctime", "mtime"} \ disabled :
                             (\A k \in DOMAIN nodes :
                                  nodes[k][f] >= NodeAt(0)[f]) =>
                                 node_fill(nodes[i].number)[f] = nodes[i][f]
    BY DEF FieldsReadBack
  <2>1. PICK table \in NodeTables : WrittenKnown(table)
    BY KnownWritten DEF TablesInv, Written
  <2>2. /\ nodes \in Seq(Nodes) /\ MinimaOfRoot /\ Reordered(table)
        /\ \A k \in DOMAIN nodes : nodes[k].number = k - 1
    BY <2>1 DEF WrittenKnown, Settled, Reordered, InodeTableDone
  <2>3. i \in 1..Len(nodes) /\ Len(nodes) \in Nat /\ DOMAIN nodes = 1..Len(nodes)
    BY <2>2, NodesFacts
  <2>4. nodes[i].number = i - 1 /\ NodeRead(i)
    BY <2>1, <2>2, <2>3, NodeFill
  <2>5. ASSUME NEW f \in Times,
               \A k \in DOMAIN nodes : nodes[k][f] >= NodeAt(0)[f]
        PROVE  nodes[i][f] >= super.min[f]
    <3>1. PICK n \in Nat : n = Len(nodes) /\ 1 \in 1..n
      <4>1. PICK n \in Nat : n = Len(nodes)
        BY <2>3
      <4>2. i \in 1..n
        BY <2>3, <4>1
      <4>3. 1 \in 1..n
        BY <4>2
      <4>. QED  BY <4>1, <4>3
    <3>2. NodeAt(1 - 1).number = 1 - 1
          /\ \E k \in 1..n : NodeAt(1 - 1) = nodes[k]
      BY <2>2, <3>1, NodeAtFacts
    <3>3. PICK k \in 1..n : NodeAt(0) = nodes[k] /\ nodes[k].number = 0
      BY <3>2
    <3>4. super.min[f] = NodeAt(0)[f]
      BY <2>2, <2>3, <3>1, <3>3 DEF MinimaOfRoot
    <3>. QED  BY <2>5, <3>4
  <2>. QED  BY <2>4, <2>5 DEF NodeRead, Times
<1>. QED  BY <1>1, TablesInvariance, PTL

(***************************************************************************)
(* In every image that is written, the block a node starts in is one of    *)
(* the image's, if there is a directory (BlocksInRange).                   *)
(***************************************************************************)
THEOREM NodesInBlocks == Spec => []BlocksInRange
<1>1. TablesInv => BlocksInRange
  <2>. SUFFICES ASSUME TablesInv, Written, Directories(nodes) # {},
                       NEW i \in DOMAIN nodes
                PROVE  node_fill(nodes[i].number).block < super.blocks
    BY DEF BlocksInRange
  <2>1. PICK table \in NodeTables : WrittenKnown(table)
    BY KnownWritten DEF TablesInv, Written
  <2>2. /\ nodes \in Seq(Nodes) /\ SuperTyped /\ Filled /\ Compressed
        /\ super.blocks = (Len(entry_buffer) + super.block_size - 1)
                          \div Pow2[super.block_log2]
        /\ \A k \in DOMAIN nodes : nodes[k].number = k - 1
    BY <2>1 DEF WrittenKnown, Settled, Reordered, InodeTableDone
  <2>3. i \in 1..Len(nodes)
    BY <2>2, NodesFacts
  <2>4. node_fill(nodes[i].number).block = nodes[i].block
    <3>1. NodeRead(i) /\ nodes[i].number = i - 1
      BY <2>1, <2>2, <2>3, NodeFill
    <3>. QED  BY <3>1 DEF NodeRead, PlacedFields
  <2>5. PICK p \in Nat \ {0}, l \in Nat, b \in Nat, x \in Nat, n \in Nat :
            /\ p = Pow2[super.block_log2] /\ l = Len(entry_buffer)
            /\ b = nodes[i].block /\ x = nodes[i].index /\ n = super.blocks
            /\ n = (l + p - 1) \div p
            /\ b * p + x < l
    <3>1. /\ Pow2[super.block_log2] \in Nat \ {0}
          /\ super.blocks \in Nat
      BY <2>2, SuperFacts
    <3>2. Len(entry_buffer) \in Nat
      BY <2>2 DEF Filled
    <3>3. "block" \in Fields /\ "index" \in Fields
      BY FieldNames
    <3>4. nodes[i]["block"] \in Nat /\ nodes[i]["index"] \in Nat
      BY <2>2, <3>3, LargestFieldFacts
    <3>5. Place(nodes[i]) < Len(entry_buffer)
      BY <2>2 DEF Filled
    <3>6. super.block_size = Pow2[super.block_log2]
      BY <2>2 DEF Compressed
    <3>. QED  BY <2>2, <3>1, <3>2, <3>4, <3>5, <3>6 DEF Place
  <2>6. l =< p * n
    BY <2>5, BlockCount
  <2>7. b < n
    <3>1. SUFFICES ASSUME n =< b
                   PROVE  FALSE
      BY <2>5
    <3>2. n * p =< b * p /\ n * p \in Nat /\ b * p \in Nat
      <4>1. n * p =< b * p /\ n * p \in Nat
        BY <3>1, TimesMonotonic
      <4>. QED  BY <4>1
    <3>3. p * n = n * p
      OBVIOUS
    <3>4. b * p + x < l
      BY <2>5
    <3>. QED  BY <2>6, <3>2, <3>3, <3>4
  <2>. QED  BY <2>4, <2>5, <2>7
<1>. QED  BY <1>1, TablesInvariance, PTL

(***************************************************************************)
(* What the readers find in the block table                                *)
(***************************************************************************)
\* What block_fill gets of a width at a position.
Got(pos, width) ==
    bitbuffer_getbits(
        bitbuffer_setpos(bitbuffer_init_from_buffer(block_buffer), pos),
        width).value

LEMMA GotFacts ==
    ASSUME NEW len \in Nat, block_buffer \in ByteArrays(len)
    PROVE  \A i \in Nat, m \in 0..WordBits, v \in Nat :
               i + m =< 8 * len /\ Holds(block_buffer, i, m, v) /\ v < Pow2[m] =>
                   Got(i, m) = v
<1>. SUFFICES ASSUME NEW i \in Nat, NEW m \in 0..WordBits, NEW v \in Nat,
                     i + m =< 8 * len, Holds(block_buffer, i, m, v),
                     v < Pow2[m]
              PROVE  Got(i, m) = v
  OBVIOUS
<1>1. bitbuffer_getbits(At(block_buffer, i), m)
          = [value |-> v % Pow2[m], bb |-> At(block_buffer, i + m)]
  BY FieldRead, WordFacts
<1>2. bitbuffer_setpos(bitbuffer_init_from_buffer(block_buffer), i)
          = At(block_buffer, i)
  BY DEF bitbuffer_setpos, bitbuffer_init_from_buffer, At
<1>3. v % Pow2[m] = v
  <2>1. m \in Nat
    BY WordFacts
  <2>2. PICK p \in Nat \ {0} : p = Pow2[m]
    BY <2>1, Pow2Facts
  <2>3. v % p = v
    BY <2>2
  <2>. QED  BY <2>2, <2>3
<1>. QED  BY <1>1, <1>2, <1>3 DEF Got

LEMMA BlockFillFacts ==
    ASSUME NEW table, WrittenKnown(table)
    PROVE  \A b \in 1..super.blocks : block_fill(b - 1) = blocks[b]
<1>. SUFFICES ASSUME NEW b \in 1..super.blocks
              PROVE  block_fill(b - 1) = blocks[b]
  OBVIOUS
<1>1. /\ Settled(table) /\ BlockTableDone /\ SuperTyped /\ Compressed /\ BlocksFit
      /\ super.blocks = (Len(entry_buffer) + super.block_size - 1)
                        \div Pow2[super.block_log2]
      /\ Len(entry_buffer) \in Nat
  BY DEF WrittenKnown, Settled, BlockTableDone, Filled
<1>2. super.blocks >= 1
  BY <1>1 DEF BlocksFit
<1>3. PICK n \in Nat, o \in 0..WordBits, c \in 0..WordBits, s \in 0..WordBits,
           r \in Nat, len \in Nat, low \in Nat :
          /\ n = super.blocks /\ o = super.blockbits.offset
          /\ c = super.blockbits.compressed_size /\ s = super.blockbits.size
          /\ r = BlockRowBits /\ len = BlockTableLen
          /\ low = super.min.compressed_size
          /\ r = o + c /\ n * r + s =< 8 * len
  <2>1. /\ super.blocks \in Nat /\ BlockRowBits \in Nat
        /\ super.blockbits.offset \in 0..WordBits
        /\ super.blockbits.compressed_size \in 0..WordBits
        /\ super.blockbits.size \in 0..WordBits
        /\ super.min.compressed_size \in Nat
        /\ BlockTableLen \in Nat
        /\ super.blocks * BlockRowBits + super.blockbits.size
               =< 8 * BlockTableLen
    BY <1>1, <1>2, BlockTableFacts
  <2>2. BlockRowBits = super.blockbits.offset + super.blockbits.compressed_size
    BY DEF BlockRowBits
  <2>. QED  BY <2>1, <2>2
<1>4. o \in Nat /\ c \in Nat /\ s \in Nat
  BY <1>3, WordFacts
<1>5. block_buffer \in ByteArrays(len)
  BY <1>1, <1>3 DEF BlockTableDone
<1>6. PICK x \in Nat, y \in Nat, z \in Nat :
          /\ x = blocks[b].offset /\ y = blocks[b].compressed_size - low
          /\ z = blocks[b].size /\ x < Pow2[o] /\ y < Pow2[c]
          /\ y + low = blocks[b].compressed_size
  <2>1. /\ blocks[b].offset \in Nat /\ blocks[b].size \in Nat
        /\ blocks[b].compressed_size \in Nat
    BY <1>1, <1>2, BlockTableFacts
  <2>2. /\ blocks[b].offset < Pow2[o]
        /\ low =< blocks[b].compressed_size
        /\ blocks[b].compressed_size - low < Pow2[c]
    BY <1>1, <1>3 DEF BlocksFit
  <2>3. blocks[b].compressed_size - low \in Nat
        /\ (blocks[b].compressed_size - low) + low = blocks[b].compressed_size
    BY <2>1, <2>2
  <2>. QED  BY <2>1, <2>2, <2>3
<1>7. PICK i \in Nat : i = (b - 1) * r /\ i + r = b * r /\ i + r =< n * r
                       /\ n * r \in Nat
  <2>1. b \in Nat /\ b - 1 \in Nat /\ b =< n
    BY <1>3
  <2>2. b * r =< n * r /\ b * r \in Nat /\ (b - 1) * r \in Nat /\ n * r \in Nat
    BY <2>1, TimesMonotonic
  <2>3. (b - 1) * r + r = b * r
    BY <2>1
  <2>. QED  BY <2>2, <2>3
<1>8. i + o =< 8 * len /\ i + o \in Nat /\ (i + o) + c =< 8 * len
      /\ (i + o) + c = i + r
  <2>1. r = o + c /\ n * r + s =< 8 * len
    BY <1>3
  <2>2. i + r =< n * r /\ n * r \in Nat
    BY <1>7
  <2>. QED  BY <1>4, <2>1, <2>2
<1>9. Holds(block_buffer, i, o, x) /\ Holds(block_buffer, i + o, c, y)
  <2>1. /\ Holds(block_buffer, (b - 1) * BlockRowBits, super.blockbits.offset,
                 blocks[b].offset)
        /\ Holds(block_buffer, (b - 1) * BlockRowBits + super.blockbits.offset,
                 super.blockbits.compressed_size,
                 blocks[b].compressed_size - super.min.compressed_size)
    BY <1>1 DEF BlockTableDone, BlockRows
  <2>. QED  BY <1>3, <1>6, <1>7, <2>1
<1>10. Got(i, o) = x /\ Got(i + o, c) = y
  BY <1>5, <1>6, <1>8, <1>9, GotFacts
<1>11. CASE b < n
  <2>1. PICK p \in Nat \ {0}, l \in Nat :
            /\ p = Pow2[super.block_log2] /\ p = super.block_size
            /\ l = Len(entry_buffer) /\ n = (l + p - 1) \div p
    BY <1>1, <1>3, SuperFacts DEF Compressed
  <2>2. p * (b - 1) \in Nat /\ p * (b - 1) + p =< l
    BY <1>3, <1>11, <2>1, BlockCount
  <2>3. z = Smaller(p, l - p * (b - 1))
    <3>1. blocks[b].size = BlockBytes(b)
      BY <1>1 DEF Compressed
    <3>. QED  BY <1>6, <2>1, <3>1 DEF BlockBytes
  <2>4. PICK t \in Nat : t = p * (b - 1) /\ t + p =< l
    BY <2>2
  <2>5. z = p
    <3>1. l - t >= p
      BY <2>4
    <3>. QED  BY <2>3, <2>4, <3>1 DEF Smaller
  <2>6. (b - 1) + 1 < super.blocks
    BY <1>3, <1>11
  <2>7. block_fill(b - 1)
            = [offset |-> Got((b - 1) * r, o),
               compressed_size |-> Got((b - 1) * r + o, c) + low,
               size |-> super.block_size]
    BY <1>3, <2>6 DEF block_fill, Got
  <2>8. block_fill(b - 1) = [offset |-> x, compressed_size |-> y + low, size |-> z]
    BY <1>7, <1>10, <2>1, <2>5, <2>7
  <2>9. blocks[b] \in [offset : Word, size : Word, compressed_size : Word]
    BY <1>1, LenProperties DEF Compressed
  <2>. QED  BY <1>6, <2>8, <2>9
<1>12. CASE b = n
  <2>1. Holds(block_buffer, i + r, s, z) /\ z < Pow2[s]
    <3>1. Holds(block_buffer, super.blocks * BlockRowBits,
                super.blockbits.size, blocks[super.blocks].size)
      BY <1>1 DEF BlockTableDone
    <3>2. blocks[super.blocks].size < Pow2[super.blockbits.size]
      BY <1>1 DEF BlocksFit
    <3>. QED  BY <1>3, <1>6, <1>7, <1>12, <3>1, <3>2
  <2>2. i + r \in Nat /\ (i + r) + s =< 8 * len
    <3>1. i + r =< n * r /\ n * r \in Nat
      BY <1>7
    <3>2. n * r + s =< 8 * len
      BY <1>3
    <3>. QED  BY <1>4, <3>1, <3>2
  <2>3. Got(i + r, s) = z
    BY <1>5, <2>1, <2>2, GotFacts
  <2>4. ~((b - 1) + 1 < super.blocks)
    BY <1>3, <1>12
  <2>5. block_fill(b - 1)
            = [offset |-> Got((b - 1) * r, o),
               compressed_size |-> Got((b - 1) * r + o, c) + low,
               size |-> Got((b - 1) * r + o + c, s)]
    BY <1>3, <2>4 DEF block_fill, Got
  <2>6. block_fill(b - 1) = [offset |-> x, compressed_size |-> y + low, size |-> z]
    BY <1>7, <1>8, <1>10, <2>3, <2>5
  <2>7. blocks[b] \in [offset : Word, size : Word, compressed_size : Word]
    BY <1>1, LenProperties DEF Compressed
  <2>. QED  BY <1>6, <2>6, <2>7
<1>. QED  BY <1>3, <1>11, <1>12

\* The content of a block.
BlockContent(b) ==
    SubSeq(entry_buffer, super.block_size * (b - 1) + 1,
           super.block_size * (b - 1) + blocks[b].size)

LEMMA UncompressedFacts ==
    ASSUME NEW table, WrittenKnown(table)
    PROVE  \A b \in 1..super.blocks : Uncompressed(blocks[b]) = BlockContent(b)
<1>. SUFFICES ASSUME NEW b \in 1..super.blocks
              PROVE  Uncompressed(blocks[b]) = BlockContent(b)
  OBVIOUS
<1>. DEFINE there == {c \in DOMAIN blocks :
                        /\ blocks[c].offset = blocks[b].offset
                        /\ blocks[c].compressed_size = blocks[b].compressed_size
                        /\ blocks[c].size = blocks[b].size}
<1>1. Compressed /\ SuperTyped /\ BlocksFit /\ Settled(table)
  BY DEF WrittenKnown, Settled, BlockTableDone
<1>2. DOMAIN blocks = 1..super.blocks
  BY <1>1, LenProperties DEF Compressed
<1>3. there = {b}
  <2>1. b \in there
    BY <1>2
  <2>2. ASSUME NEW c \in there, c # b
        PROVE  FALSE
    <3>1. PICK n \in Nat : n = super.blocks
      BY <1>1, SuperFacts
    <3>2. c \in 1..n /\ b \in 1..n
      BY <1>2, <3>1
    <3>3. \A d \in 1..n : blocks[d].offset \in Nat
      BY <1>1, <3>1, BlockTableFacts DEF BlocksFit
    <3>4. \A d, e \in 1..n : d < e => blocks[d].offset < blocks[e].offset
      BY <1>1, <3>1 DEF Compressed
    <3>5. b < c \/ c < b
      BY <2>2, <3>2
    <3>6. blocks[b].offset < blocks[c].offset \/ blocks[c].offset < blocks[b].offset
      BY <3>2, <3>4, <3>5
    <3>7. blocks[b].offset = blocks[c].offset
      OBVIOUS
    <3>. QED  BY <3>2, <3>3, <3>6, <3>7
  <2>. QED  BY <2>1, <2>2
<1>4. Uncompressed(blocks[b])
          = IF there = {} THEN <<>>
            ELSE SubSeq(entry_buffer,
                        super.block_size * ((CHOOSE c \in there : TRUE) - 1) + 1,
                        super.block_size * ((CHOOSE c \in there : TRUE) - 1)
                        + blocks[b].size)
  BY DEF Uncompressed
<1>5. there # {} /\ (CHOOSE c \in there : TRUE) = b
  <2>. HIDE DEF there
  <2>1. \A c \in there : c = b
    BY <1>3
  <2>2. there # {}
    BY <1>3
  <2>. QED  BY <2>1, <2>2
<1>. QED  BY <1>4, <1>5 DEF BlockContent

(***************************************************************************)
(* What node_read reads                                                    *)
(***************************************************************************)
\* The turns of a read of size bytes from byte o of the contents on: how many
\* bytes are read, and where the next one is.
Turns(o, size) ==
    {t \in [m : 0..size, b : Nat, i : Nat] :
        t.m < size => /\ t.b * Pow2[super.block_log2] + t.i = o + t.m
                      /\ t.i < Pow2[super.block_log2]}

NodeReading(o, t) ==
    [bytes |-> SubSeq(entry_buffer, o + 1, o + t.m), b |-> t.b, i |-> t.i,
     failed |-> FALSE]

\* The place in a block of a byte of the contents, and what of the block is
\* wanted.
LEMMA BlockOfByte ==
    ASSUME NEW table, WrittenKnown(table)
    PROVE  \A b, i, at \in Nat :
               /\ b * Pow2[super.block_log2] + i = at
               /\ i < Pow2[super.block_log2]
               /\ at < Len(entry_buffer)
               => /\ b + 1 \in 1..super.blocks
                  /\ blocks[b + 1].size \in Nat
                  /\ i < blocks[b + 1].size
                  /\ super.block_size * b + blocks[b + 1].size
                         =< Len(entry_buffer)
                  /\ super.block_size * b + i = at
                  /\ \/ super.block_size * b + blocks[b + 1].size
                            = Len(entry_buffer)
                     \/ blocks[b + 1].size = Pow2[super.block_log2]
<1>. SUFFICES ASSUME NEW b \in Nat, NEW i \in Nat, NEW at \in Nat,
                     b * Pow2[super.block_log2] + i = at,
                     i < Pow2[super.block_log2],
                     at < Len(entry_buffer)
              PROVE  /\ b + 1 \in 1..super.blocks
                     /\ blocks[b + 1].size \in Nat
                     /\ i < blocks[b + 1].size
                     /\ super.block_size * b + blocks[b + 1].size
                            =< Len(entry_buffer)
                     /\ super.block_size * b + i = at
                     /\ \/ super.block_size * b + blocks[b + 1].size
                               = Len(entry_buffer)
                        \/ blocks[b + 1].size = Pow2[super.block_log2]
  OBVIOUS
<1>1. /\ SuperTyped /\ Compressed /\ BlocksFit /\ Settled(table)
      /\ super.blocks = (Len(entry_buffer) + super.block_size - 1)
                        \div Pow2[super.block_log2]
      /\ Len(entry_buffer) \in Nat
  BY DEF WrittenKnown, Settled, BlockTableDone, Filled
<1>2. PICK p \in Nat \ {0}, l \in Nat, n \in Nat :
          /\ p = Pow2[super.block_log2] /\ p = super.block_size
          /\ l = Len(entry_buffer) /\ n = super.blocks
          /\ n = (l + p - 1) \div p
  BY <1>1, SuperFacts DEF Compressed
<1>3. l =< p * n /\ \A c \in 1..n : /\ p * (c - 1) \in Nat
                                    /\ p * (c - 1) + 1 =< l
  BY <1>2, BlockCount
<1>4. PICK t \in Nat : t = b * p /\ t + i = at /\ i < p /\ at < l
  <2>1. b * p \in Nat
    OBVIOUS
  <2>2. b * p + i = at /\ i < p /\ at < l
    BY <1>2
  <2>. QED  BY <2>1, <2>2
<1>5. p * b = t
  BY <1>4
<1>6. b < n
  <2>1. SUFFICES ASSUME n =< b
                 PROVE  FALSE
    OBVIOUS
  <2>2. n * p =< b * p /\ n * p \in Nat
    BY <2>1, TimesMonotonic
  <2>3. p * n = n * p
    OBVIOUS
  <2>4. t + i < l
    BY <1>4
  <2>. QED  BY <1>3, <1>4, <2>2, <2>3, <2>4
<1>7. b + 1 \in 1..n /\ (b + 1) - 1 = b
  BY <1>6
<1>8. PICK z \in Nat : z = blocks[b + 1].size
  BY <1>1, <1>2, <1>7, BlockTableFacts DEF BlocksFit
<1>9. z = Smaller(p, l - t)
  <2>1. blocks[b + 1].size = BlockBytes(b + 1)
    BY <1>1, <1>2, <1>7 DEF Compressed
  <2>. QED  BY <1>2, <1>5, <1>7, <1>8, <2>1 DEF BlockBytes
<1>10. /\ i < z /\ t + z =< l /\ (t + z = l \/ z = p)
  <2>1. t + i < l /\ i < p
    BY <1>4
  <2>. QED  BY <1>9, <2>1 DEF Smaller
<1>. QED  BY <1>2, <1>4, <1>5, <1>7, <1>8, <1>10

\* What a turn sets of the state of a read.
LEMMA RecordUpdate ==
    ASSUME NEW S, NEW r \in [bytes : S, b : Nat, i : Nat, failed : BOOLEAN],
           NEW x \in S, NEW c \in Nat, NEW j \in Nat,
           NEW new, new = [r EXCEPT !.bytes = x, !.b = c, !.i = j]
    PROVE  new = [bytes |-> x, b |-> c, i |-> j, failed |-> r.failed]
<1>1. DOMAIN new = {"bytes", "b", "i", "failed"}
  OBVIOUS
<1>2. new = [f \in DOMAIN new |-> new[f]]
  OBVIOUS
<1>3. new.bytes = x
  OBVIOUS
<1>4. new.b = c
  OBVIOUS
<1>5. new.i = j
  OBVIOUS
<1>6. new.failed = r.failed
  OBVIOUS
<1>7. DOMAIN [bytes |-> x, b |-> c, i |-> j, failed |-> r.failed]
          = {"bytes", "b", "i", "failed"}
  OBVIOUS
<1>. QED  BY <1>1, <1>2, <1>3, <1>4, <1>5, <1>6, <1>7

LEMMA SmallerFacts ==
    ASSUME NEW d \in Nat, NEW e \in Nat, d >= 1, e >= 1
    PROVE  \E f \in Nat : /\ f = Smaller(d, e) /\ f >= 1 /\ f =< d /\ f =< e
                          /\ (f = d \/ f = e)
BY DEF Smaller

\* A turn reads at least one more byte, the one that follows.
LEMMA ReadTurn ==
    ASSUME NEW table, WrittenKnown(table),
           NEW o \in Nat, NEW size \in Nat, o + size =< Len(entry_buffer)
    PROVE  \A t \in Turns(o, size) : \E u \in Turns(o, size) :
               /\ NodeReadStep(NodeReading(o, t), size) = NodeReading(o, u)
               /\ u.m >= t.m /\ (t.m < size => u.m > t.m)
<1>. SUFFICES ASSUME NEW t \in Turns(o, size)
              PROVE  \E u \in Turns(o, size) :
                         /\ NodeReadStep(NodeReading(o, t), size) = NodeReading(o, u)
                         /\ u.m >= t.m /\ (t.m < size => u.m > t.m)
  OBVIOUS
<1>1. entry_buffer \in Seq(Nat \X Nat) /\ SuperTyped /\ Compressed
  BY DEF WrittenKnown, Settled, Filled
<1>2. PICK l \in Nat, p \in Nat \ {0} :
          /\ l = Len(entry_buffer) /\ p = Pow2[super.block_log2]
          /\ p = super.block_size /\ o + size =< l
  BY <1>1, SuperFacts, LenProperties DEF Compressed
<1>3. PICK m \in 0..size, b \in Nat, i \in Nat :
          /\ m = t.m /\ b = t.b /\ i = t.i
          /\ m < size => b * p + i = o + m /\ i < p
  BY <1>2 DEF Turns
<1>4. m \in Nat /\ m =< size
  OBVIOUS
<1>5. Len(NodeReading(o, t).bytes) = m
  <2>1. \A k \in (o + 1)..(o + m) : entry_buffer[k] \in Nat \X Nat
    <3>1. \A k \in (o + 1)..(o + m) : k \in 1..l
      BY <1>2, <1>4
    <3>. QED  BY <1>1, <1>2, <3>1, ElementOfSeq
  <2>2. Len(SubSeq(entry_buffer, o + 1, o + m))
            = IF o + 1 =< o + m THEN (o + m) - (o + 1) + 1 ELSE 0
    BY <1>4, <2>1, SubSeqProperties
  <2>3. Len(SubSeq(entry_buffer, o + 1, o + m)) = m
    BY <1>4, <2>2
  <2>. QED  BY <1>3, <2>3 DEF NodeReading
<1>6. CASE m = size
  <2>1. NodeReadStep(NodeReading(o, t), size) = NodeReading(o, t)
    <3>1. Len(NodeReading(o, t).bytes) >= size
      BY <1>4, <1>5, <1>6
    <3>. QED  BY <3>1 DEF NodeReadStep
  <2>2. t.m >= t.m /\ ~(t.m < size)
    BY <1>3, <1>4, <1>6
  <2>. QED  BY <2>1, <2>2
<1>7. CASE m < size
  <2>1. PICK at \in Nat : at = o + m /\ b * p + i = at /\ i < p /\ at < l
    <3>1. o + m < l
      BY <1>2, <1>4, <1>7
    <3>. QED  BY <1>3, <1>4, <1>7, <3>1
  <2>2. PICK z \in Nat, q \in Int :
            /\ z = blocks[b + 1].size /\ q = super.block_size * b
            /\ b + 1 \in 1..super.blocks /\ i < z
            /\ q + z =< l /\ q + i = at /\ (q + z = l \/ z = p)
    <3>1. /\ b + 1 \in 1..super.blocks
          /\ blocks[b + 1].size \in Nat
          /\ i < blocks[b + 1].size
          /\ super.block_size * b + blocks[b + 1].size =< Len(entry_buffer)
          /\ super.block_size * b + i = at
          /\ \/ super.block_size * b + blocks[b + 1].size = Len(entry_buffer)
             \/ blocks[b + 1].size = Pow2[super.block_log2]
      BY <1>2, <2>1, BlockOfByte
    <3>2. super.block_size * b \in Int
      BY <1>2
    <3>. QED  BY <1>2, <3>1, <3>2
  <2>3. q \in Nat
    <3>1. p * b \in Nat
      OBVIOUS
    <3>. QED  BY <1>2, <2>2, <3>1
  <2>4. block_fill(b) = blocks[b + 1] /\ (b + 1) - 1 = b
    <3>1. (b + 1) - 1 = b
      OBVIOUS
    <3>2. block_fill((b + 1) - 1) = blocks[b + 1]
      BY <2>2, BlockFillFacts
    <3>. QED  BY <3>1, <3>2
  <2>5. PICK content : /\ content = Uncompressed(blocks[b + 1])
                       /\ content = SubSeq(entry_buffer, q + 1, q + z)
    <3>1. Uncompressed(blocks[b + 1]) = BlockContent(b + 1)
      BY <2>2, UncompressedFacts
    <3>. QED  BY <2>2, <2>4, <3>1 DEF BlockContent
  <2>6. q + 1 \in 1..l /\ q + z \in 1..l /\ (q + z) - (q + 1) + 1 = z
        /\ q + 1 =< q + z
    <3>1. i < z /\ q + z =< l
      BY <2>2
    <3>. QED  BY <2>3, <3>1
  <2>7. content # <<>>
    <3>1. \A k \in (q + 1)..(q + z) : entry_buffer[k] \in Nat \X Nat
      <4>1. \A k \in (q + 1)..(q + z) : k \in 1..l
        BY <2>3, <2>6
      <4>. QED  BY <1>1, <1>2, <4>1, ElementOfSeq
    <3>2. Len(SubSeq(entry_buffer, q + 1, q + z))
              = IF q + 1 =< q + z THEN (q + z) - (q + 1) + 1 ELSE 0
      BY <2>3, <3>1, SubSeqProperties
    <3>3. Len(content) = z
      BY <2>5, <2>6, <3>2
    <3>4. z # 0
      <4>1. i < z
        BY <2>2
      <4>. QED  BY <4>1
    <3>. QED  BY <3>3, <3>4, EmptySeq
  <2>8. PICK more \in Nat :
            /\ more = Smaller(size - m, z - i) /\ more >= 1
            /\ m + more =< size /\ i + more =< z
            /\ m + more < size => i + more = z
    <3>1. i < z
      BY <2>2
    <3>2. size - m \in Nat /\ z - i \in Nat /\ size - m >= 1 /\ z - i >= 1
      BY <1>4, <1>7, <3>1
    <3>3. PICK d \in Nat, e \in Nat : d = size - m /\ e = z - i
                                      /\ d >= 1 /\ e >= 1
                                      /\ m + d = size /\ i + e = z
      BY <1>4, <3>2
    <3>6. d \in Nat /\ e \in Nat /\ d >= 1 /\ e >= 1
      BY <3>3
    <3>4. PICK f \in Nat : f = Smaller(d, e) /\ f >= 1 /\ f =< d /\ f =< e
                           /\ (f = d \/ f = e)
      BY <3>6, SmallerFacts
    <3>5. m + f =< size /\ i + f =< z /\ (m + f < size => i + f = z)
      <4>1. m + d = size /\ i + e = z
        BY <3>3
      <4>. QED  BY <1>4, <3>4, <4>1
    <3>. QED  BY <3>3, <3>4, <3>5
  <2>9. SubSeq(content, i + 1, i + more)
            = SubSeq(entry_buffer, o + m + 1, o + m + more)
    <3>1. i + 1 \in 1..z /\ i + more \in 1..z
      <4>1. i < z /\ i + more =< z /\ more >= 1
        BY <2>2, <2>8
      <4>. QED  BY <4>1
    <3>2. /\ i + 1 \in 1..((q + z) - (q + 1) + 1)
          /\ i + more \in 1..((q + z) - (q + 1) + 1)
      BY <2>6, <3>1
    <3>3. entry_buffer[q + 1] \in Nat \X Nat
      BY <1>1, <1>2, <2>6, ElementOfSeq
    <3>4. SubSeq(SubSeq(entry_buffer, q + 1, q + z), i + 1, i + more)
              = SubSeq(entry_buffer, (q + 1) + (i + 1) - 1, (q + 1) + (i + more) - 1)
      BY <1>1, <1>2, <2>6, <3>2, <3>3, SubSeqOfSubSeq
    <3>5. (q + 1) + (i + 1) - 1 = o + m + 1
          /\ (q + 1) + (i + more) - 1 = o + m + more
      <4>1. q + i = o + m
        BY <2>1, <2>2
      <4>. QED  BY <1>4, <2>3, <4>1
    <3>. QED  BY <2>5, <3>4, <3>5
  <2>10. NodeReading(o, t).bytes \o SubSeq(content, i + 1, i + more)
             = SubSeq(entry_buffer, o + 1, o + m + more)
    <3>1. /\ o + 1 \in 1..(l + 1) /\ o + m \in ((o + 1) - 1)..l
          /\ o + m + more \in (o + m)..l
      <4>1. m + more =< size /\ o + size =< l
        BY <1>2, <2>8
      <4>. QED  BY <1>4, <4>1
    <3>2. SubSeq(entry_buffer, o + 1, o + m)
              \o SubSeq(entry_buffer, (o + m) + 1, o + m + more)
              = SubSeq(entry_buffer, o + 1, o + m + more)
      BY <1>1, <1>2, <3>1, ConcatAdjacentSubSeq
    <3>3. NodeReading(o, t).bytes = SubSeq(entry_buffer, o + 1, o + m)
      BY <1>3 DEF NodeReading
    <3>. QED  BY <2>9, <3>2, <3>3
  <2>11. PICK u : u = [m |-> m + more, b |-> b + 1, i |-> 0]
    OBVIOUS
  <2>12. u \in Turns(o, size)
    <3>1. u \in [m : 0..size, b : Nat, i : Nat]
      BY <1>4, <2>8, <2>11
    <3>2. ASSUME m + more < size
          PROVE  (b + 1) * p + 0 = o + (m + more)
      <4>1. i + more = z
        BY <2>8, <3>2
      <4>2. q + z = o + m + more
        <5>1. q + i = o + m
          BY <2>1, <2>2
        <5>. QED  BY <1>4, <2>3, <4>1, <5>1
      <4>3. q + z # l
        <5>1. o + size =< l
          BY <1>2
        <5>. QED  BY <1>4, <3>2, <4>2, <5>1
      <4>4. z = p
        BY <2>2, <4>3
      <4>5. (b + 1) * p = q + p
        <5>1. q = p * b
          BY <1>2, <2>2
        <5>2. (b + 1) * p = p * b + p
          OBVIOUS
        <5>. QED  BY <5>1, <5>2
      <4>. QED  BY <1>4, <2>3, <4>2, <4>4, <4>5
    <3>3. u.m < size => /\ u.b * Pow2[super.block_log2] + u.i = o + u.m
                        /\ u.i < Pow2[super.block_log2]
      <4>1. ASSUME m + more < size
            PROVE  (b + 1) * p + 0 = o + (m + more) /\ 0 < p
        BY <3>2, <4>1
      <4>. QED  BY <1>2, <2>11, <4>1
    <3>. QED  BY <3>1, <3>3 DEF Turns
  <2>13. NodeReadStep(NodeReading(o, t), size) = NodeReading(o, u)
    <3>1. /\ NodeReading(o, t).failed = FALSE /\ ~(Len(NodeReading(o, t).bytes) >= size)
          /\ NodeReading(o, t).b = b /\ NodeReading(o, t).i = i
      BY <1>3, <1>4, <1>5, <1>7 DEF NodeReading
    <3>2. Smaller(size - Len(NodeReading(o, t).bytes), block_fill(b).size - i) = more
      BY <1>5, <2>2, <2>4, <2>8
    <3>3. ~(Uncompressed(block_fill(b)) = <<>> \/ more < 1)
      BY <2>4, <2>5, <2>7, <2>8, SMTT(30)
    <3>4. NodeReadStep(NodeReading(o, t), size)
              = [NodeReading(o, t) EXCEPT
                    !.bytes = @ \o SubSeq(Uncompressed(block_fill(b)), i + 1,
                                          i + more),
                    !.b = @ + 1,
                    !.i = 0]
      BY <3>1, <3>2, <3>3 DEF NodeReadStep
    <3>5. NodeReading(o, u) = [bytes |-> SubSeq(entry_buffer, o + 1, o + (m + more)),
                           b |-> b + 1, i |-> 0, failed |-> FALSE]
      BY <2>11 DEF NodeReading
    <3>6. o + (m + more) = o + m + more
      BY <1>4
    <3>7. NodeReading(o, t) = [bytes |-> NodeReading(o, t).bytes, b |-> b, i |-> i,
                           failed |-> FALSE]
      BY <1>3 DEF NodeReading
    <3>8. NodeReadStep(NodeReading(o, t), size)
              = [bytes |-> NodeReading(o, t).bytes
                           \o SubSeq(Uncompressed(block_fill(b)), i + 1, i + more),
                 b |-> b + 1, i |-> 0, failed |-> FALSE]
      <4>1. PICK x, y : /\ x = NodeReading(o, t).bytes
                        /\ y = SubSeq(Uncompressed(block_fill(b)), i + 1, i + more)
        OBVIOUS
      <4>2. PICK S : S = {x, x \o y}
        OBVIOUS
      <4>3. PICK r \in [bytes : S, b : Nat, i : Nat, failed : BOOLEAN] :
                r = NodeReading(o, t) /\ r.failed = FALSE
        BY <3>1, <3>7, <4>1, <4>2
      <4>4. [r EXCEPT !.bytes = x \o y, !.b = b + 1, !.i = 0]
                = [bytes |-> x \o y, b |-> b + 1, i |-> 0, failed |-> FALSE]
        <5>1. x \o y \in S /\ b + 1 \in Nat /\ 0 \in Nat
          BY <4>2
        <5>2. PICK new : new = [r EXCEPT !.bytes = x \o y, !.b = b + 1, !.i = 0]
          OBVIOUS
        <5>3. new = [bytes |-> x \o y, b |-> b + 1, i |-> 0, failed |-> r.failed]
          BY <5>1, <5>2, RecordUpdate
        <5>. QED  BY <4>3, <5>2, <5>3
      <4>5. NodeReadStep(NodeReading(o, t), size)
                = [NodeReading(o, t) EXCEPT !.bytes = x \o y, !.b = b + 1, !.i = 0]
        BY <3>1, <3>4, <4>1
      <4>. QED  BY <4>1, <4>3, <4>4, <4>5
    <3>. QED  BY <2>4, <2>5, <2>10, <3>5, <3>6, <3>8
  <2>14. u.m >= m /\ u.m > m
    <3>1. u.m = m + more /\ more >= 1
      BY <2>8, <2>11
    <3>. QED  BY <1>4, <3>1
  <2>. QED  BY <1>3, <2>12, <2>13, <2>14
<1>. QED  BY <1>4, <1>6, <1>7

\* Block b from its byte i on is the contents from byte o on.
AtByte(b, i, o) ==
    b * Pow2[super.block_log2] + i = o /\ i < Pow2[super.block_log2]

\* What is read are the size bytes of the contents that follow byte o.
ReadsBytes(read, o, size) ==
    /\ read.failed = FALSE
    /\ read.bytes = SubSeq(entry_buffer, o + 1, o + size)

\* The loop of node_read, from the place of a byte on, reads the bytes that
\* follow.
LEMMA ReadFrom ==
    ASSUME NEW table, WrittenKnown(table),
           NEW o \in Nat, NEW size \in Nat, o + size =< Len(entry_buffer),
           NEW b \in Nat, NEW i \in Nat, AtByte(b, i, o)
    PROVE  ReadsBytes(NodeReadFrom(b, i, size), o, size)
<1>0. b * Pow2[super.block_log2] + i = o /\ i < Pow2[super.block_log2]
  BY DEF AtByte
<1>. PICK n \in Nat : n = size + 1
  OBVIOUS
<1>. DEFINE first == [bytes |-> <<>>, b |-> b, i |-> i, failed |-> FALSE]
            S == {NodeReading(o, t) : t \in Turns(o, size)}
            F(f) == [k \in 0..n |-> IF k = 0 THEN first
                                    ELSE NodeReadStep(f[k - 1], size)]
<1>1. \A t \in Turns(o, size) : \E u \in Turns(o, size) :
          /\ NodeReadStep(NodeReading(o, t), size) = NodeReading(o, u)
          /\ u.m >= t.m /\ (t.m < size => u.m > t.m)
  BY ReadTurn
<1>2. PICK start \in Turns(o, size) : NodeReading(o, start) = first
  <2>1. PICK t : t = [m |-> 0, b |-> b, i |-> i]
    OBVIOUS
  <2>2. t \in Turns(o, size)
    <3>1. t \in [m : 0..size, b : Nat, i : Nat]
      BY <2>1
    <3>2. t.m < size => /\ t.b * Pow2[super.block_log2] + t.i = o + t.m
                        /\ t.i < Pow2[super.block_log2]
      <4>1. o + 0 = o
        OBVIOUS
      <4>. QED  BY <1>0, <2>1, <4>1
    <3>. QED  BY <3>1, <3>2 DEF Turns
  <2>3. SubSeq(entry_buffer, o + 1, o + 0) = <<>>
    BY SubSeqEmpty
  <2>4. NodeReading(o, t) = first
    BY <2>1, <2>3 DEF NodeReading
  <2>. QED  BY <2>2, <2>4
<1>. HIDE DEF first
<1>3. PICK step : step = [k \in 1..n |-> [x \in S |-> NodeReadStep(x, size)]]
  OBVIOUS
<1>4. step \in [1..n -> [S -> S]]
  <2>1. \A x \in S : NodeReadStep(x, size) \in S
    BY <1>1
  <2>. HIDE DEF S
  <2>. QED  BY <1>3, <2>1
<1>5. first \in S
  BY <1>2
<1>6. PICK f \in [0..n -> S] : Iterates(f, first, step, n)
  <2>. HIDE DEF S
  <2>. QED  BY <1>4, <1>5, Iteration
<1>7. f[0] = first /\ \A k \in 1..n : f[k] = NodeReadStep(f[k - 1], size)
  <2>. HIDE DEF S
  <2>1. \A k \in 1..n : f[k - 1] \in S
    BY <1>6
  <2>. QED  BY <1>3, <1>6, <2>1 DEF Iterates
<1>8. f = F(f)
  <2>. HIDE DEF S
  <2>1. \A k \in 0..n : f[k] = F(f)[k]
    BY <1>7
  <2>. QED  BY <1>6, <2>1
<1>9. PICK g : g = (CHOOSE h : h = F(h)) /\ g = F(g)
  <2>. HIDE DEF F, S
  <2>. QED  BY <1>8
<1>10. NodeReadFrom(b, i, size) = g[n]
  <2>1. NodeReadFrom(b, i, size)
            = (CHOOSE h : h = [k \in 0..(size + 1) |->
                                  IF k = 0 THEN first
                                  ELSE NodeReadStep(h[k - 1], size)])[size + 1]
    BY DEF NodeReadFrom, first
  <2>. QED  BY <1>9, <2>1
<1>11. g[0] = first /\ \A k \in 1..n : g[k] = NodeReadStep(g[k - 1], size)
  <2>1. F(g)[0] = first /\ \A k \in 1..n : F(g)[k] = NodeReadStep(g[k - 1], size)
    OBVIOUS
  <2>. HIDE DEF F, S
  <2>. QED  BY <1>9, <2>1
<1>12. \A t \in Turns(o, size) : t.m \in Nat /\ t.m =< size
  BY DEF Turns
<1>13. PICK t \in Turns(o, size) : g[n] = NodeReading(o, t) /\ t.m = size
  <2>. PICK T : T = {k \in 0..n : \E t \in Turns(o, size) :
                        g[k] = NodeReading(o, t) /\ (t.m >= k \/ t.m = size)}
    OBVIOUS
  <2>1. 0 \in T
    <3>1. start.m >= 0
      BY <1>2, <1>12
    <3>. QED  BY <1>2, <1>11, <3>1
  <2>2. ASSUME NEW k \in 1..n, k - 1 \in T
        PROVE  k \in T
    <3>1. PICK t \in Turns(o, size) :
              g[k - 1] = NodeReading(o, t) /\ (t.m >= k - 1 \/ t.m = size)
      BY <2>2
    <3>2. PICK u \in Turns(o, size) :
              /\ NodeReadStep(NodeReading(o, t), size) = NodeReading(o, u)
              /\ u.m >= t.m /\ (t.m < size => u.m > t.m)
      BY <1>1
    <3>3. g[k] = NodeReading(o, u)
      BY <1>11, <3>1, <3>2
    <3>4. u.m >= k \/ u.m = size
      <4>1. /\ t.m \in Nat /\ t.m =< size /\ u.m \in Nat /\ u.m =< size
        BY <1>12
      <4>2. /\ t.m >= k - 1 \/ t.m = size
            /\ u.m >= t.m
            /\ t.m < size => u.m > t.m
        BY <3>1, <3>2
      <4>. QED  BY <4>1, <4>2
    <3>. QED  BY <3>3, <3>4
  <2>3. n \in 0..n
    OBVIOUS
  <2>4. n \in T
    BY <2>1, <2>2, <2>3, Upwards
  <2>5. PICK t \in Turns(o, size) :
            g[n] = NodeReading(o, t) /\ (t.m >= n \/ t.m = size)
    BY <2>4
  <2>6. t.m = size
    <3>1. t.m \in Nat /\ t.m =< size
      BY <1>12
    <3>. QED  BY <2>5, <3>1
  <2>. QED  BY <2>5, <2>6
<1>. QED  BY <1>10, <1>13 DEF NodeReading, ReadsBytes

\* The size bytes from offset on of node i's content are in their place.
PartOf(i, offset, size) ==
    LET o == Place(nodes[i]) + offset
    IN  /\ o + size =< Len(entry_buffer)
        /\ SubSeq(entry_buffer, o + 1, o + size)
               = [k \in 1..size |-> <<nodes[i].number, offset + k>>]

LEMMA ContentBytes ==
    ASSUME NEW table, WrittenKnown(table), NEW i \in 1..Len(nodes),
           Place(nodes[i]) \in Nat,
           NEW offset \in Nat, NEW size \in Nat,
           offset + size =< nodes[i].size
    PROVE  PartOf(i, offset, size)
<1>. PICK place \in Nat : place = Place(nodes[i])
  OBVIOUS
<1>1. Filled /\ nodes \in Seq(Nodes) /\ i \in DOMAIN nodes
  BY NodesFacts DEF WrittenKnown, Settled, Reordered
<1>2. PICK l \in Nat, all \in Nat, number \in Nat :
          l = Len(entry_buffer) /\ all = nodes[i].size /\ number = nodes[i].number
  <2>1. Len(entry_buffer) \in Nat
    BY <1>1 DEF Filled
  <2>2. nodes[i] \in Nodes
    BY <1>1, NodesFacts
  <2>3. "size" \in Fields
    BY FieldNames
  <2>4. nodes[i]["size"] \in Nat
    BY <1>1, <2>3, LargestFieldFacts
  <2>5. nodes[i].number \in Nat
    BY <2>2 DEF Nodes
  <2>. QED  BY <2>1, <2>4, <2>5
<1>3. place + all =< l /\ offset + size =< all
      /\ \A k \in 1..all : entry_buffer[place + k] = <<number, k>>
  BY <1>1, <1>2 DEF Filled
<1>4. ASSUME NEW k \in 1..size
      PROVE  entry_buffer[(place + offset + 1) + k - 1] = <<number, offset + k>>
  <2>1. offset + k \in 1..all
    BY <1>3
  <2>2. (place + offset + 1) + k - 1 = place + (offset + k)
    OBVIOUS
  <2>. QED  BY <1>3, <2>1, <2>2
<1>5. PICK a \in Nat, z \in Nat :
          a = place + offset + 1 /\ z = place + offset + size
          /\ z - a + 1 = size /\ (a =< z \/ size = 0)
  <2>1. place + offset + 1 \in Nat /\ place + offset + size \in Nat
        /\ (place + offset + size) - (place + offset + 1) + 1 = size
        /\ (place + offset + 1 =< place + offset + size \/ size = 0)
    OBVIOUS
  <2>. QED  BY <2>1
<1>6. \A j \in a..z : entry_buffer[j] \in Nat \X Nat
  <2>1. ASSUME NEW j \in a..z
        PROVE  entry_buffer[j] \in Nat \X Nat
    <3>1. j \in 1..l
      <4>1. a = place + offset + 1 /\ z = place + offset + size
        BY <1>5
      <4>2. place + all =< l /\ offset + size =< all
        BY <1>3
      <4>. QED  BY <4>1, <4>2
    <3>. QED  BY <1>1, <1>2, <3>1, ElementOfSeq DEF Filled
  <2>. QED  BY <2>1
<1>7. /\ SubSeq(entry_buffer, a, z) \in Seq(Nat \X Nat)
      /\ Len(SubSeq(entry_buffer, a, z)) = IF a =< z THEN z - a + 1 ELSE 0
      /\ \A k \in 1..(z - a + 1) :
            SubSeq(entry_buffer, a, z)[k] = entry_buffer[a + k - 1]
  BY <1>6, SubSeqProperties
<1>8. PICK s \in Seq(Nat \X Nat) :
          /\ s = SubSeq(entry_buffer, a, z) /\ Len(s) = size
          /\ \A k \in 1..size : s[k] = <<number, offset + k>>
  <2>1. Len(SubSeq(entry_buffer, a, z)) = size
    <3>1. z - a + 1 = size /\ (a =< z \/ size = 0)
      BY <1>5
    <3>. QED  BY <1>7, <3>1
  <2>2. \A k \in 1..size : SubSeq(entry_buffer, a, z)[k] = <<number, offset + k>>
    BY <1>4, <1>5, <1>7
  <2>. QED  BY <1>7, <2>1, <2>2
<1>9. s = [k \in 1..size |-> <<number, offset + k>>]
  <2>1. DOMAIN s = 1..size /\ s = [k \in DOMAIN s |-> s[k]]
    BY <1>8, LenProperties
  <2>. QED  BY <1>8, <2>1
<1>10. place + offset + size =< l
  BY <1>3
<1>. QED  BY <1>2, <1>5, <1>8, <1>9, <1>10 DEF PartOf

\* What a read of size bytes of node i's content from offset on gives.
ReadsPart(read, i, offset, size) ==
    /\ read.failed = FALSE
    /\ read.bytes = [k \in 1..size |-> <<nodes[i].number, offset + k>>]

LEMMA DriverReads ==
    ASSUME NEW table, WrittenKnown(table), NEW i \in 1..Len(nodes),
           NEW node, node.block = nodes[i].block, node.index = nodes[i].index
    PROVE  \A offset, size \in Nat : offset + size =< nodes[i].size =>
               ReadsPart(node_read(node, offset, size), i, offset, size)
<1>. SUFFICES ASSUME NEW offset \in Nat, NEW size \in Nat,
                     offset + size =< nodes[i].size
              PROVE  ReadsPart(node_read(node, offset, size), i, offset, size)
  OBVIOUS
<1>1. SuperTyped /\ Compressed /\ nodes \in Seq(Nodes) /\ i \in DOMAIN nodes
  BY NodesFacts DEF WrittenKnown, Settled, Reordered
<1>2. PICK p \in Nat \ {0}, b \in Nat, x \in Nat, place \in Nat :
          /\ p = Pow2[super.block_log2] /\ p = super.block_size
          /\ b = nodes[i].block /\ x = nodes[i].index /\ place = b * p + x
          /\ place = Place(nodes[i])
  <2>1. "block" \in Fields /\ "index" \in Fields
    BY FieldNames
  <2>2. nodes[i]["block"] \in Nat /\ nodes[i]["index"] \in Nat
    BY <1>1, <2>1, LargestFieldFacts
  <2>3. PICK p \in Nat \ {0}, b \in Nat, x \in Nat :
            /\ p = Pow2[super.block_log2] /\ p = super.block_size
            /\ b = nodes[i].block /\ x = nodes[i].index
    BY <1>1, <2>2, SuperFacts DEF Compressed
  <2>4. b * p + x \in Nat /\ Place(nodes[i]) = b * p + x
    BY <2>3 DEF Place
  <2>. QED  BY <2>3, <2>4
<1>3. PICK o \in Nat : o = place + offset /\ o = offset + x + b * p
  <2>1. PICK y \in Nat : y = b * p
    OBVIOUS
  <2>2. place = y + x
    BY <1>2, <2>1
  <2>. QED  BY <2>1, <2>2
<1>4. /\ o + size =< Len(entry_buffer)
      /\ SubSeq(entry_buffer, o + 1, o + size)
             = [k \in 1..size |-> <<nodes[i].number, offset + k>>]
  <2>1. Place(nodes[i]) \in Nat /\ Place(nodes[i]) + offset = o
    BY <1>2, <1>3
  <2>2. PartOf(i, offset, size)
    BY <2>1, ContentBytes
  <2>. QED  BY <2>1, <2>2 DEF PartOf
<1>5. /\ o \div p \in Nat /\ o % p \in Nat /\ o % p < p
      /\ (o \div p) * p + (o % p) = o
  <2>1. o \div p \in 0..o /\ o % p \in 0..o /\ o % p < p
        /\ (o \div p) * p + (o % p) = o
    BY QuotientBounds
  <2>2. \A v \in 0..o : v \in Nat
    OBVIOUS
  <2>. QED  BY <2>1, <2>2
<1>6. node_read(node, offset, size) = NodeReadFrom(o \div p, o % p, size)
  <2>1. node_read(node, offset, size)
            = NodeReadFrom((offset + node.index + node.block * super.block_size)
                               \div Pow2[super.block_log2],
                           (offset + node.index + node.block * super.block_size)
                               % Pow2[super.block_log2], size)
    BY DEF node_read
  <2>2. offset + node.index + node.block * super.block_size = o
    BY <1>2, <1>3
  <2>. QED  BY <1>2, <2>1, <2>2
<1>7. AtByte(o \div p, o % p, o)
  <2>1. p = Pow2[super.block_log2]
    BY <1>2
  <2>. QED  BY <1>5, <2>1 DEF AtByte
<1>8. ReadsBytes(NodeReadFrom(o \div p, o % p, size), o, size)
  <2>. PICK c, y : c = o \div p /\ y = o % p
    OBVIOUS
  <2>1. c \in Nat /\ y \in Nat /\ AtByte(c, y, o)
    BY <1>5, <1>7
  <2>2. o + size =< Len(entry_buffer)
    BY <1>4
  <2>3. ReadsBytes(NodeReadFrom(c, y, size), o, size)
    BY <2>1, <2>2, ReadFrom
  <2>. QED  BY <2>3
<1>. QED  BY <1>4, <1>6, <1>8 DEF ReadsPart, ReadsBytes

LEMMA UnfsReads ==
    ASSUME NEW table, WrittenKnown(table), NEW i \in 1..Len(nodes),
           NEW node, node.block = nodes[i].block, node.index = nodes[i].index,
           node.size = nodes[i].size
    PROVE  ReadsPart(unfs_node_read(node), i, 0, nodes[i].size)
<1>1. /\ SuperTyped /\ Compressed /\ Filled /\ nodes \in Seq(Nodes)
      /\ i \in DOMAIN nodes
  BY NodesFacts DEF WrittenKnown, Settled, Reordered
<1>2. PICK p \in Nat \ {0}, b \in Nat, x \in Nat, size \in Nat, place \in Nat :
          /\ p = Pow2[super.block_log2]
          /\ b = nodes[i].block /\ x = nodes[i].index /\ place = b * p + x
          /\ place = Place(nodes[i]) /\ x < p /\ size = nodes[i].size
  <2>1. "block" \in Fields /\ "index" \in Fields /\ "size" \in Fields
    BY FieldNames
  <2>2. nodes[i]["block"] \in Nat /\ nodes[i]["index"] \in Nat
        /\ nodes[i]["size"] \in Nat
    BY <1>1, <2>1, LargestFieldFacts
  <2>3. PICK p \in Nat \ {0}, b \in Nat, x \in Nat, size \in Nat :
            /\ p = Pow2[super.block_log2]
            /\ b = nodes[i].block /\ x = nodes[i].index
            /\ size = nodes[i].size
    BY <1>1, <2>2, SuperFacts
  <2>4. b * p + x \in Nat /\ Place(nodes[i]) = b * p + x
    BY <2>3, SMTT(30) DEF Place
  <2>5. x < p
    BY <1>1, <2>3 DEF Filled
  <2>. QED  BY <2>3, <2>4, <2>5
<1>3. /\ place + size =< Len(entry_buffer)
      /\ SubSeq(entry_buffer, place + 1, place + size)
             = [k \in 1..size |-> <<nodes[i].number, 0 + k>>]
  <2>1. 0 + size =< nodes[i].size /\ 0 \in Nat
    BY <1>2
  <2>2. Place(nodes[i]) \in Nat /\ Place(nodes[i]) + 0 = place
    BY <1>2
  <2>3. PartOf(i, 0, size)
    BY <2>1, <2>2, ContentBytes
  <2>. QED  BY <2>2, <2>3 DEF PartOf
<1>4. AtByte(b, x, place)
  BY <1>2 DEF AtByte
<1>5. ReadsBytes(NodeReadFrom(b, x, size), place, size)
  <2>1. place + size =< Len(entry_buffer)
    BY <1>3
  <2>. QED  BY <1>4, <2>1, ReadFrom
<1>6. unfs_node_read(node) = NodeReadFrom(b, x, size)
  BY <1>2 DEF unfs_node_read
<1>. QED  BY <1>2, <1>3, <1>5, <1>6 DEF ReadsPart, ReadsBytes

(***************************************************************************)
(* In every image that is written, the driver reads any part of any node's *)
(* content, and unfs the whole content, as it was (ContentReadBack).       *)
(***************************************************************************)
THEOREM ContentsReadBack == Spec => []ContentReadBack
<1>1. TablesInv => ContentReadBack
  <2>. SUFFICES ASSUME TablesInv, Written, NEW i \in DOMAIN nodes
                PROVE  LET node == node_fill(nodes[i].number)
                           bytes(offset, size) ==
                               [k \in 1..size |-> <<nodes[i].number, offset + k>>]
                           whole == unfs_node_read(node)
                       IN
                       /\ ~whole.failed /\ whole.bytes = bytes(0, node.size)
                       /\ \A offset \in 0..node.size :
                          \A size \in 0..(node.size - offset) :
                              LET read == node_read(node, offset, size)
                              IN  ~read.failed /\ read.bytes = bytes(offset, size)
    BY DEF ContentReadBack
  <2>1. PICK table \in NodeTables : WrittenKnown(table)
    BY KnownWritten DEF TablesInv, Written
  <2>2. nodes \in Seq(Nodes) /\ \A k \in DOMAIN nodes : nodes[k].number = k - 1
    BY <2>1 DEF WrittenKnown, Settled, Reordered, InodeTableDone
  <2>3. i \in 1..Len(nodes)
    BY <2>2, NodesFacts
  <2>4. PICK node : node = node_fill(nodes[i].number)
    OBVIOUS
  <2>5. /\ node.block = nodes[i].block /\ node.index = nodes[i].index
        /\ node.size = nodes[i].size
    <3>1. NodeRead(i) /\ nodes[i].number = i - 1
      BY <2>1, <2>2, <2>3, NodeFill
    <3>. QED  BY <2>4, <3>1 DEF NodeRead, PlacedFields
  <2>6. ReadsPart(unfs_node_read(node), i, 0, node.size)
    BY <2>1, <2>3, <2>5, UnfsReads
  <2>7. node.size \in Nat
    <3>1. "size" \in Fields
      BY FieldNames
    <3>2. nodes[i]["size"] \in Nat
      BY <2>2, <3>1, LargestFieldFacts
    <3>. QED  BY <2>5, <3>2
  <2>8. ASSUME NEW offset \in 0..node.size, NEW size \in 0..(node.size - offset)
        PROVE  ReadsPart(node_read(node, offset, size), i, offset, size)
    <3>1. offset \in Nat /\ size \in Nat /\ offset + size =< node.size
      BY <2>7
    <3>. QED  BY <2>1, <2>3, <2>5, <3>1, DriverReads
  <2>. QED  BY <2>4, <2>6, <2>8 DEF ReadsPart
<1>. QED  BY <1>1, TablesInvariance, PTL
=============================================================================
