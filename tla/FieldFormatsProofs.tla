------------------------- MODULE FieldFormatsProofs -------------------------
(* Theorems about the formats of field elements and the scope's derivations, *)
(* in any field and base and for strings of any length: the implementations  *)
(* of one format agree, an encoding has one string, and a scope one message. *)
EXTENDS FieldFormats, SequenceTheorems, WellFoundedInduction, TLAPS

-----------------------------------------------------------------------------
(* Counting, and functions that are computed step by step *)

\* The numbers are well ordered.
LEMMA LeastNumber ==
    ASSUME NEW S \in SUBSET Nat, S # {}
    PROVE  \E least \in S : \A n \in S : least <= n
<1>1. PICK least \in S : \A n \in S : ~ (<<n, least>> \in OpToRel(<, Nat))
  BY NatLessThanWellFounded, WFMin
<1>2. \A n \in S : ~ (n < least)
  BY <1>1 DEF OpToRel
<1>3. QED
  BY <1>2

\* Induction over the naturals, of a set.
LEMMA Counting ==
    ASSUME NEW G, 0 \in G, \A n \in Nat : n \in G => n + 1 \in G
    PROVE  Nat \subseteq G
<1> SUFFICES ASSUME NEW n \in Nat, n \notin G PROVE FALSE
  OBVIOUS
<1> DEFINE Bad == Nat \ G
<1>1. PICK least \in Bad : \A m \in Bad : least <= m
  <2>1. Bad \in SUBSET Nat /\ Bad # {}
    OBVIOUS
  <2> HIDE DEF Bad
  <2>2. QED
    BY <2>1, LeastNumber
<1>2. least \in Nat /\ least \notin G
  OBVIOUS
<1>3. least - 1 \in Nat /\ (least - 1) + 1 = least /\ ~ (least <= least - 1)
  BY <1>2
<1>4. least - 1 \in G
  BY <1>1, <1>3
<1>5. QED
  BY <1>2, <1>3, <1>4

\* f takes n steps from a.
Follows(f, n, a, step) ==
    f \in [0 .. n -> Nat] /\ f[0] = a /\ \A i \in 0 .. n - 1 : f[i + 1] = step[i][f[i]]

\* A function that follows n steps can take one more,
LEMMA OneMoreStep ==
    ASSUME NEW n \in Nat, NEW a \in Nat, NEW step \in [Nat -> [Nat -> Nat]], NEW f,
           Follows(f, n, a, step)
    PROVE  \E g : Follows(g, n + 1, a, step)
<1> DEFINE g == [i \in 0 .. n + 1 |-> IF i <= n THEN f[i] ELSE step[n][f[n]]]
<1>1. f[n] \in Nat /\ step[n][f[n]] \in Nat
  BY DEF Follows
<1>2. g \in [0 .. n + 1 -> Nat] /\ g[0] = a
  <2>1. \A i \in 0 .. n : f[i] \in Nat
    BY DEF Follows
  <2>2. \A i \in 0 .. n + 1 : i <= n => i \in 0 .. n
    OBVIOUS
  <2>3. g[0] = f[0]
    OBVIOUS
  <2>4. QED
    BY <1>1, <2>1, <2>2, <2>3 DEF Follows
<1>3. ASSUME NEW i \in 0 .. n PROVE g[i + 1] = step[i][g[i]]
  <2>1. CASE i = n
    BY <2>1
  <2>2. CASE i # n
    <3>1. i \in 0 .. n - 1 /\ i + 1 \in 0 .. n
      BY <2>2
    <3>2. g[i + 1] = f[i + 1] /\ g[i] = f[i]
      BY <3>1
    <3>3. QED
      BY <3>1, <3>2 DEF Follows
  <2>3. QED
    BY <2>1, <2>2
<1> HIDE DEF g
<1>4. (n + 1) - 1 = n
  OBVIOUS
<1>5. QED
  BY <1>2, <1>3, <1>4 DEF Follows

\* one that follows n + 1 steps follows n,
LEMMA OneStepLess ==
    ASSUME NEW n \in Nat, NEW a, NEW step, NEW f, Follows(f, n + 1, a, step)
    PROVE  Follows([i \in 0 .. n |-> f[i]], n, a, step)
<1> DEFINE g == [i \in 0 .. n |-> f[i]]
<1>1. (n + 1) - 1 = n /\ 0 \in 0 .. n /\ 0 .. n \subseteq 0 .. n + 1
  OBVIOUS
<1>2. /\ f \in [0 .. n + 1 -> Nat] /\ f[0] = a
      /\ \A i \in 0 .. n : f[i + 1] = step[i][f[i]]
  BY <1>1 DEF Follows
<1>3. \A i \in 0 .. n : g[i] = f[i] /\ f[i] \in Nat
  BY <1>1, <1>2
<1>4. g \in [0 .. n -> Nat] /\ g[0] = a
  BY <1>1, <1>2, <1>3
<1>5. ASSUME NEW i \in 0 .. n - 1 PROVE g[i + 1] = step[i][g[i]]
  <2>1. i \in 0 .. n /\ i + 1 \in 0 .. n
    OBVIOUS
  <2> HIDE DEF g
  <2>2. QED
    BY <1>2, <1>3, <2>1
<1> HIDE DEF g
<1>6. Follows(g, n, a, step)
  BY <1>4, <1>5 DEF Follows
<1>7. QED
  BY <1>6 DEF g

\* and only one function follows n steps.
LEMMA SameSteps ==
    ASSUME NEW n \in Nat, NEW a, NEW step, NEW f, NEW g,
           Follows(f, n, a, step), Follows(g, n, a, step)
    PROVE  f = g
<1> DEFINE G == {i \in Nat : i <= n => f[i] = g[i]}
<1>1. 0 \in G
  BY DEF Follows
<1>2. ASSUME NEW i \in Nat, i \in G PROVE i + 1 \in G
  <2> SUFFICES ASSUME i + 1 <= n PROVE f[i + 1] = g[i + 1]
    OBVIOUS
  <2>1. i \in 0 .. n - 1 /\ f[i] = g[i]
    BY <1>2
  <2>2. QED
    BY <2>1 DEF Follows
<1> HIDE DEF G
<1>3. Nat \subseteq G
  BY <1>1, <1>2, Counting
<1>4. \A i \in 0 .. n : f[i] = g[i]
  BY <1>3 DEF G
<1>5. QED
  BY <1>4 DEF Follows

\* So a function of all numbers that is computed step by step exists.
LEMMA StepByStep ==
    ASSUME NEW a \in Nat, NEW step \in [Nat -> [Nat -> Nat]]
    PROVE  \E f \in [Nat -> Nat] : f[0] = a /\ \A n \in Nat : f[n + 1] = step[n][f[n]]
<1> DEFINE G == {n \in Nat : \E f : Follows(f, n, a, step)}
<1>1. 0 \in G
  <2>1. Follows([i \in 0 .. 0 |-> a], 0, a, step)
    BY DEF Follows
  <2>2. QED
    BY <2>1
<1>2. ASSUME NEW n \in Nat, n \in G PROVE n + 1 \in G
  <2>1. PICK f : Follows(f, n, a, step)
    BY <1>2
  <2>2. \E g : Follows(g, n + 1, a, step)
    BY <2>1, OneMoreStep
  <2>3. QED
    BY <2>2
<1>3. Nat \subseteq G
  <2> HIDE DEF G
  <2>1. QED
    BY <1>1, <1>2, Counting
<1> DEFINE part(n) == CHOOSE f : Follows(f, n, a, step)
<1>4. ASSUME NEW n \in Nat PROVE Follows(part(n), n, a, step)
  <2>1. \E f : Follows(f, n, a, step)
    BY <1>3
  <2>2. QED
    BY <2>1
<1> HIDE DEF part
<1>5. ASSUME NEW n \in Nat PROVE part(n + 1)[n] = part(n)[n]
  <2>1. n + 1 \in Nat
    OBVIOUS
  <2> DEFINE f == part(n + 1)
             g == [i \in 0 .. n |-> f[i]]
  <2>2. Follows(f, n + 1, a, step)
    BY <1>4, <2>1
  <2> HIDE DEF f
  <2>3. Follows(g, n, a, step)
    BY <2>2, OneStepLess
  <2> HIDE DEF g
  <2>4. g = part(n)
    BY <1>4, <2>3, SameSteps
  <2>5. g[n] = f[n]
    BY DEF g
  <2>6. QED
    BY <2>4, <2>5 DEF f
<1>6. ASSUME NEW n \in Nat PROVE part(n)[n] \in Nat
  BY <1>4 DEF Follows
<1>7. part(0)[0] = a
  BY <1>4 DEF Follows
<1>8. ASSUME NEW n \in Nat PROVE part(n + 1)[n + 1] = step[n][part(n + 1)[n]]
  <2>1. n + 1 \in Nat /\ n \in 0 .. (n + 1) - 1
    OBVIOUS
  <2> DEFINE f == part(n + 1)
  <2>2. Follows(f, n + 1, a, step)
    BY <1>4, <2>1
  <2> HIDE DEF f
  <2>3. f[n + 1] = step[n][f[n]]
    BY <2>1, <2>2 DEF Follows
  <2>4. QED
    BY <2>3 DEF f
<1> DEFINE whole == [n \in Nat |-> part(n)[n]]
<1>9. whole \in [Nat -> Nat] /\ whole[0] = a
  BY <1>6, <1>7
<1>10. ASSUME NEW n \in Nat PROVE whole[n + 1] = step[n][whole[n]]
  <2>1. whole[n + 1] = part(n + 1)[n + 1] /\ whole[n] = part(n)[n]
    OBVIOUS
  <2>2. QED
    BY <1>5, <1>8, <2>1
<1> HIDE DEF whole
<1>11. QED
  BY <1>9, <1>10

-----------------------------------------------------------------------------
(* Powers and Horner's rule *)

\* Power is defined for every exponent, and is what its equation says.
LEMMA Powers ==
    /\ Power \in [Nat -> Nat]
    /\ Power[0] = 1
    /\ \A k \in Nat : Power[k + 1] = Base * Power[k]
<1> DEFINE step == [k \in Nat |-> [v \in Nat |-> Base * v]]
<1>1. step \in [Nat -> [Nat -> Nat]]
  BY FormatsAssumption
<1>2. \A k \in Nat : \A v \in Nat : step[k][v] = Base * v
  OBVIOUS
<1> HIDE DEF step
<1>3. PICK f \in [Nat -> Nat] : f[0] = 1 /\ \A k \in Nat : f[k + 1] = step[k][f[k]]
  <2>1. 1 \in Nat
    OBVIOUS
  <2>2. QED
    BY <1>1, <2>1, StepByStep
<1>4. ASSUME NEW k \in Nat PROVE f[k] = IF k = 0 THEN 1 ELSE Base * f[k - 1]
  <2>1. CASE k = 0
    BY <1>3, <2>1
  <2>2. CASE k # 0
    <3>1. k - 1 \in Nat /\ (k - 1) + 1 = k
      BY <2>2
    <3>2. QED
      BY <1>2, <1>3, <2>2, <3>1
  <2>3. QED
    BY <2>1, <2>2
<1>5. f = [k \in Nat |-> IF k = 0 THEN 1 ELSE Base * f[k - 1]]
  BY <1>4
<1>6. Power = [k \in Nat |-> IF k = 0 THEN 1 ELSE Base * Power[k - 1]]
  BY <1>5 DEF Power
<1>7. Power[0] = 1 /\ \A k \in Nat : Power[k + 1] = Base * Power[k]
  BY <1>6
<1>8. Power \in [Nat -> Nat]
  <2> DEFINE G == {k \in Nat : Power[k] \in Nat}
  <2>1. 0 \in G /\ \A k \in Nat : k \in G => k + 1 \in G
    BY <1>7, FormatsAssumption
  <2> HIDE DEF G
  <2>2. Nat \subseteq G
    BY <2>1, Counting
  <2>3. \A k \in Nat : Power[k] \in Nat
    BY <2>2 DEF G
  <2>4. QED
    BY <1>6, <2>3
<1>9. QED
  BY <1>7, <1>8

\* Powers are positive and grow with the exponent.
LEMMA PowersGrow ==
    /\ \A k \in Nat : Power[k] > 0
    /\ \A k, m \in Nat : k <= m => Power[k] <= Power[m]
<1>1. \A k \in Nat : Power[k] \in Nat /\ Power[k + 1] = Base * Power[k]
  BY Powers
<1>2. Base \in Nat /\ Base > 1
  BY FormatsAssumption
<1> DEFINE G == {k \in Nat : Power[k] > 0}
<1>3. 0 \in G
  BY Powers
<1>4. ASSUME NEW k \in Nat, k \in G PROVE k + 1 \in G
  <2> DEFINE x == Power[k]
  <2>1. x \in Nat /\ x > 0 /\ Power[k + 1] = Base * x
    BY <1>1, <1>4
  <2> HIDE DEF x
  <2>2. Base * x > 0
    BY <1>2, <2>1
  <2>3. QED
    BY <2>1, <2>2
<1> HIDE DEF G
<1>5. Nat \subseteq G
  BY <1>3, <1>4, Counting
<1>6. \A k \in Nat : Power[k] > 0
  BY <1>5 DEF G
<1>7. ASSUME NEW k \in Nat, NEW m \in Nat, k <= m PROVE Power[k] <= Power[m]
  <2> DEFINE H == {i \in Nat : Power[k] <= Power[k + i]}
  <2>1. 0 \in H
    BY <1>1
  <2>2. ASSUME NEW i \in Nat, i \in H PROVE i + 1 \in H
    <3> DEFINE x == Power[k + i]
    <3>1. k + i \in Nat /\ k + (i + 1) = (k + i) + 1
      OBVIOUS
    <3>2. x \in Nat /\ Power[k] \in Nat /\ Power[k] <= x /\ Power[k + (i + 1)] = Base * x
      BY <1>1, <2>2, <3>1
    <3> HIDE DEF x
    <3>3. x <= Base * x
      BY <1>2, <3>2
    <3>4. Power[k] <= Power[k + (i + 1)]
      BY <1>2, <3>2, <3>3
    <3>5. QED
      BY <3>4
  <2> HIDE DEF H
  <2>3. Nat \subseteq H
    BY <2>1, <2>2, Counting
  <2>4. m - k \in Nat /\ k + (m - k) = m
    BY <1>7
  <2>5. Power[k] <= Power[k + (m - k)]
    BY <2>3, <2>4 DEF H
  <2>6. QED
    BY <2>4, <2>5
<1>8. QED
  BY <1>6, <1>7

\* Horner's rule, step by step: h are the values of the first digits.
Values(h, base, digits, n) ==
    /\ h \in [0 .. n -> Nat] /\ h[0] = 0
    /\ \A i \in 1 .. n : h[i] = base * h[i - 1] + digits[i]

\* The value of digits is that of all of them.
LEMMA HornerSteps ==
    ASSUME NEW base \in Nat, NEW n \in Nat, NEW digits \in [1 .. n -> Nat]
    PROVE  \E h : Values(h, base, digits, n) /\ Horner(base, digits) = h[n]
<1> DEFINE step == [k \in Nat |-> [v \in Nat |-> IF k < n THEN base * v + digits[k + 1] ELSE 0]]
<1>1. step \in [Nat -> [Nat -> Nat]]
  <2>1. ASSUME NEW k \in Nat, k < n PROVE digits[k + 1] \in Nat
    <3>1. k + 1 \in 1 .. n
      BY <2>1
    <3>2. QED
      BY <3>1
  <2>2. QED
    BY <2>1
<1>2. \A k \in Nat : \A v \in Nat : k < n => step[k][v] = base * v + digits[k + 1]
  OBVIOUS
<1> HIDE DEF step
<1>3. PICK f \in [Nat -> Nat] : f[0] = 0 /\ \A k \in Nat : f[k + 1] = step[k][f[k]]
  <2>1. 0 \in Nat
    OBVIOUS
  <2>2. QED
    BY <1>1, <2>1, StepByStep
<1> DEFINE g == [i \in 0 .. n |-> f[i]]
<1>4. ASSUME NEW i \in 1 .. n PROVE f[i] = base * f[i - 1] + digits[i]
  <2>1. i - 1 \in Nat /\ (i - 1) + 1 = i /\ i - 1 < n
    OBVIOUS
  <2>2. f[(i - 1) + 1] = base * f[i - 1] + digits[(i - 1) + 1]
    BY <1>2, <1>3, <2>1
  <2>3. QED
    BY <2>1, <2>2
<1>5. g = [i \in 0 .. n |-> IF i = 0 THEN 0 ELSE base * g[i - 1] + digits[i]]
  <2>1. \A i \in 0 .. n : i # 0 => i \in 1 .. n /\ i - 1 \in 0 .. n
    OBVIOUS
  <2>2. QED
    BY <1>3, <1>4, <2>1
<1>6. Len(digits) = n
  OBVIOUS
<1> HIDE DEF g
<1> DEFINE value == CHOOSE h :
        h = [i \in 0 .. n |-> IF i = 0 THEN 0 ELSE base * h[i - 1] + digits[i]]
<1>7. Horner(base, digits) = value[n]
  BY <1>6 DEF Horner
<1>8. value = [i \in 0 .. n |-> IF i = 0 THEN 0 ELSE base * value[i - 1] + digits[i]]
  BY <1>5
<1> HIDE DEF value
<1>9. value[0] = 0 /\ \A i \in 1 .. n : value[i] = base * value[i - 1] + digits[i]
  <2>1. 0 \in 0 .. n /\ \A i \in 1 .. n : i \in 0 .. n /\ i # 0
    OBVIOUS
  <2>2. value[0] = 0
    BY <1>8, <2>1
  <2>3. ASSUME NEW i \in 1 .. n PROVE value[i] = base * value[i - 1] + digits[i]
    <3>1. i \in 0 .. n /\ i # 0
      BY <2>1
    <3>2. value[i] = IF i = 0 THEN 0 ELSE base * value[i - 1] + digits[i]
      BY <1>8, <3>1
    <3>3. QED
      BY <3>1, <3>2
  <2>4. QED
    BY <2>2, <2>3
<1> DEFINE G == {i \in Nat : i <= n => value[i] \in Nat}
<1>10. 0 \in G
  BY <1>9
<1>11. ASSUME NEW i \in Nat, i \in G PROVE i + 1 \in G
  <2> SUFFICES ASSUME i + 1 <= n PROVE value[i + 1] \in Nat
    OBVIOUS
  <2>1. value[i] \in Nat /\ i + 1 \in 1 .. n /\ (i + 1) - 1 = i
    BY <1>11
  <2>2. value[i + 1] = base * value[i] + digits[i + 1]
    BY <1>9, <2>1
  <2> DEFINE x == value[i]
             d == digits[i + 1]
  <2>3. x \in Nat /\ d \in Nat
    BY <2>1
  <2>4. value[i + 1] = base * x + d
    BY <2>2
  <2> HIDE DEF x, d
  <2>5. base * x + d \in Nat
    <3> DEFINE y == base * x
    <3>1. y \in Nat
      BY <2>3
    <3> HIDE DEF y
    <3>2. y + d \in Nat
      BY <2>3, <3>1
    <3>3. QED
      BY <3>2 DEF y
  <2>6. QED
    BY <2>4, <2>5
<1> HIDE DEF G
<1>12. Nat \subseteq G
  BY <1>10, <1>11, Counting
<1>13. value \in [0 .. n -> Nat]
  <2>1. \A i \in 0 .. n : value[i] \in Nat
    BY <1>12 DEF G
  <2>2. QED
    BY <1>8, <2>1
<1>14. QED
  BY <1>7, <1>9, <1>13 DEF Values

-----------------------------------------------------------------------------
(* Numbers and bytes *)

\* Quotient and remainder,
LEMMA Division ==
    ASSUME NEW v \in Nat, NEW d \in Nat, d > 0
    PROVE  v \div d \in Nat /\ v % d \in 0 .. d - 1 /\ v = d * (v \div d) + (v % d)
OBVIOUS

\* of a number that is given by them,
LEMMA Remainder ==
    ASSUME NEW q \in Nat, NEW d \in Nat, NEW r \in 0 .. d - 1
    PROVE  (d * q + r) \div d = q /\ (d * q + r) % d = r
OBVIOUS

\* and by a product.
LEMMA DivisionTwice ==
    ASSUME NEW v \in Nat, NEW d \in Nat, d > 0, NEW e \in Nat, e > 0
    PROVE  v \div (e * d) = (v \div d) \div e
OBVIOUS

\* A further digit decides only between equal numbers.
LEMMA HornerOrder ==
    ASSUME NEW base \in Nat, NEW x \in Nat, NEW y \in Nat,
           NEW c \in 0 .. base - 1, NEW d \in 0 .. base - 1
    PROVE  /\ base * x + c < base * y + d <=> x < y \/ (x = y /\ c < d)
           /\ base * x + c = base * y + d <=> x = y /\ c = d
OBVIOUS

\* The number of some bytes, with the numbers of the first of them.
LEMMA NumberSteps ==
    ASSUME NEW b \in Bytes
    PROVE  \E h : Values(h, Base, b, Width) /\ Number(b) = h[Width]
<1>1. Base \in Nat /\ Width \in Nat /\ b \in [1 .. Width -> Nat]
  BY FormatsAssumption DEF Bytes
<1>2. QED
  BY <1>1, HornerSteps DEF Number

\* The bytes of a number below Power[Width] are those of the number.
LEMMA BytesOfNumber ==
    ASSUME NEW v \in Nat
    PROVE  BigEndian(v) \in Bytes /\ (v < Power[Width] => Number(BigEndian(v)) = v)
<1> DEFINE b == BigEndian(v)
<1>1. Base \in Nat /\ Base > 1 /\ Width \in Nat
  BY FormatsAssumption
<1>2. \A k \in Nat : Power[k] \in Nat /\ Power[k] > 0 /\ Power[k + 1] = Base * Power[k]
  BY Powers, PowersGrow
<1>3. ASSUME NEW k \in Nat
      PROVE  /\ v \div Power[k] \in Nat
             /\ (v \div Power[k]) % Base \in 0 .. Base - 1
             /\ v \div Power[k] = Base * (v \div Power[k + 1]) + ((v \div Power[k]) % Base)
  <2> DEFINE d == Power[k]
             q == v \div d
  <2>1. d \in Nat /\ d > 0 /\ Power[k + 1] = Base * d
    BY <1>2
  <2> HIDE DEF d
  <2>2. q \in Nat /\ v \div Power[k + 1] = q \div Base
    BY <1>1, <2>1, Division, DivisionTwice
  <2> HIDE DEF q
  <2>3. q % Base \in 0 .. Base - 1 /\ q = Base * (q \div Base) + (q % Base)
    BY <1>1, <2>2, Division
  <2>4. QED
    BY <2>2, <2>3 DEF q, d
<1>4. /\ b \in Bytes
      /\ \A i \in 1 .. Width : b[i] = (v \div Power[Width - i]) % Base
  <2>1. \A i \in 1 .. Width : Width - i \in Nat
    BY <1>1
  <2>2. QED
    BY <1>3, <2>1 DEF BigEndian, Bytes
<1>5. ASSUME v < Power[Width] PROVE Number(b) = v
  <2> HIDE DEF b
  <2>1. PICK h : Values(h, Base, b, Width) /\ Number(b) = h[Width]
    BY <1>4, NumberSteps
  <2> DEFINE G == {k \in Nat : k <= Width => h[k] = v \div Power[Width - k]}
  <2>2. 0 \in G
    <3> DEFINE p == Power[Width]
    <3>1. p \in Nat /\ v < p
      BY <1>1, <1>2, <1>5
    <3> HIDE DEF p
    <3>2. v \div p = 0
      BY <3>1
    <3>3. h[0] = 0 /\ Width - 0 = Width
      BY <1>1, <2>1 DEF Values
    <3>4. QED
      BY <3>2, <3>3 DEF p
  <2>3. ASSUME NEW k \in Nat, k \in G PROVE k + 1 \in G
    <3> SUFFICES ASSUME k + 1 <= Width PROVE h[k + 1] = v \div Power[Width - (k + 1)]
      OBVIOUS
    <3> DEFINE m == Width - (k + 1)
    <3>1. m \in Nat /\ Width - k = m + 1 /\ k + 1 \in 1 .. Width /\ (k + 1) - 1 = k
      BY <1>1
    <3>2. h[k + 1] = Base * h[k] + b[k + 1]
      BY <2>1, <3>1 DEF Values
    <3>3. b[k + 1] = (v \div Power[m]) % Base
      BY <1>4, <3>1
    <3> HIDE DEF m
    <3>4. h[k] = v \div Power[m + 1]
      <4>1. k <= Width
        BY <1>1, <3>1
      <4>2. h[k] = v \div Power[Width - k]
        BY <2>3, <4>1
      <4>3. QED
        BY <3>1, <4>2
    <3>5. h[k + 1] = v \div Power[m]
      <4>1. v \div Power[m] = Base * (v \div Power[m + 1]) + ((v \div Power[m]) % Base)
        BY <1>3, <3>1
      <4>2. QED
        BY <3>2, <3>3, <3>4, <4>1
    <3>6. QED
      BY <3>5 DEF m
  <2> HIDE DEF G
  <2>4. Nat \subseteq G
    BY <2>2, <2>3, Counting
  <2>5. h[Width] = v \div Power[0] /\ Power[0] = 1
    <3>1. Width - Width = 0
      BY <1>1
    <3>2. QED
      BY <1>1, <2>4, <3>1, Powers DEF G
  <2>6. v \div 1 = v
    OBVIOUS
  <2>7. QED
    BY <2>1, <2>5, <2>6
<1>6. QED
  BY <1>4, <1>5

\* The numbers of two byte strings compare as their first difference does, byte by byte.
LEMMA NumbersCompare ==
    ASSUME NEW b \in Bytes, NEW m \in Bytes
    PROVE  /\ Number(b) < Number(m) <=>
                \E i \in 1 .. Width : b[i] < m[i] /\ \A j \in 1 .. i - 1 : b[j] = m[j]
           /\ Number(b) = Number(m) => b = m
<1> DEFINE Lower(k) == \E i \in 1 .. k : b[i] < m[i] /\ \A j \in 1 .. i - 1 : b[j] = m[j]
           Same(k) == \A j \in 1 .. k : b[j] = m[j]
<1>1. Base \in Nat /\ Width \in Nat
  BY FormatsAssumption
<1>2. \A i \in 1 .. Width : b[i] \in 0 .. Base - 1 /\ m[i] \in 0 .. Base - 1
  BY DEF Bytes
<1>3. PICK h : Values(h, Base, b, Width) /\ Number(b) = h[Width]
  BY NumberSteps
<1>4. PICK g : Values(g, Base, m, Width) /\ Number(m) = g[Width]
  BY NumberSteps
<1> DEFINE G == {k \in Nat : k <= Width => /\ h[k] < g[k] <=> Lower(k)
                                           /\ h[k] = g[k] <=> Same(k)}
<1>5. 0 \in G
  BY <1>3, <1>4 DEF Values
<1>6. ASSUME NEW k \in Nat, k \in G PROVE k + 1 \in G
  <2> SUFFICES ASSUME k + 1 <= Width
               PROVE  /\ h[k + 1] < g[k + 1] <=> Lower(k + 1)
                      /\ h[k + 1] = g[k + 1] <=> Same(k + 1)
    OBVIOUS
  <2>1. k + 1 \in 1 .. Width /\ (k + 1) - 1 = k /\ k \in 0 .. Width /\ k <= Width
    BY <1>1
  <2>2. (h[k] < g[k] <=> Lower(k)) /\ (h[k] = g[k] <=> Same(k))
    BY <1>6, <2>1
  <2>3. Lower(k + 1) <=> Lower(k) \/ (b[k + 1] < m[k + 1] /\ Same(k))
    <3>1. 1 .. k + 1 = (1 .. k) \cup {k + 1}
      OBVIOUS
    <3>2. QED
      BY <2>1, <3>1
  <2>4. Same(k + 1) <=> Same(k) /\ b[k + 1] = m[k + 1]
    <3>1. 1 .. k + 1 = (1 .. k) \cup {k + 1}
      OBVIOUS
    <3>2. QED
      BY <3>1
  <2> HIDE DEF Lower, Same
  <2> DEFINE x == h[k]
             y == g[k]
             c == b[k + 1]
             d == m[k + 1]
  <2>5. x \in Nat /\ y \in Nat /\ c \in 0 .. Base - 1 /\ d \in 0 .. Base - 1
    BY <1>2, <1>3, <1>4, <2>1 DEF Values
  <2>6. h[k + 1] = Base * x + c /\ g[k + 1] = Base * y + d
    BY <1>3, <1>4, <2>1 DEF Values
  <2> HIDE DEF x, y, c, d
  <2>7. /\ h[k + 1] < g[k + 1] <=> x < y \/ (x = y /\ c < d)
        /\ h[k + 1] = g[k + 1] <=> x = y /\ c = d
    BY <1>1, <2>5, <2>6, HornerOrder
  <2>8. QED
    BY <2>2, <2>3, <2>4, <2>7 DEF x, y, c, d
<1> HIDE DEF G
<1>7. Nat \subseteq G
  BY <1>5, <1>6, Counting
<1>8. (h[Width] < g[Width] <=> Lower(Width)) /\ (h[Width] = g[Width] <=> Same(Width))
  BY <1>1, <1>7 DEF G
<1>9. ASSUME Same(Width) PROVE b = m
  <2>1. \A i \in 1 .. Width : b[i] = m[i]
    BY <1>9
  <2>2. b = [i \in 1 .. Width |-> b[i]] /\ m = [i \in 1 .. Width |-> m[i]]
    BY DEF Bytes
  <2>3. QED
    BY <2>1, <2>2
<1>10. QED
  BY <1>3, <1>4, <1>8, <1>9

\* The number of bytes is positive when one of them is.
LEMMA NumbersPositive ==
    ASSUME NEW b \in Bytes
    PROVE  Number(b) \in Nat /\ (Number(b) > 0 <=> \E i \in 1 .. Width : b[i] # 0)
<1> DEFINE Some(k) == \E i \in 1 .. k : b[i] # 0
<1>1. Base \in Nat /\ Base > 1 /\ Width \in Nat
  BY FormatsAssumption
<1>2. \A i \in 1 .. Width : b[i] \in Nat
  BY <1>1 DEF Bytes
<1>3. PICK h : Values(h, Base, b, Width) /\ Number(b) = h[Width]
  BY NumberSteps
<1> DEFINE G == {k \in Nat : k <= Width => (h[k] > 0 <=> Some(k))}
<1>4. 0 \in G
  BY <1>3 DEF Values
<1>5. ASSUME NEW k \in Nat, k \in G PROVE k + 1 \in G
  <2> SUFFICES ASSUME k + 1 <= Width PROVE h[k + 1] > 0 <=> Some(k + 1)
    OBVIOUS
  <2>1. k + 1 \in 1 .. Width /\ (k + 1) - 1 = k /\ k \in 0 .. Width /\ k <= Width
    BY <1>1
  <2>2. h[k] > 0 <=> Some(k)
    BY <1>5, <2>1
  <2>3. Some(k + 1) <=> Some(k) \/ b[k + 1] # 0
    <3>1. 1 .. k + 1 = (1 .. k) \cup {k + 1}
      OBVIOUS
    <3>2. QED
      BY <3>1
  <2> HIDE DEF Some
  <2> DEFINE x == h[k]
             c == b[k + 1]
  <2>4. x \in Nat /\ c \in Nat /\ h[k + 1] = Base * x + c
    BY <1>2, <1>3, <2>1 DEF Values
  <2> HIDE DEF x, c
  <2>5. Base * x + c > 0 <=> x > 0 \/ c > 0
    BY <1>1, <2>4
  <2>6. QED
    BY <2>2, <2>3, <2>4, <2>5 DEF x, c
<1> HIDE DEF G
<1>6. Nat \subseteq G
  BY <1>4, <1>5, Counting
<1>7. h[Width] > 0 <=> Some(Width)
  BY <1>1, <1>6 DEF G
<1>8. h[Width] \in Nat
  BY <1>1, <1>3 DEF Values
<1>9. QED
  BY <1>3, <1>7, <1>8

\* Bytes stand for a number below Power[Width], and are the bytes of that number.
LEMMA NumberOfBytes ==
    ASSUME NEW b \in Bytes
    PROVE  Number(b) < Power[Width] /\ BigEndian(Number(b)) = b
<1>1. Base \in Nat /\ Base > 1 /\ Width \in Nat
  BY FormatsAssumption
<1>2. \A k \in Nat : Power[k] \in Nat /\ Power[k + 1] = Base * Power[k]
  BY Powers
<1>3. PICK h : Values(h, Base, b, Width) /\ Number(b) = h[Width]
  BY NumberSteps
<1> DEFINE G == {k \in Nat : k <= Width => h[k] < Power[k]}
<1>4. 0 \in G
  BY <1>3, Powers DEF Values
<1>5. ASSUME NEW k \in Nat, k \in G PROVE k + 1 \in G
  <2> SUFFICES ASSUME k + 1 <= Width PROVE h[k + 1] < Power[k + 1]
    OBVIOUS
  <2>1. k + 1 \in 1 .. Width /\ (k + 1) - 1 = k /\ k \in 0 .. Width /\ k <= Width
    BY <1>1
  <2> DEFINE x == h[k]
             p == Power[k]
             c == b[k + 1]
  <2>2. x \in Nat /\ p \in Nat /\ x < p /\ c \in 0 .. Base - 1
    BY <1>2, <1>3, <1>5, <2>1 DEF Values, Bytes
  <2>3. h[k + 1] = Base * x + c /\ Power[k + 1] = Base * p
    BY <1>2, <1>3, <2>1 DEF Values
  <2> HIDE DEF x, p, c
  <2>4. Base * x + c < Base * p + 0
    <3>1. 0 \in 0 .. Base - 1
      BY <1>1
    <3>2. QED
      BY <1>1, <2>2, <3>1, HornerOrder
  <2>5. Base * p + 0 = Base * p
    BY <1>1, <2>2
  <2>6. QED
    BY <2>3, <2>4, <2>5
<1> HIDE DEF G
<1>6. Nat \subseteq G
  BY <1>4, <1>5, Counting
<1>7. h[Width] < Power[Width]
  BY <1>1, <1>6 DEF G
<1> DEFINE v == Number(b)
<1>8. v \in Nat /\ v < Power[Width]
  BY <1>3, <1>7, NumbersPositive
<1> HIDE DEF v
<1>9. BigEndian(v) \in Bytes /\ Number(BigEndian(v)) = v
  BY <1>8, BytesOfNumber
<1> DEFINE bb == BigEndian(v)
<1>10. bb \in Bytes /\ Number(bb) = Number(b)
  BY <1>9 DEF v
<1> HIDE DEF bb
<1>11. bb = b
  BY <1>10, NumbersCompare
<1>12. QED
  BY <1>8, <1>11 DEF bb, v

\* The digits of a number in hexadecimal, after as many zeros as are missing, are its bytes.
LEMMA PaddingFills ==
    ASSUME NEW v \in Nat, v < Power[Width]
    PROVE  PaddedHex(v) = BigEndian(v)
<1>1. Base \in Nat /\ Base > 1 /\ Width \in Nat
  BY FormatsAssumption
<1>2. \A k \in Nat : Power[k] \in Nat /\ Power[k] > 0
  BY Powers, PowersGrow
<1>3. Width > 0
  <2>1. Modulus \in Nat /\ 1 < Modulus /\ Modulus < Power[Width]
    BY FormatsAssumption
  <2>2. Power[0] = 1
    BY Powers
  <2>3. Width # 0
    BY <2>1, <2>2
  <2>4. QED
    BY <1>1, <2>3
<1> DEFINE Enough(n) == v < Power[n] /\ (n = 1 \/ v >= Power[n - 1])
           needed == CHOOSE n \in 1 .. Width : Enough(n)
<1>4. \E n \in 1 .. Width : Enough(n)
  <2> DEFINE S == {n \in 1 .. Width : v < Power[n]}
  <2>1. Width \in S /\ S \in SUBSET Nat
    BY <1>1, <1>3
  <2> HIDE DEF S
  <2>2. PICK n \in S : \A m \in S : n <= m
    BY <2>1, LeastNumber
  <2>3. n \in 1 .. Width /\ v < Power[n]
    BY <2>2 DEF S
  <2>4. ASSUME n # 1 PROVE v >= Power[n - 1]
    <3>1. n - 1 \in 1 .. Width /\ ~ (n <= n - 1)
      BY <1>1, <2>3, <2>4
    <3>2. n - 1 \notin S
      BY <2>2, <3>1
    <3>3. ~ (v < Power[n - 1]) /\ Power[n - 1] \in Nat
      BY <1>2, <3>1, <3>2 DEF S
    <3>4. QED
      BY <3>3
  <2>5. QED
    BY <2>3, <2>4
<1>5. needed \in 1 .. Width /\ v < Power[needed]
  BY <1>4
<1> DEFINE zeros == [i \in 1 .. Width - needed |-> 0]
           digits == [i \in 1 .. needed |-> (v \div Power[needed - i]) % Base]
<1>6. PaddedHex(v) = zeros \o digits
  BY DEF PaddedHex
<1> HIDE DEF needed
<1>7. zeros \in Seq(Nat) /\ Len(zeros) = Width - needed
  BY <1>1, <1>5
<1>8. digits \in Seq(Nat) /\ Len(digits) = needed
  <2>1. \A i \in 1 .. needed : (v \div Power[needed - i]) % Base \in Nat
    <3> SUFFICES ASSUME NEW i \in 1 .. needed PROVE (v \div Power[needed - i]) % Base \in Nat
      OBVIOUS
    <3> DEFINE p == Power[needed - i]
               q == v \div p
    <3>1. needed - i \in Nat
      BY <1>5
    <3>2. p \in Nat /\ p > 0
      BY <1>2, <3>1
    <3> HIDE DEF p
    <3>3. q \in Nat
      BY <3>2, Division
    <3> HIDE DEF q
    <3>4. q % Base \in 0 .. Base - 1
      BY <1>1, <3>3, Division
    <3>5. QED
      BY <1>1, <3>4 DEF q, p
  <2>2. digits \in [1 .. needed -> Nat]
    BY <2>1
  <2>3. QED
    BY <1>5, <2>2
<1>9. ASSUME NEW i \in 1 .. Width
      PROVE  (zeros \o digits)[i] = (v \div Power[Width - i]) % Base
  <2>1. (zeros \o digits)[i] = IF i <= Width - needed THEN zeros[i]
                               ELSE digits[i - (Width - needed)]
    <3> HIDE DEF zeros, digits
    <3>1. i \in 1 .. Len(zeros) + Len(digits)
      BY <1>1, <1>5, <1>7, <1>8
    <3>2. \A j \in 1 .. Len(zeros) + Len(digits) :
            (zeros \o digits)[j] = IF j <= Len(zeros) THEN zeros[j] ELSE digits[j - Len(zeros)]
      BY <1>7, <1>8, ConcatProperties
    <3>3. (zeros \o digits)[i] = IF i <= Len(zeros) THEN zeros[i] ELSE digits[i - Len(zeros)]
      BY <3>1, <3>2
    <3>4. QED
      BY <1>7, <3>3
  <2>2. CASE i <= Width - needed
    <3>1. (zeros \o digits)[i] = 0
      <4>1. i \in 1 .. Width - needed
        BY <1>1, <1>5, <2>2
      <4>2. QED
        BY <2>1, <2>2, <4>1
    <3>2. Width - i \in Nat /\ needed <= Width - i /\ needed \in Nat
      BY <1>1, <1>5, <2>2
    <3> DEFINE p == Power[Width - i]
    <3>3. p \in Nat /\ v < p
      <4>1. Power[needed] <= p /\ p \in Nat /\ Power[needed] \in Nat
        BY <1>2, <3>2, PowersGrow
      <4>2. QED
        BY <1>5, <4>1
    <3> HIDE DEF p
    <3>4. v \div p = 0 /\ 0 % Base = 0
      BY <1>1, <3>3
    <3>5. QED
      BY <3>1, <3>4 DEF p
  <2>3. CASE ~ (i <= Width - needed)
    <3>1. /\ i - (Width - needed) \in 1 .. needed
          /\ needed - (i - (Width - needed)) = Width - i
      BY <1>1, <1>5, <2>3
    <3> DEFINE j == i - (Width - needed)
    <3>2. (zeros \o digits)[i] = digits[j]
      BY <2>1, <2>3
    <3>3. digits[j] = (v \div Power[needed - j]) % Base
      BY <3>1
    <3>4. needed - j = Width - i
      BY <3>1
    <3> HIDE DEF j, digits, zeros
    <3>5. QED
      BY <3>2, <3>3, <3>4
  <2>4. QED
    BY <2>2, <2>3
<1> DEFINE all == zeros \o digits
<1>10. all \in Seq(Nat) /\ Len(all) = Width
  <2> HIDE DEF zeros, digits
  <2>1. zeros \o digits \in Seq(Nat) /\ Len(zeros \o digits) = Len(zeros) + Len(digits)
    BY <1>7, <1>8, ConcatProperties
  <2>2. Len(zeros) + Len(digits) = Width
    BY <1>1, <1>5, <1>7, <1>8
  <2>3. QED
    BY <2>1, <2>2
<1>11. \A i \in 1 .. Width : all[i] = (v \div Power[Width - i]) % Base
  BY <1>9
<1> HIDE DEF all, zeros, digits
<1>12. all = [i \in 1 .. Width |-> (v \div Power[Width - i]) % Base]
  <2>1. all = [i \in 1 .. Len(all) |-> all[i]]
    BY <1>10
  <2>2. QED
    BY <1>10, <1>11, <2>1
<1>13. PaddedHex(v) = all
  BY <1>6 DEF all
<1>14. QED
  BY <1>12, <1>13 DEF BigEndian

-----------------------------------------------------------------------------
(* Decimals *)

\* A string of digits without a leading zero.
Canonical(s) == s # <<>> /\ AllDigits(s) /\ ~ (Len(s) > 1 /\ s[1] = "0")

\* The digits' values tell the digits apart.
LEMMA DigitValues ==
    /\ \A c \in Digits : DigitOf[c] \in 0 .. 9 /\ (DigitOf[c] = 0 <=> c = "0")
    /\ \A c, d \in Digits : DigitOf[c] = DigitOf[d] => c = d
BY DEF Digits, DigitOf

\* A further decimal digit keeps numbers apart, and a number positive.
LEMMA NextDigit ==
    ASSUME NEW x \in Nat, NEW y \in Nat, NEW c \in 0 .. 9, NEW d \in 0 .. 9
    PROVE  /\ 10 * x + c = 10 * y + d => x = y /\ c = d
           /\ x > 0 \/ c # 0 => 10 * x + c > 0
OBVIOUS

\* h are the numbers of the first digits of a string of n digits.
Decimals(h, s, n) ==
    /\ h \in [0 .. n -> Nat] /\ h[0] = 0
    /\ \A i \in 1 .. n : h[i] = 10 * h[i - 1] + DigitOf[s[i]]

\* A string of digits is a number, digit by digit.
LEMMA DecimalSteps ==
    ASSUME NEW s \in Strings, AllDigits(s)
    PROVE  /\ Len(s) \in Nat /\ s \in [1 .. Len(s) -> Digits]
           /\ \E h : Decimals(h, s, Len(s)) /\ BigInt(s) = h[Len(s)]
<1>1. PICK n \in Nat : s \in [1 .. n -> Alphabet]
  BY FormatsAssumption DEF Strings
<1>2. Len(s) = n /\ s \in [1 .. n -> Digits]
  BY <1>1 DEF AllDigits
<1> DEFINE digits == [i \in 1 .. n |-> DigitOf[s[i]]]
<1>3. digits \in [1 .. n -> Nat]
  BY <1>2, DigitValues
<1>4. \A i \in 1 .. n : digits[i] = DigitOf[s[i]]
  OBVIOUS
<1>5. BigInt(s) = Horner(10, digits)
  BY <1>2 DEF BigInt
<1> HIDE DEF digits
<1>6. 10 \in Nat
  OBVIOUS
<1>7. PICK h : Values(h, 10, digits, n) /\ Horner(10, digits) = h[n]
  BY <1>3, <1>6, HornerSteps
<1>8. Decimals(h, s, n)
  BY <1>4, <1>7 DEF Values, Decimals
<1>9. QED
  BY <1>2, <1>5, <1>7, <1>8

\* The number of a canonical decimal is zero for the string 0 alone; its first digits' too.
LEMMA LeadingDigit ==
    ASSUME NEW n \in Nat, n > 1, NEW s \in [1 .. n -> Digits], s[1] # "0",
           NEW h, Decimals(h, s, n)
    PROVE  \A i \in 1 .. n : h[i] > 0
<1> DEFINE G == {i \in Nat : i + 1 <= n => h[i + 1] > 0}
<1>1. \A i \in 1 .. n : DigitOf[s[i]] \in 0 .. 9
  BY DigitValues
<1>2. /\ h \in [0 .. n -> Nat] /\ h[0] = 0
      /\ \A i \in 1 .. n : h[i] = 10 * h[i - 1] + DigitOf[s[i]]
  BY DEF Decimals
<1>3. 0 \in G
  <2>1. 1 \in 1 .. n /\ 1 - 1 = 0
    OBVIOUS
  <2>2. DigitOf[s[1]] # 0
    BY <2>1, DigitValues
  <2>3. h[1] = 10 * 0 + DigitOf[s[1]]
    BY <1>2, <2>1
  <2> DEFINE c == DigitOf[s[1]]
  <2>4. c \in 0 .. 9 /\ c # 0 /\ h[1] = 10 * 0 + c /\ 0 \in Nat
    BY <1>1, <2>1, <2>2, <2>3
  <2> HIDE DEF c
  <2>5. h[1] > 0
    BY <2>4, NextDigit
  <2>6. QED
    BY <2>5
<1>4. ASSUME NEW i \in Nat, i \in G PROVE i + 1 \in G
  <2> SUFFICES ASSUME (i + 1) + 1 <= n PROVE h[(i + 1) + 1] > 0
    OBVIOUS
  <2> DEFINE j == (i + 1) + 1
  <2>1. j \in 1 .. n /\ j - 1 = i + 1 /\ i + 1 \in 0 .. n /\ i + 1 <= n
    OBVIOUS
  <2> HIDE DEF j
  <2> DEFINE x == h[i + 1]
             c == DigitOf[s[j]]
  <2>2. x \in Nat /\ x > 0
    BY <1>2, <1>4, <2>1
  <2>3. h[j] = 10 * x + c
    BY <1>2, <2>1
  <2>4. c \in 0 .. 9
    BY <1>1, <2>1
  <2> HIDE DEF x, c
  <2>5. h[j] > 0
    BY <2>2, <2>3, <2>4, NextDigit
  <2>6. QED
    BY <2>5 DEF j
<1> HIDE DEF G
<1>5. Nat \subseteq G
  BY <1>3, <1>4, Counting
<1>6. ASSUME NEW i \in 1 .. n PROVE h[i] > 0
  <2>1. i - 1 \in Nat /\ (i - 1) + 1 = i /\ i <= n
    OBVIOUS
  <2>2. QED
    BY <1>5, <2>1 DEF G
<1>7. QED
  BY <1>6

\* Two readings that agree digit by digit, counted from the last.
EndAlike(h, s, n, g, t, m) ==
    \A k \in 0 .. n : /\ h[n - k] = g[m - k]
                      /\ k > 0 => s[n - k + 1] = t[m - k + 1]

\* Of two canonical decimals of the same number, neither is the longer one,
LEMMA SameDigits ==
    ASSUME NEW n \in Nat, NEW m \in Nat, n <= m,
           NEW s \in [1 .. n -> Digits], NEW t \in [1 .. m -> Digits],
           NEW h, Decimals(h, s, n), NEW g, Decimals(g, t, m), h[n] = g[m]
    PROVE  EndAlike(h, s, n, g, t, m)
<1> DEFINE Agree(k) == /\ h[n - k] = g[m - k]
                       /\ k > 0 => s[n - k + 1] = t[m - k + 1]
           G == {k \in Nat : k <= n => Agree(k)}
<1>1. 0 \in G
  <2>1. n - 0 = n /\ m - 0 = m
    OBVIOUS
  <2>2. QED
    BY <2>1
<1>2. ASSUME NEW k \in Nat, k \in G PROVE k + 1 \in G
  <2> SUFFICES ASSUME k + 1 <= n PROVE Agree(k + 1)
    OBVIOUS
  <2> DEFINE i == n - k
             j == m - k
  <2>1. /\ i \in 1 .. n /\ i - 1 \in 0 .. n /\ n - (k + 1) = i - 1 /\ n - (k + 1) + 1 = i
        /\ j \in 1 .. m /\ j - 1 \in 0 .. m /\ m - (k + 1) = j - 1 /\ m - (k + 1) + 1 = j
        /\ k <= n
    OBVIOUS
  <2>2. h[i] = g[j]
    BY <1>2, <2>1
  <2> HIDE DEF i, j
  <2> DEFINE x == h[i - 1]
             y == g[j - 1]
             c == DigitOf[s[i]]
             d == DigitOf[t[j]]
  <2>3. x \in Nat /\ y \in Nat
    BY <2>1 DEF Decimals
  <2>4. s[i] \in Digits /\ t[j] \in Digits
    BY <2>1
  <2>5. c \in 0 .. 9 /\ d \in 0 .. 9
    BY <2>4, DigitValues
  <2>6. 10 * x + c = 10 * y + d
    BY <2>1, <2>2 DEF Decimals
  <2> HIDE DEF x, y
  <2>7. x = y /\ c = d
    <3> HIDE DEF c, d
    <3>1. QED
      BY <2>3, <2>5, <2>6, NextDigit
  <2>8. s[i] = t[j]
    BY <2>4, <2>7, DigitValues
  <2>9. h[n - (k + 1)] = g[m - (k + 1)]
    BY <2>1, <2>7 DEF x, y
  <2>10. s[n - (k + 1) + 1] = t[m - (k + 1) + 1]
    BY <2>1, <2>8
  <2>11. QED
    BY <2>9, <2>10
<1> HIDE DEF G
<1>3. Nat \subseteq G
  BY <1>1, <1>2, Counting
<1>4. ASSUME NEW k \in 0 .. n PROVE Agree(k)
  BY <1>3 DEF G
<1>5. QED
  BY <1>4 DEF EndAlike

\* so they are the same string.
LEMMA NoLongerDecimal ==
    ASSUME NEW s \in Strings, NEW t \in Strings, Canonical(s), Canonical(t),
           Len(s) <= Len(t), BigInt(s) = BigInt(t)
    PROVE  s = t
<1> DEFINE n == Len(s)
           m == Len(t)
<1>1. AllDigits(s) /\ AllDigits(t)
  BY DEF Canonical
<1>2. /\ n \in Nat /\ s \in [1 .. n -> Digits]
      /\ \E h : Decimals(h, s, n) /\ BigInt(s) = h[n]
  BY <1>1, DecimalSteps
<1>3. /\ m \in Nat /\ t \in [1 .. m -> Digits]
      /\ \E h : Decimals(h, t, m) /\ BigInt(t) = h[m]
  BY <1>1, DecimalSteps
<1>4. n > 0 /\ m > 0 /\ n <= m /\ (m > 1 => t[1] # "0")
  BY <1>2, <1>3 DEF Canonical
<1> HIDE DEF n, m
<1>5. PICK h : Decimals(h, s, n) /\ BigInt(s) = h[n]
  BY <1>2
<1>6. PICK g : Decimals(g, t, m) /\ BigInt(t) = g[m]
  BY <1>3
<1>7. h[n] = g[m]
  BY <1>5, <1>6
<1>8. \A k \in 0 .. n : /\ h[n - k] = g[m - k]
                        /\ k > 0 => s[n - k + 1] = t[m - k + 1]
  <2>1. /\ n \in Nat /\ m \in Nat /\ n <= m
        /\ s \in [1 .. n -> Digits] /\ t \in [1 .. m -> Digits]
        /\ Decimals(h, s, n) /\ Decimals(g, t, m) /\ h[n] = g[m]
    BY <1>2, <1>3, <1>4, <1>5, <1>6, <1>7
  <2>2. EndAlike(h, s, n, g, t, m)
    BY <2>1, SameDigits
  <2>3. QED
    BY <2>2 DEF EndAlike
<1>9. n = m
  <2> SUFFICES ASSUME n < m PROVE FALSE
    BY <1>2, <1>3, <1>4
  <2>1. n \in 0 .. n /\ n - n = 0 /\ m - n \in 1 .. m /\ m > 1
    BY <1>2, <1>3, <1>4
  <2>2. g[m - n] = 0
    BY <1>5, <1>8, <2>1 DEF Decimals
  <2>3. \A i \in 1 .. m : g[i] > 0
    <3>1. t[1] # "0" /\ m \in Nat /\ m > 1 /\ t \in [1 .. m -> Digits] /\ Decimals(g, t, m)
      BY <1>3, <1>4, <1>6, <2>1
    <3>2. QED
      BY <3>1, LeadingDigit
  <2>4. QED
    BY <2>1, <2>2, <2>3
<1>10. ASSUME NEW i \in 1 .. n PROVE s[i] = t[i]
  <2> DEFINE k == n - i + 1
  <2>1. k \in 0 .. n /\ k > 0 /\ n - k + 1 = i
    BY <1>2
  <2> HIDE DEF k
  <2>2. s[n - k + 1] = t[m - k + 1]
    BY <1>8, <2>1
  <2>3. QED
    BY <1>9, <2>1, <2>2
<1>11. QED
  BY <1>2, <1>3, <1>9, <1>10

\* A number has one canonical decimal.
LEMMA OneDecimal ==
    ASSUME NEW s \in Strings, NEW t \in Strings, Canonical(s), Canonical(t),
           BigInt(s) = BigInt(t)
    PROVE  s = t
<1>1. Len(s) \in Nat /\ Len(t) \in Nat
  BY DecimalSteps DEF Canonical
<1>2. Len(s) <= Len(t) \/ Len(t) <= Len(s)
  BY <1>1
<1>3. CASE Len(s) <= Len(t)
  BY <1>3, NoLongerDecimal
<1>4. CASE Len(t) <= Len(s)
  BY <1>4, NoLongerDecimal
<1>5. QED
  BY <1>2, <1>3, <1>4

-----------------------------------------------------------------------------
(* The readers *)

\* A string that publicSignals.ts, sorobanEncoding.ts, t0.ts and the evidence replay read,
\* as one and the same number.
ReadByAll(s) ==
    /\ BigInt(s) < Modulus
    /\ ParseCanonicalFrElement(s) = BigInt(s)
    /\ ParseFr(s) = BigInt(s)
    /\ IsCanonicalDecimalFr(s)
    /\ IsValidFrDecimal(s)

\* The two readers that return a value read the same strings as the same numbers.
LEMMA ParsersAgree ==
    ASSUME NEW s \in Strings
    PROVE  ParseFr(s) = ParseCanonicalFrElement(s)
<1>1. PICK n \in Nat : s \in [1 .. n -> Alphabet]
  BY FormatsAssumption DEF Strings
<1>2. s \in Seq(Alphabet) /\ Len(s) = n
  BY <1>1
<1>3. Digits = {"0", "1", "2", "3", "4", "5", "6", "7", "8", "9"}
  BY DEF Digits, DigitOf
<1>4. CASE n = 0
  <2>1. s # <<"0">> /\ s = <<>>
    BY <1>2, <1>4
  <2>2. QED
    BY <1>2, <1>4, <2>1 DEF ParseFr, ParseCanonicalFrElement
<1>5. CASE n > 0
  <2>1. s # <<>> /\ Len(Tail(s)) = n - 1 /\ \A i \in 1 .. n - 1 : Tail(s)[i] = s[i + 1]
    BY <1>2, <1>5
  <2>2. s = <<"0">> <=> n = 1 /\ s[1] = "0"
    BY <1>2, <1>5
  <2>3. AllDigits(Tail(s)) <=> \A i \in 2 .. n : s[i] \in Digits
    <3>1. DOMAIN Tail(s) = 1 .. n - 1
      BY <1>2, <1>5
    <3>2. \A i \in 2 .. n : i - 1 \in 1 .. n - 1 /\ (i - 1) + 1 = i
      BY <1>5
    <3>3. \A i \in 1 .. n - 1 : i + 1 \in 2 .. n
      BY <1>5
    <3>4. QED
      BY <2>1, <3>1, <3>2, <3>3 DEF AllDigits
  <2>4. AllDigits(s) <=> s[1] \in Digits /\ AllDigits(Tail(s))
    <3>1. DOMAIN s = {1} \cup 2 .. n
      BY <1>1, <1>5
    <3>2. QED
      BY <2>3, <3>1 DEF AllDigits
  <2>5. s[1] \in Alphabet /\ "-" \notin Digits
    BY <1>1, <1>3, <1>5
  <2>6. s = <<"0">> => AllDigits(s)
    BY <1>3, <2>2, <2>3, <2>4, <1>5
  <2>7. s[1] \in Digits => s[1] # "+"
    BY <1>3
  <2>8. QED
    BY <1>2, <1>5, <2>1, <2>2, <2>4, <2>5, <2>6, <2>7 DEF ParseFr, ParseCanonicalFrElement
<1>6. QED
  BY <1>1, <1>4, <1>5

\* What one reader takes all of them take.
LEMMA AllRead ==
    ASSUME NEW s \in Strings, ParseCanonicalFrElement(s) # Refused
    PROVE  ReadByAll(s)
<1>1. ParseFr(s) = ParseCanonicalFrElement(s)
  BY ParsersAgree
<1>2. /\ Len(s) > 0 /\ s[1] \notin {"-", "+"} /\ ~ (Len(s) > 1 /\ s[1] = "0")
      /\ AllDigits(s) /\ ParseFr(s) = BelowModulus(s)
  BY <1>1 DEF ParseFr
<1>3. BigInt(s) < Modulus /\ BelowModulus(s) = BigInt(s)
  BY <1>1, <1>2 DEF BelowModulus
<1>4. s \in Seq(Alphabet)
  <2>1. PICK n \in Nat : s \in [1 .. n -> Alphabet]
    BY FormatsAssumption DEF Strings
  <2>2. QED
    BY <2>1
<1>5. s # <<>> /\ (s[1] = "0" => s = <<"0">>)
  <2>1. s # <<>>
    BY <1>2, <1>4
  <2>2. ASSUME s[1] = "0" PROVE s = <<"0">>
    <3>1. Len(s) \in Nat /\ Len(s) > 0 /\ ~ (Len(s) > 1)
      BY <1>2, <1>4, <2>2
    <3>2. Len(s) = 1
      BY <3>1
    <3>3. QED
      BY <1>4, <2>2, <3>2
  <2>3. QED
    BY <2>1, <2>2
<1>6. IsValidFrDecimal(s)
  BY <1>2, <1>3, <1>5 DEF IsValidFrDecimal
<1>7. IsCanonicalDecimalFr(s)
  BY <1>2, <1>3, <1>5 DEF IsCanonicalDecimalFr
<1>8. QED
  BY <1>1, <1>2, <1>3, <1>6, <1>7 DEF ReadByAll

\* A string of digits that stands for an element of the field, and no digit is too many.
Readable(s) == Canonical(s) /\ BigInt(s) < Modulus

\* The string 0 is one of them.
LEMMA ZeroReadable ==
    ASSUME NEW s \in Strings, s = <<"0">>
    PROVE  Readable(s)
<1>1. "0" \in Digits /\ DigitOf["0"] = 0
  BY DEF Digits, DigitOf
<1>2. Len(s) = 1 /\ s[1] = "0" /\ s # <<>>
  OBVIOUS
<1>3. AllDigits(s)
  <2>1. DOMAIN s = {1}
    OBVIOUS
  <2>2. QED
    BY <1>1, <1>2, <2>1 DEF AllDigits
<1>4. PICK h : Decimals(h, s, 1) /\ BigInt(s) = h[1]
  BY <1>2, <1>3, DecimalSteps
<1>5. h[1] = 10 * h[1 - 1] + DigitOf[s[1]] /\ 1 - 1 = 0 /\ h[0] = 0
  BY <1>4 DEF Decimals
<1>6. BigInt(s) = 0
  BY <1>1, <1>2, <1>4, <1>5
<1>7. 0 < Modulus
  BY FormatsAssumption
<1>8. QED
  BY <1>2, <1>3, <1>6, <1>7 DEF Readable, Canonical

\* Each reader takes these strings and no others.
LEMMA ReadersTake ==
    ASSUME NEW s \in Strings
    PROVE  /\ IsValidFrDecimal(s) <=> Readable(s)
           /\ IsCanonicalDecimalFr(s) <=> Readable(s)
           /\ ParseCanonicalFrElement(s) # Refused <=> Readable(s)
           /\ Readable(s) => ReadByAll(s) /\ BigInt(s) \in Nat
<1>1. IsValidFrDecimal(s) <=> Readable(s)
  BY DEF IsValidFrDecimal, Readable, Canonical
<1>2. Readable(s) => BigInt(s) \in Nat
  <2> SUFFICES ASSUME Readable(s) PROVE BigInt(s) \in Nat
    OBVIOUS
  <2>1. AllDigits(s)
    BY DEF Readable, Canonical
  <2>2. Len(s) \in Nat /\ \E h : Decimals(h, s, Len(s)) /\ BigInt(s) = h[Len(s)]
    BY <2>1, DecimalSteps
  <2>3. QED
    BY <2>2 DEF Decimals
<1>3. Readable(s) => ParseCanonicalFrElement(s) # Refused
  <2> SUFFICES ASSUME Readable(s) PROVE ParseCanonicalFrElement(s) # Refused
    OBVIOUS
  <2>1. PICK n \in Nat : s \in [1 .. n -> Alphabet]
    BY FormatsAssumption DEF Strings
  <2>2. Len(s) = n /\ n > 0 /\ AllDigits(s) /\ ~ (Len(s) > 1 /\ s[1] = "0")
    BY <2>1 DEF Readable, Canonical
  <2>3. s[1] \in Digits /\ "-" \notin Digits /\ "+" \notin Digits
    BY <2>1, <2>2 DEF AllDigits, Digits, DigitOf
  <2>4. ParseFr(s) = BelowModulus(s)
    BY <2>2, <2>3 DEF ParseFr
  <2>5. BelowModulus(s) = BigInt(s)
    BY DEF BelowModulus, Readable
  <2>6. QED
    BY <1>2, <2>4, <2>5, ParsersAgree, FormatsAssumption
<1>4. ParseCanonicalFrElement(s) # Refused => ReadByAll(s)
  BY AllRead
<1>5. ReadByAll(s) => Readable(s)
  BY <1>1 DEF ReadByAll
<1>6. IsCanonicalDecimalFr(s) => Readable(s)
  <2> SUFFICES ASSUME IsCanonicalDecimalFr(s) PROVE Readable(s)
    OBVIOUS
  <2>1. CASE s = <<"0">>
    BY <2>1, ZeroReadable
  <2>2. CASE s # <<"0">>
    BY <2>2 DEF IsCanonicalDecimalFr, Readable, Canonical
  <2>3. QED
    BY <2>1, <2>2
<1>7. ReadByAll(s) => IsCanonicalDecimalFr(s)
  BY DEF ReadByAll
<1>8. QED
  BY <1>1, <1>2, <1>3, <1>4, <1>5, <1>6, <1>7

\* What they encode it as.
LEMMA Encodings ==
    ASSUME NEW s \in Strings
    PROVE  /\ EncodePublicSignal(s) = DecimalFrToHex32(s)
           /\ FrDecimalToHex32(s) = DecimalFrToHex32(s)
           /\ DecimalFrToHex32(s) # Refused <=> Readable(s)
           /\ Readable(s) => Number(DecimalFrToHex32(s)) = BigInt(s)
<1>1. EncodePublicSignal(s) = DecimalFrToHex32(s)
  BY ParsersAgree DEF EncodePublicSignal, DecimalFrToHex32
<1>2. CASE ~ Readable(s)
  <2>1. DecimalFrToHex32(s) = Refused /\ FrDecimalToHex32(s) = Refused
    BY <1>2, ReadersTake DEF DecimalFrToHex32, FrDecimalToHex32
  <2>2. QED
    BY <1>1, <1>2, <2>1
<1>3. CASE Readable(s)
  <2> DEFINE v == BigInt(s)
  <2>1. v \in Nat /\ ParseCanonicalFrElement(s) = v /\ IsValidFrDecimal(s)
    BY <1>3, ReadersTake DEF ReadByAll
  <2>2. v < Power[Width]
    <3>1. Modulus \in Nat /\ Modulus < Power[Width] /\ Width \in Nat
      BY FormatsAssumption
    <3>2. Power[Width] \in Nat
      BY <3>1, Powers
    <3>3. v < Modulus
      BY <1>3 DEF Readable
    <3> HIDE DEF v
    <3>4. QED
      BY <2>1, <3>1, <3>2, <3>3
  <2>3. DecimalFrToHex32(s) = BigEndian(v)
    BY <1>3, <2>1, ReadersTake DEF DecimalFrToHex32
  <2>4. FrDecimalToHex32(s) = PaddedHex(v)
    BY <2>1 DEF FrDecimalToHex32
  <2> HIDE DEF v
  <2>5. BigEndian(v) \in Bytes /\ Number(BigEndian(v)) = v
    BY <2>1, <2>2, BytesOfNumber
  <2>6. PaddedHex(v) = BigEndian(v)
    BY <2>1, <2>2, PaddingFills
  <2>7. BigEndian(v) # Refused
    BY <2>5, FormatsAssumption
  <2>8. QED
    BY <1>1, <1>3, <2>3, <2>4, <2>5, <2>6, <2>7 DEF v
<1>4. QED
  BY <1>2, <1>3

\* The four readers of a field element (publicSignals.ts, sorobanEncoding.ts, t0.ts and
\* replay-e0.js) take the same strings, encode each as the same bytes, whether they shift or
\* pad, and no two strings as the same ones: in any field that fits the width, in any base,
\* for strings of any length.
THEOREM ReadersOfAFieldAgree == FieldReadersAgree
<1>1. ASSUME NEW s \in Strings
      PROVE  /\ DecimalFrToHex32(s) = EncodePublicSignal(s)
             /\ DecimalFrToHex32(s) = FrDecimalToHex32(s)
             /\ IsCanonicalDecimalFr(s) <=> DecimalFrToHex32(s) # Refused
             /\ DecimalFrToHex32(s) # Refused => Number(DecimalFrToHex32(s)) < Modulus
  <2>1. IsCanonicalDecimalFr(s) <=> Readable(s)
    BY ReadersTake
  <2>2. QED
    BY <2>1, Encodings DEF Readable
<1>2. ASSUME NEW s \in Strings, NEW t \in Strings,
             DecimalFrToHex32(s) # Refused, DecimalFrToHex32(t) # Refused,
             DecimalFrToHex32(s) = DecimalFrToHex32(t)
      PROVE  s = t
  <2>1. Readable(s) /\ Number(DecimalFrToHex32(s)) = BigInt(s)
    BY <1>2, Encodings
  <2>2. Readable(t) /\ Number(DecimalFrToHex32(t)) = BigInt(t)
    BY <1>2, Encodings
  <2>3. BigInt(s) = BigInt(t)
    BY <1>2, <2>1, <2>2
  <2>4. QED
    BY <2>1, <2>2, <2>3, OneDecimal DEF Readable
<1>3. QED
  BY <1>1, <1>2 DEF FieldReadersAgree

-----------------------------------------------------------------------------
(* The message that a scope is derived from *)

\* A message is a sequence over any alphabet that has the lengths.  It joins two others, or
\* begins with a part that stands after its length.
Letters(S) == Nat \subseteq S
Joins(m, a, x) == m = a \o x
Framed(part) == <<Len(part)>> \o part
Begins(m, part, x) == Joins(m, Framed(part), x)
Nested(m, a, b, c, d) == m = ((a \o b) \o c) \o d

\* A sequence is cut at a given length in one way.
LEMMA EqualParts ==
    ASSUME NEW S, NEW a \in Seq(S), NEW b \in Seq(S), NEW x \in Seq(S), NEW y \in Seq(S),
           NEW m, Len(a) = Len(b), Joins(m, a, x), Joins(m, b, y)
    PROVE  a = b /\ x = y
<1>1. /\ Len(m) = Len(a) + Len(x)
      /\ \A i \in 1 .. Len(a) + Len(x) : m[i] = IF i <= Len(a) THEN a[i] ELSE x[i - Len(a)]
  <2>1. /\ Len(a \o x) = Len(a) + Len(x)
        /\ \A i \in 1 .. Len(a) + Len(x) :
              (a \o x)[i] = IF i <= Len(a) THEN a[i] ELSE x[i - Len(a)]
    BY ConcatProperties
  <2>2. m = a \o x
    BY DEF Joins
  <2>3. QED
    BY <2>1, <2>2
<1>2. /\ Len(m) = Len(b) + Len(y)
      /\ \A i \in 1 .. Len(b) + Len(y) : m[i] = IF i <= Len(b) THEN b[i] ELSE y[i - Len(b)]
  <2>1. /\ Len(b \o y) = Len(b) + Len(y)
        /\ \A i \in 1 .. Len(b) + Len(y) :
              (b \o y)[i] = IF i <= Len(b) THEN b[i] ELSE y[i - Len(b)]
    BY ConcatProperties
  <2>2. m = b \o y
    BY DEF Joins
  <2>3. QED
    BY <2>1, <2>2
<1>3. Len(a) \in Nat /\ Len(x) \in Nat /\ Len(y) \in Nat /\ Len(x) = Len(y)
  BY <1>1, <1>2
<1>4. a = b
  <2>1. \A i \in 1 .. Len(a) : a[i] = b[i]
    BY <1>1, <1>2, <1>3
  <2>2. QED
    BY <2>1
<1>5. x = y
  <2>1. ASSUME NEW i \in 1 .. Len(x) PROVE x[i] = y[i]
    <3>1. /\ Len(a) + i \in 1 .. Len(a) + Len(x) /\ ~ (Len(a) + i <= Len(a))
          /\ (Len(a) + i) - Len(a) = i
      BY <1>3
    <3>2. QED
      BY <1>1, <1>2, <1>3, <3>1
  <2>2. QED
    BY <1>3, <2>1
<1>6. QED
  BY <1>4, <1>5

\* A framed part is a sequence that begins with the part's length.
LEMMA FramedType ==
    ASSUME NEW S, Letters(S), NEW a \in Seq(S)
    PROVE  /\ Framed(a) \in Seq(S) /\ Len(Framed(a)) = Len(a) + 1 /\ Framed(a)[1] = Len(a)
           /\ Len(a) \in Nat
  BY DEF Framed, Letters

\* A framed part has one content.
LEMMA SameFrame ==
    ASSUME NEW S, Letters(S), NEW a \in Seq(S), NEW b \in Seq(S), Framed(a) = Framed(b)
    PROVE  a = b
<1>1. Len(a) = Len(b)
  BY FramedType
<1>2. PICK h : h = <<Len(a)>>
  OBVIOUS
<1>3. h \in Seq(S)
  BY <1>2 DEF Letters
<1>4. h = <<Len(b)>>
  BY <1>1, <1>2
<1>5. Joins(Framed(a), h, a)
  BY <1>2 DEF Framed, Joins
<1>6. Joins(Framed(b), h, b)
  BY <1>4 DEF Framed, Joins
<1>7. Joins(Framed(a), h, b)
  BY <1>6
<1>8. Len(h) = Len(h)
  OBVIOUS
<1>9. QED
  BY <1>3, <1>5, <1>7, <1>8, EqualParts

\* The first element of what is joined.
LEMMA FirstOf ==
    ASSUME NEW S, NEW a \in Seq(S), NEW x \in Seq(S), NEW m, Joins(m, a, x), Len(a) > 0
    PROVE  m[1] = a[1]
<1>1. Len(a) \in Nat /\ Len(x) \in Nat
  OBVIOUS
<1>2. 1 \in 1 .. Len(a) + Len(x) /\ 1 <= Len(a)
  BY <1>1
<1>3. QED
  BY <1>2, ConcatProperties DEF Joins

\* A framed part at the beginning can be told from what follows it.
LEMMA FrameSplits ==
    ASSUME NEW S, Letters(S), NEW a \in Seq(S), NEW b \in Seq(S), NEW x \in Seq(S),
           NEW y \in Seq(S), NEW m, Begins(m, a, x), Begins(m, b, y)
    PROVE  a = b /\ x = y
<1>1. /\ Framed(a) \in Seq(S) /\ Len(Framed(a)) = Len(a) + 1 /\ Framed(a)[1] = Len(a)
      /\ Len(a) \in Nat
  BY FramedType
<1>2. /\ Framed(b) \in Seq(S) /\ Len(Framed(b)) = Len(b) + 1 /\ Framed(b)[1] = Len(b)
      /\ Len(b) \in Nat
  BY FramedType
<1>3. Joins(m, Framed(a), x) /\ Joins(m, Framed(b), y)
  BY DEF Begins
<1>4. Len(Framed(a)) > 0 /\ Len(Framed(b)) > 0
  BY <1>1, <1>2
<1>5. m[1] = Len(a)
  BY <1>1, <1>3, <1>4, FirstOf
<1>6. m[1] = Len(b)
  BY <1>2, <1>3, <1>4, FirstOf
<1>7. Len(Framed(a)) = Len(Framed(b))
  BY <1>1, <1>2, <1>5, <1>6
<1>8. Framed(a) = Framed(b) /\ x = y
  BY <1>1, <1>2, <1>3, <1>7, EqualParts
<1>9. QED
  BY <1>8, SameFrame

\* Concatenation is associative.
LEMMA Associative == \A S : \A a, b, c \in Seq(S) : (a \o b) \o c = a \o (b \o c)
BY ConcatAssociative

\* What is joined from the left is joined from the right.
LEMMA Regroup ==
    ASSUME NEW S, NEW a \in Seq(S), NEW b \in Seq(S), NEW c \in Seq(S), NEW d \in Seq(S),
           NEW m, Nested(m, a, b, c, d)
    PROVE  \E all, rest \in Seq(S) : Joins(m, a, all) /\ Joins(all, b, rest) /\ Joins(rest, c, d)
<1>1. a \o b \in Seq(S) /\ c \o d \in Seq(S)
  BY ConcatProperties
<1>2. ((a \o b) \o c) \o d = (a \o b) \o (c \o d)
  <2> DEFINE first == a \o b
  <2>1. first \in Seq(S)
    BY <1>1
  <2> HIDE DEF first
  <2>2. (first \o c) \o d = first \o (c \o d)
    BY <2>1, Associative
  <2>3. QED
    BY <2>2 DEF first
<1>3. (a \o b) \o (c \o d) = a \o (b \o (c \o d))
  BY <1>1, Associative
<1>4. b \o (c \o d) \in Seq(S)
  BY <1>1, ConcatProperties
<1>5. m = a \o (b \o (c \o d))
  BY <1>2, <1>3 DEF Nested
<1> DEFINE rest == c \o d
           all == b \o rest
<1>8. rest \in Seq(S)
  BY <1>1
<1>9. all \in Seq(S)
  BY <1>4
<1>10. Joins(m, a, all)
  BY <1>5 DEF Joins
<1>11. Joins(all, b, rest)
  BY DEF Joins
<1>12. Joins(rest, c, d)
  BY DEF Joins
<1> HIDE DEF rest, all
<1>13. QED
  BY <1>8, <1>9, <1>10, <1>11, <1>12

\* A length and its part are joined as a framed part.
LEMMA FrameJoins ==
    ASSUME NEW S, Letters(S), NEW a \in Seq(S), NEW part \in Seq(S)
    PROVE  (a \o <<Len(part)>>) \o part = a \o Framed(part)
<1> DEFINE b == <<Len(part)>>
<1>1. b \in Seq(S)
  BY DEF Letters
<1> HIDE DEF b
<1>2. (a \o b) \o part = a \o (b \o part)
  BY <1>1, Associative
<1>3. QED
  BY <1>2 DEF Framed, b

\* A scope's message is its four framed parts,
LEMMA MessageOfFrames ==
    ASSUME NEW S, Letters(S),
           NEW t \in Seq(S), NEW n \in Seq(S), NEW c \in Seq(S), NEW e \in Seq(S)
    PROVE  Nested(ScopeMessage(t, n, c, e), Framed(t), Framed(n), Framed(c), Framed(e))
<1>1. Framed(t) \in Seq(S)
  BY FramedType
<1>2. (Framed(t) \o <<Len(n)>>) \o n = Framed(t) \o Framed(n)
  BY <1>1, FrameJoins
<1>3. Framed(t) \o Framed(n) \in Seq(S)
  BY <1>1, FramedType, ConcatProperties
<1>4. ((Framed(t) \o Framed(n)) \o <<Len(c)>>) \o c = (Framed(t) \o Framed(n)) \o Framed(c)
  BY <1>3, FrameJoins
<1>5. (Framed(t) \o Framed(n)) \o Framed(c) \in Seq(S)
  BY <1>3, FramedType, ConcatProperties
<1>6. (((Framed(t) \o Framed(n)) \o Framed(c)) \o <<Len(e)>>) \o e
         = ((Framed(t) \o Framed(n)) \o Framed(c)) \o Framed(e)
  BY <1>5, FrameJoins
<1>7. ScopeMessage(t, n, c, e)
        = (((((Framed(t) \o <<Len(n)>>) \o n) \o <<Len(c)>>) \o c) \o <<Len(e)>>) \o e
  BY DEF ScopeMessage, Framed
<1>8. QED
  BY <1>2, <1>4, <1>6, <1>7 DEF Nested

\* so that each can be cut off in turn.
LEMMA FramesInTurn ==
    ASSUME NEW S, Letters(S),
           NEW t \in Seq(S), NEW n \in Seq(S), NEW c \in Seq(S), NEW e \in Seq(S)
    PROVE  \E all, rest \in Seq(S) :
              /\ Begins(ScopeMessage(t, n, c, e), t, all)
              /\ Begins(all, n, rest) /\ Joins(rest, Framed(c), Framed(e))
<1>1. Framed(t) \in Seq(S) /\ Framed(n) \in Seq(S) /\ Framed(c) \in Seq(S) /\ Framed(e) \in Seq(S)
  BY FramedType
<1>2. Nested(ScopeMessage(t, n, c, e), Framed(t), Framed(n), Framed(c), Framed(e))
  BY MessageOfFrames
<1>3. PICK all \in Seq(S), rest \in Seq(S) :
          /\ Joins(ScopeMessage(t, n, c, e), Framed(t), all)
          /\ Joins(all, Framed(n), rest) /\ Joins(rest, Framed(c), Framed(e))
  BY <1>1, <1>2, Regroup
<1>4. QED
  BY <1>3 DEF Begins

\* No two domain tags, networks, contracts or elections, of whatever lengths, are hashed to a
\* scope from one message: the length before each part (scope.ts, the credential crate,
\* build-scope-fixtures.js) says where it ends, so that no part can be taken for the end or
\* the beginning of its neighbour.
THEOREM ScopeMessagesDiffer ==
    ASSUME NEW S, Letters(S),
           NEW t \in Seq(S), NEW n \in Seq(S), NEW c \in Seq(S), NEW e \in Seq(S),
           NEW tt \in Seq(S), NEW nn \in Seq(S), NEW cc \in Seq(S), NEW ee \in Seq(S),
           ScopeMessage(t, n, c, e) = ScopeMessage(tt, nn, cc, ee)
    PROVE  t = tt /\ n = nn /\ c = cc /\ e = ee
<1>1. PICK all \in Seq(S), rest \in Seq(S) :
          /\ Begins(ScopeMessage(t, n, c, e), t, all)
          /\ Begins(all, n, rest) /\ Joins(rest, Framed(c), Framed(e))
  BY FramesInTurn
<1>2. PICK allToo \in Seq(S), restToo \in Seq(S) :
          /\ Begins(ScopeMessage(tt, nn, cc, ee), tt, allToo)
          /\ Begins(allToo, nn, restToo) /\ Joins(restToo, Framed(cc), Framed(ee))
  BY FramesInTurn
<1>3. PICK m : m = ScopeMessage(t, n, c, e) /\ m = ScopeMessage(tt, nn, cc, ee)
  OBVIOUS
<1>4. Begins(m, t, all) /\ Begins(m, tt, allToo)
  BY <1>1, <1>2, <1>3
<1>5. t = tt /\ all = allToo
  BY <1>4, FrameSplits
<1>6. Begins(all, n, rest) /\ Begins(all, nn, restToo)
  BY <1>1, <1>2, <1>5
<1>7. n = nn /\ rest = restToo
  BY <1>6, FrameSplits
<1>8. Framed(e) \in Seq(S) /\ Framed(ee) \in Seq(S)
  BY FramedType
<1>9. Begins(rest, c, Framed(e)) /\ Begins(rest, cc, Framed(ee))
  BY <1>1, <1>2, <1>7 DEF Begins
<1>10. c = cc /\ Framed(e) = Framed(ee)
  BY <1>8, <1>9, FrameSplits
<1>11. e = ee
  BY <1>10, SameFrame
<1>12. QED
  BY <1>5, <1>7, <1>10, <1>11

-----------------------------------------------------------------------------
(* The scope *)

\* The derivation that reads a digest as a number and the one that compares byte by byte
\* accept the same digests.
LEMMA SameInField ==
    ASSUME NEW bytes \in Bytes
    PROVE  Number(bytes) > 0 /\ Number(bytes) < Modulus <=>
              /\ \E i \in 1 .. Width : bytes[i] # 0
              /\ \E i \in 1 .. Width : /\ bytes[i] < BigEndian(Modulus)[i]
                                       /\ \A j \in 1 .. i - 1 : bytes[j] = BigEndian(Modulus)[j]
<1> DEFINE m == BigEndian(Modulus)
<1>1. Modulus \in Nat /\ Modulus < Power[Width]
  BY FormatsAssumption
<1>2. m \in Bytes /\ Number(m) = Modulus
  BY <1>1, BytesOfNumber
<1>3. Number(bytes) > 0 <=> \E i \in 1 .. Width : bytes[i] # 0
  BY NumbersPositive
<1> HIDE DEF m
<1>4. Number(bytes) < Number(m) <=>
          \E i \in 1 .. Width : bytes[i] < m[i] /\ \A j \in 1 .. i - 1 : bytes[j] = m[j]
  BY <1>2, NumbersCompare
<1>5. QED
  BY <1>2, <1>3, <1>4 DEF m

\* The first accepted digest is a digest, and accepted.
LEMMA FirstIsAccepted ==
    ASSUME NEW digest \in [0 .. MaxCounter -> Bytes], NEW accepted,
           FirstAccepted(digest, accepted) # Refused
    PROVE  FirstAccepted(digest, accepted) \in accepted \cap Bytes
<1> DEFINE counters == {c \in DOMAIN digest : digest[c] \in accepted}
<1>1. counters # {} /\ FirstAccepted(digest, accepted) = digest[Min(counters)]
  BY DEF FirstAccepted
<1>2. counters \in SUBSET Nat
  BY FormatsAssumption
<1>3. counters \subseteq 0 .. MaxCounter
  OBVIOUS
<1>4. \A c \in counters : digest[c] \in accepted
  OBVIOUS
<1> HIDE DEF counters
<1>5. Min(counters) \in counters
  <2>1. \E least \in counters : \A c \in counters : least <= c
    BY <1>1, <1>2, LeastNumber
  <2>2. QED
    BY <2>1 DEF Min
<1>6. QED
  BY <1>1, <1>3, <1>4, <1>5

\* What goes into a message is a sequence of numbers.
LEMMA NamesAreSequences ==
    /\ \A s \in Names : s \in Seq(Nat)
    /\ \A s \in Ids : s \in Seq(Nat)
<1>1. ASSUME NEW s \in Names PROVE s \in Seq(Nat)
  <2>1. PICK k \in Nat : s \in [1 .. k -> 1 .. 2]
    BY FormatsAssumption DEF Names
  <2>2. s \in Seq(1 .. 2)
    BY <2>1
  <2>3. QED
    BY <2>2
<1>2. ASSUME NEW s \in Ids PROVE s \in Seq(Nat)
  <2>1. PICK k \in Nat : s \in [1 .. k -> 1 .. 2]
    BY DEF Ids
  <2>2. s \in Seq(1 .. 2)
    BY <2>1
  <2>3. QED
    BY <2>2
<1>3. QED
  BY <1>1, <1>2

\* Two elections' inputs make one message.
SameMessage(t, n, c, e, tt, nn, cc, ee) ==
    ScopeMessage(t, n, c, e) = ScopeMessage(tt, nn, cc, ee)

\* The protocol package and the fixtures, which compute with numbers, and the credential
\* crate, which compares byte by byte, derive one scope from an election's digests, a field
\* element other than zero (scope.ts, build-scope-fixtures.js, scope.rs): for digests of any
\* width and any limit on the counter.  No two elections have one message.
THEOREM DerivationsOfTheScopeAgree == ScopeDerivationsAgree
<1>1. ASSUME NEW digest \in [0 .. MaxCounter -> Bytes]
      PROVE  /\ DeriveElectionScope(digest) = DeriveWithCounter(digest)
             /\ DeriveElectionScope(digest) # Refused =>
                    Number(DeriveElectionScope(digest)) \in 1 .. Modulus - 1
  <2> DEFINE accepted == {bytes \in Range(digest) : Number(bytes) > 0 /\ Number(bytes) < Modulus}
             byBytes == {bytes \in Range(digest) :
                           /\ \E i \in 1 .. Width : bytes[i] # 0
                           /\ \E i \in 1 .. Width :
                                 /\ bytes[i] < BigEndian(Modulus)[i]
                                 /\ \A j \in 1 .. i - 1 : bytes[j] = BigEndian(Modulus)[j]}
             chosen == FirstAccepted(digest, accepted)
  <2>1. Range(digest) \subseteq Bytes
    BY DEF Range
  <2>2. \A bytes \in Range(digest) :
          Number(bytes) > 0 /\ Number(bytes) < Modulus <=>
              /\ \E i \in 1 .. Width : bytes[i] # 0
              /\ \E i \in 1 .. Width :
                    /\ bytes[i] < BigEndian(Modulus)[i]
                    /\ \A j \in 1 .. i - 1 : bytes[j] = BigEndian(Modulus)[j]
    BY <2>1, SameInField
  <2>3. accepted = byBytes
    BY <2>2
  <2>4. DeriveWithCounter(digest) = FirstAccepted(digest, byBytes)
    BY DEF DeriveWithCounter
  <2>5. DeriveElectionScope(digest) =
            IF chosen = Refused THEN Refused ELSE BigEndian(Number(chosen))
    BY DEF DeriveElectionScope
  <2>6. ASSUME chosen # Refused
        PROVE  /\ BigEndian(Number(chosen)) = chosen
               /\ Number(chosen) \in 1 .. Modulus - 1
    <3>1. chosen \in accepted \cap Bytes
      <4> HIDE DEF accepted
      <4>1. QED
        BY <2>6, FirstIsAccepted
    <3>2. Number(chosen) > 0 /\ Number(chosen) < Modulus
      BY <3>1
    <3> HIDE DEF chosen
    <3>3. Number(chosen) \in Nat /\ BigEndian(Number(chosen)) = chosen
      BY <3>1, NumbersPositive, NumberOfBytes
    <3>4. QED
      BY <3>2, <3>3, FormatsAssumption
  <2>7. DeriveWithCounter(digest) = chosen
    BY <2>3, <2>4
  <2> HIDE DEF chosen
  <2>8. QED
    BY <2>5, <2>6, <2>7
<1>2. ASSUME NEW t \in Names, NEW u \in Names, NEW n \in Names, NEW o \in Names,
             NEW c \in Ids, NEW d \in Ids, NEW e \in Ids, NEW f \in Ids,
             ScopeMessage(t, n, c, e) = ScopeMessage(u, o, d, f)
      PROVE  t = u /\ n = o /\ c = d /\ e = f
  <2>1. t \in Seq(Nat) /\ u \in Seq(Nat) /\ n \in Seq(Nat) /\ o \in Seq(Nat)
    BY NamesAreSequences
  <2>2. c \in Seq(Nat) /\ d \in Seq(Nat) /\ e \in Seq(Nat) /\ f \in Seq(Nat)
    BY NamesAreSequences
  <2>3. \A S : Letters(S) =>
          \A t1, n1, c1, e1, t2, n2, c2, e2 \in Seq(S) :
              SameMessage(t1, n1, c1, e1, t2, n2, c2, e2) =>
                  t1 = t2 /\ n1 = n2 /\ c1 = c2 /\ e1 = e2
    BY ScopeMessagesDiffer DEF SameMessage
  <2>4. SameMessage(t, n, c, e, u, o, d, f)
    BY <1>2 DEF SameMessage
  <2>5. Letters(Nat)
    BY DEF Letters
  <2>6. QED
    BY <2>1, <2>2, <2>3, <2>4, <2>5
<1>3. QED
  BY <1>1, <1>2 DEF ScopeDerivationsAgree

=============================================================================
