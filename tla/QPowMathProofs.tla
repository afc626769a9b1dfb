--------------------------- MODULE QPowMathProofs ---------------------------
(***************************************************************************)
(* The choice of a group (m, n) for a header rests on is_coprime, which is  *)
(* Euclid's algorithm.  Here it is proved right for words of every width:   *)
(* first that the recursion is well founded, so that there is a function    *)
(* that follows it at all, then that any function that follows it decides   *)
(* whether two words have a common divisor.  Both arguments go along the    *)
(* second argument, which every round of the loop makes smaller.            *)
(***************************************************************************)
EXTENDS QPowMath, TLAPS, NaturalsInduction, WellFoundedInduction

Pairs == Word \X Word

(* One round of is_coprime's loop: what g answers for the pair p, from what  *)
(* it answers for the next one.                                              *)
Round(g, p) == IF p[2] = 0 THEN p[1] ELSE g[<<p[2], p[1] % p[2]>>]

(* g is what the loop computes. *)
Euclid(g) == g = [p \in Pairs |-> Round(g, p)]

(* d divides both words of a pair. *)
DividesBoth(d, p) == Divides(d, p[1]) /\ Divides(d, p[2])

----------------------------------------------------------------------------
(* Words and divisors *)

\* A word is a natural number, and what is smaller than a word is one.
LEMMA Words == Word \subseteq Nat /\ \A x \in Word : \A y \in 0 .. x : y \in Word
<1>1. WordMax \in Int
  BY WidthAssumption, Z3 DEF WordMax
<1> QED BY <1>1 DEF Word

\* The remainder is smaller than the divisor.
LEMMA Remainder ==
  ASSUME NEW a \in Nat, NEW b \in Nat, b # 0
  PROVE  /\ a % b \in Nat /\ a % b < b /\ a \div b \in Nat
         /\ a = (b * (a \div b)) + (a % b)
OBVIOUS

\* To divide is to have a quotient.
LEMMA Quotient ==
  ASSUME NEW d \in Nat, d # 0, NEW n \in Nat
  PROVE  Divides(d, n) <=> \E k \in Nat : n = d * k
<1>1. ASSUME Divides(d, n) PROVE \E k \in Nat : n = d * k
  <2>1. n = (d * (n \div d)) + (n % d) /\ n \div d \in Nat
    BY Remainder
  <2>2. n % d = 0
    BY <1>1 DEF Divides
  <2>3. n = d * (n \div d)
    <3> DEFINE q == d * (n \div d)
    <3>1. q \in Nat
      BY <2>1
    <3>2. n = q + 0
      BY <2>1, <2>2
    <3> QED BY <3>1, <3>2
  <2> QED BY <2>1, <2>3
<1>2. ASSUME NEW k \in Nat, n = d * k PROVE Divides(d, n)
  BY <1>2 DEF Divides
<1> QED BY <1>1, <1>2

\* A round keeps the common divisors: d divides a and b when it divides b and
\* the remainder of a by b.
LEMMA RoundKeepsDivisors ==
  ASSUME NEW a \in Nat, NEW b \in Nat, b # 0, NEW d \in Nat, d # 0
  PROVE  DividesBoth(d, <<a, b>>) <=> DividesBoth(d, <<b, a % b>>)
<1> DEFINE q == a \div b
           r == a % b
<1>1. q \in Nat /\ r \in Nat /\ a = (b * q) + r
  BY Remainder
<1> HIDE DEF q, r
<1>2. ASSUME NEW j \in Nat, NEW k \in Nat, a = d * j, b = d * k
      PROVE  \E i \in Nat : r = d * i
  <2>1. r = d * (j - (k * q))
    BY <1>1, <1>2
  <2>2. j - (k * q) \in Int
    BY <1>1
  <2>3. j - (k * q) >= 0
    BY <1>1, <2>1, <2>2
  <2> QED BY <2>1, <2>2, <2>3
<1>3. ASSUME NEW j \in Nat, NEW k \in Nat, b = d * k, r = d * j
      PROVE  \E i \in Nat : a = d * i
  <2>1. a = d * ((k * q) + j) /\ (k * q) + j \in Nat
    BY <1>1, <1>3
  <2> QED BY <2>1
<1>4. /\ Divides(d, a) <=> \E k \in Nat : a = d * k
      /\ Divides(d, b) <=> \E k \in Nat : b = d * k
      /\ Divides(d, r) <=> \E k \in Nat : r = d * k
  BY <1>1, Quotient
<1> QED BY <1>2, <1>3, <1>4 DEF DividesBoth, r

----------------------------------------------------------------------------
(* The recursion *)

\* A set of numbers with zero, and with each number whose smaller ones it all
\* has, has all of them.
LEMMA AllNumbers ==
  ASSUME NEW T, \A n \in Nat : (\A k \in 0 .. n - 1 : k \in T) => n \in T
  PROVE  \A n \in Nat : n \in T
<1> DEFINE Bad == {n \in Nat : n \notin T}
<1> SUFFICES ASSUME Bad # {} PROVE FALSE
  OBVIOUS
<1>1. PICK m \in Bad : \A k \in Bad : ~ (<<k, m>> \in OpToRel(<, Nat))
  BY NatLessThanWellFounded, WFMin
<1>2. \A k \in Bad : ~ (k < m)
  BY <1>1 DEF OpToRel
<1>3. \A k \in 0 .. m - 1 : k \in T
  BY <1>2
<1> QED BY <1>3

\* The pair of the next round is a pair of words, and its second is smaller.
LEMMA NextPair ==
  ASSUME NEW p \in Pairs, p[2] # 0
  PROVE  <<p[2], p[1] % p[2]>> \in Pairs /\ p[1] % p[2] < p[2]
<1>1. p[1] \in Word /\ p[2] \in Word /\ p[1] \in Nat /\ p[2] \in Nat
  BY Words DEF Pairs
<1>2. p[1] % p[2] \in Nat /\ p[1] % p[2] < p[2]
  BY <1>1, Remainder
<1>3. p[1] % p[2] \in Word
  BY <1>1, <1>2, Words
<1> QED BY <1>1, <1>2, <1>3 DEF Pairs

\* There is a function that follows the loop: each round's second number is
\* smaller, so what is known up to one of them gives the next.
LEMMA EuclidExists == \E g : Euclid(g)
<1> DEFINE Follows(g, n) == \A p \in Pairs : p[2] <= n => g[p] = Round(g, p)
           T == {n \in Nat : \E g : g = [p \in Pairs |-> g[p]] /\ Follows(g, n)}
<1>1. ASSUME NEW n \in Nat, \A k \in 0 .. n - 1 : k \in T
      PROVE  n \in T
  <2>1. PICK g : n > 0 => Follows(g, n - 1)
    <3>1. CASE n > 0
      <4>1. n - 1 \in T
        BY <1>1, <3>1
      <4> QED BY <4>1
    <3>2. CASE ~ (n > 0)
      BY <3>2
    <3> QED BY <3>1, <3>2
  <2> DEFINE f == [p \in Pairs |-> IF p[2] < n THEN g[p] ELSE Round(g, p)]
  <2>2. ASSUME NEW p \in Pairs, p[2] <= n PROVE f[p] = Round(f, p)
    <3>1. p[2] \in Nat /\ f[p] = IF p[2] < n THEN g[p] ELSE Round(g, p)
      BY Words DEF Pairs
    <3>2. f[p] = Round(g, p)
      <4>1. CASE p[2] < n
        <5>1. n > 0 /\ p[2] <= n - 1
          BY <3>1, <4>1
        <5>2. Follows(g, n - 1)
          BY <2>1, <5>1
        <5>3. g[p] = Round(g, p)
          BY <5>1, <5>2
        <5> QED BY <3>1, <4>1, <5>3
      <4>2. CASE ~ (p[2] < n)
        BY <3>1, <4>2
      <4> QED BY <4>1, <4>2
    <3>3. CASE p[2] = 0
      BY <3>2, <3>3 DEF Round
    <3>4. CASE p[2] # 0
      <4> DEFINE q == <<p[2], p[1] % p[2]>>
      <4>1. q \in Pairs /\ q[2] < p[2] /\ q[2] \in Nat
        BY <3>4, NextPair, Words DEF Pairs
      <4> HIDE DEF q
      <4>2. f[q] = g[q]
        BY <2>2, <3>1, <4>1
      <4> QED BY <3>2, <3>4, <4>2 DEF Round, q
    <3> QED BY <3>3, <3>4
  <2>3. f = [p \in Pairs |-> f[p]]
    OBVIOUS
  <2> HIDE DEF f
  <2>4. f = [p \in Pairs |-> f[p]] /\ Follows(f, n)
    BY <2>2, <2>3
  <2> HIDE DEF Follows
  <2> QED BY <2>4
<1>2. PICK n \in Nat : \A p \in Pairs : p[2] <= n
  <2>1. WordMax \in Int
    BY WidthAssumption, Z3 DEF WordMax
  <2>2. \A p \in Pairs : p[2] \in 0 .. WordMax
    BY DEF Pairs, Word
  <2> DEFINE n == IF WordMax >= 0 THEN WordMax ELSE 0
  <2>3. n \in Nat /\ \A x \in 0 .. WordMax : x <= n
    BY <2>1
  <2> HIDE DEF n
  <2> QED BY <2>2, <2>3
<1>3. n \in T
  <2> HIDE DEF T
  <2> QED BY <1>1, AllNumbers
<1>4. PICK g : g = [p \in Pairs |-> g[p]] /\ Follows(g, n)
  BY <1>3
<1>5. \A p \in Pairs : g[p] = Round(g, p)
  BY <1>2, <1>4
<1>6. g = [p \in Pairs |-> Round(g, p)]
  BY <1>4, <1>5, Zenon
<1> QED BY <1>6 DEF Euclid

\* The last round: the pair with zero is coprime when the other word is one.
LEMMA LastRound ==
  ASSUME NEW a \in Word, 0 \in Word
  PROVE  a = 1 <=> Coprime(a, 0)
<1>1. WordMax \in Int
  BY WidthAssumption, Z3 DEF WordMax
<1>2. a \in Nat /\ a \in 0 .. WordMax
  BY Words DEF Word
<1>3. CASE a = 0
  BY <1>3 DEF Coprime
<1>4. CASE a = 1
  <2>1. ASSUME NEW d \in 2 .. WordMax PROVE ~ Divides(d, 1)
    <3>1. d \in Nat /\ d >= 2
      BY <1>1
    <3>2. 1 % d = 1
      BY <3>1
    <3> QED BY <3>2 DEF Divides
  <2> QED BY <1>4, <2>1 DEF Coprime
<1>5. CASE a > 1
  <2>1. a \in 2 .. WordMax
    BY <1>1, <1>2, <1>5
  <2>2. a % a = 0 /\ 0 % a = 0
    BY <1>2, <1>5
  <2>3. a # 1
    BY <1>5
  <2> QED BY <2>1, <2>2, <2>3 DEF Coprime, Divides
<1> QED BY <1>2, <1>3, <1>4, <1>5

\* A function that follows the loop answers one for the coprime pairs.
LEMMA EuclidDecides ==
  ASSUME NEW g, Euclid(g)
  PROVE  \A p \in Pairs : g[p] = 1 <=> Coprime(p[1], p[2])
<1> DEFINE Right(p) == g[p] = 1 <=> Coprime(p[1], p[2])
           T == {n \in Nat : \A p \in Pairs : p[2] = n => Right(p)}
<1>1. ASSUME NEW n \in Nat, \A k \in 0 .. n - 1 : k \in T
      PROVE  n \in T
  <2>1. ASSUME NEW p \in Pairs, p[2] = n PROVE Right(p)
    <3>1. p[1] \in Word /\ p[2] \in Word /\ p[1] \in Nat /\ p[2] \in Nat
      BY Words DEF Pairs
    <3>2. g[p] = Round(g, p)
      BY DEF Euclid
    <3>3. CASE p[2] = 0
      <4>1. p[1] = 1 <=> Coprime(p[1], 0)
        BY <3>1, <3>3, LastRound
      <4> QED BY <3>2, <3>3, <4>1 DEF Round
    <3>4. CASE p[2] # 0
      <4> DEFINE q == <<p[2], p[1] % p[2]>>
      <4>1. /\ q \in Pairs /\ q[2] < p[2] /\ q[1] = p[2] /\ q[2] = p[1] % p[2]
            /\ q[1] \in Nat /\ q[2] \in Nat
        BY <3>1, <3>4, NextPair, Remainder
      <4>2. g[p] = g[q]
        BY <3>2, <3>4 DEF Round
      <4>3. q[2] \in T
        BY <1>1, <2>1, <3>1, <4>1
      <4>4. Right(q)
        BY <4>1, <4>3
      <4>5. ASSUME NEW d \in 2 .. WordMax
            PROVE  (Divides(d, p[1]) /\ Divides(d, p[2]))
                     <=> (Divides(d, q[1]) /\ Divides(d, q[2]))
        <5>1. WordMax \in Int
          BY WidthAssumption, Z3 DEF WordMax
        <5>2. d \in Nat /\ d # 0
          BY <5>1
        <5>3. DividesBoth(d, <<p[1], p[2]>>) <=> DividesBoth(d, <<p[2], p[1] % p[2]>>)
          BY ONLY <3>1, <3>4, <5>2, RoundKeepsDivisors
        <5> QED BY <5>3 DEF DividesBoth
      <4>6. p[1] + p[2] > 0 /\ q[1] + q[2] > 0
        BY <3>1, <3>4, <4>1
      <4> HIDE DEF q
      <4>7. Coprime(p[1], p[2]) <=> Coprime(q[1], q[2])
        BY <4>5, <4>6 DEF Coprime
      <4> QED BY <4>2, <4>4, <4>7
    <3> QED BY <3>3, <3>4
  <2> QED BY <2>1
<1>2. \A n \in Nat : n \in T
  <2> HIDE DEF T
  <2> QED BY <1>1, AllNumbers
<1> QED BY <1>2, Words DEF Pairs

(* is_coprime says of two words whether they are coprime, by the definition  *)
(* of the run's reference, whatever the width (qpow-math lib.rs:63 to 74):   *)
(* the base that get_random_rsa accepts has no common divisor with its       *)
(* modulus, so its powers form a group.                                      *)
THEOREM CoprimeIsCoprime == \A a, b \in Word : IsCoprime(a, b) <=> Coprime(a, b)
<1> TAKE a \in Word, b \in Word
<1> DEFINE gcd == CHOOSE g : Euclid(g)
<1>1. Euclid(gcd)
  BY EuclidExists, Zenon
<1>2. IsCoprime(a, b) <=> gcd[<<a, b>>] = 1
  BY Zenon DEF IsCoprime, Euclid, Round, Pairs
<1>3. <<a, b>> \in Pairs
  BY DEF Pairs
<1> HIDE DEF gcd
<1> QED BY <1>1, <1>2, <1>3, EuclidDecides
=============================================================================
