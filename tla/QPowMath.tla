------------------------------ MODULE QPowMath ------------------------------
(***************************************************************************)
(* The arithmetic of the proof of work, on words of Width bits instead of   *)
(* 512.  A header gives a pair (m, n) of a base and an odd composite        *)
(* modulus; a nonce s is worth the distance between the hashes of m^h and   *)
(* m^(h+s) modulo n.  SHA3 is a one-to-one map of words onto words.         *)
(***************************************************************************)
EXTENDS Integers, FiniteSets, FiniteSetsExt, SequencesExt

CONSTANTS
  Width,  \* bits of a word
  Sha     \* sha3_512 on words

ASSUME WidthAssumption == Width \in Nat

WordMax == 2^Width - 1
Word == 0 .. WordMax
Bits == 0 .. Width - 1

Bit(a, i) == (a \div 2^i) % 2

(* BitXor *)
Xor(a, b) == MapThenSumSet(LAMBDA i : 2^i * ((Bit(a, i) + Bit(b, i)) % 2), Bits)

(* One round of square and multiply. *)
SquareMultiply(acc, bit) ==
  [acc EXCEPT !.result = IF bit = 1 THEN (@ * acc.base) % acc.mod ELSE @,
              !.base = (@ * @) % acc.mod]

(* mod_pow, bit by bit from the lowest; further zero bits change nothing. *)
ModPow(b, e, n) ==
  FoldLeft(SquareMultiply, [base |-> b, result |-> 1, mod |-> n],
           [i \in 1 .. Width |-> Bit(e, i - 1)]).result

(* is_coprime, by Euclid's algorithm *)
IsCoprime(a, b) ==
  LET gcd[p \in Word \X Word] ==
        IF p[2] = 0 THEN p[1] ELSE gcd[<<p[2], p[1] % p[2]>>]
  IN gcd[<<a, b>>] = 1

(* n - 1 = d * 2^r with d odd *)
TwoPower(n) == CHOOSE r \in Bits : (n - 1) % 2^r = 0 /\ ((n - 1) \div 2^r) % 2 = 1

(* Mutant: nothing is squared. *)
PassesUnsquared(n, base) ==
  ModPow(base, (n - 1) \div 2^TwoPower(n), n) \in {1, n - 1}

(* The Miller-Rabin test of an odd n > 3 with one base.  The squarings stop
   at one, from which n - 1 is out of reach. *)
Passes(n, base) ==
  LET r == TwoPower(n)
      x[i \in Nat] == IF i = 0 THEN ModPow(base, (n - 1) \div 2^r, n)
                      ELSE ModPow(x[i - 1], 2, n)
  IN x[0] = 1 \/ \E i \in 0 .. r - 1 : x[i] = n - 1

(* The bases that hashing n with a counter can yield. *)
Bases(n) == {(k % (n - 4)) + 2 : k \in Word}

IsPrime(n, bases) ==
  /\ n > 1
  /\ n \in {2, 3} \/ (n % 2 = 1 /\ \A base \in bases : Passes(n, base))

(* What ends the rehashing of get_random_rsa; the bases are any. *)
RsaPair(m, n) ==
  n % 2 = 1 /\ n > m /\ IsCoprime(m, n) /\ ~IsPrime(n, Bases(n))

SaturatingAdd(a, b) == IF a + b > WordMax THEN WordMax ELSE a + b

(* hash_to_group_bigint, and its hash *)
HashToGroup(h, m, n, s) == ModPow(m, SaturatingAdd(h, s), n)
HashToGroupSha(h, m, n, s) == Sha[HashToGroup(h, m, n, s)]

(* get_nonce_distance for a header h with the pair (m, n) *)
NonceDistance(h, m, n, s) ==
  IF s = 0 THEN 0
  ELSE Xor(HashToGroupSha(h, m, n, 0), HashToGroupSha(h, m, n, s))

IsValidNonce(h, m, n, s, threshold) ==
  s # 0 /\ NonceDistance(h, m, n, s) <= threshold

----------------------------------------------------------------------------
(* Reference definitions *)
Divides(d, n) == n % d = 0
Prime(n) == n > 1 /\ \A d \in 2 .. n - 1 : ~Divides(d, n)
Coprime(a, b) ==
  a + b > 0 /\ \A d \in 2 .. WordMax : ~(Divides(d, a) /\ Divides(d, b))
OddComposites == {n \in 5 .. WordMax : n % 2 = 1 /\ ~Prime(n)}

(* The number theory of lib.rs:63 to 187 agrees with its definitions for all
   words: powers, coprimality and, for the primality test, that no prime
   fails with any base and that at most one base in four takes a composite
   for a prime ("k = 32 tests put false positive rate at 1/2^64", :145). *)
NumberTheory ==
  /\ \A b \in 1 .. 6, e \in 0 .. 7, n \in 2 .. WordMax : ModPow(b, e, n) = b^e % n
  /\ \A a, b \in Word : IsCoprime(a, b) <=> Coprime(a, b)
  /\ \A n \in 5 .. WordMax : Prime(n) => IsPrime(n, Bases(n))
  /\ \A n \in OddComposites :
       4 * Cardinality({b \in 2 .. n - 3 : Passes(n, b)}) <= n - 4

(* A nonce is free of work (distance zero, lib.rs:21) only when it turns the
   base once round the group, or when the sum of header and nonce saturates
   at a power that equals the target: nonce zero, which is refused, is not
   the only one. *)
Distances ==
  \A m \in 2 .. 4, n \in OddComposites, h \in 0 .. 8, s \in 1 .. WordMax :
    RsaPair(m, n) =>
      LET e == IF h + s > WordMax THEN WordMax - h ELSE s
          order == CHOOSE k \in 1 .. n :
                     /\ ModPow(m, k, n) = 1
                     /\ \A j \in 1 .. k - 1 : ModPow(m, j, n) # 1
      IN NonceDistance(h, m, n, s) = 0 <=> Divides(order, e)
=============================================================================
