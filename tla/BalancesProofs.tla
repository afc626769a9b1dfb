--------------------------- MODULE BalancesProofs ---------------------------
(* What the ledger of Balances keeps, for every set of accounts and            *)
(* identifiers, every deposit and every amount.                                *)
EXTENDS Balances, FiniteSetTheorems, WellFoundedInduction, TLAPS

-----------------------------------------------------------------------------
(* Sums and maxima *)

Units(f) == UNION {{i} \X (1 .. f[i]) : i \in DOMAIN f}

\* The units that Sum counts, one by one.
LEMMA UnitMember ==
  ASSUME NEW S, NEW f \in [S -> Nat]
  PROVE  /\ Units(f) \subseteq S \X Nat
         /\ \A i \in S, n \in Nat : <<i, n>> \in Units(f) <=> 1 <= n /\ n <= f[i]
  BY DEF Units

\* An interval that starts with one.
LEMMA IntervalSize ==
  ASSUME NEW k \in Nat
  PROVE  IsFiniteSet(1 .. k) /\ Cardinality(1 .. k) = k
  <1>1. 1 \in Int /\ k \in Int /\ (1 > k => k = 0) /\ k - 1 + 1 = k
    OBVIOUS
  <1>2. /\ IsFiniteSet(1 .. k)
        /\ Cardinality(1 .. k) = IF 1 > k THEN 0 ELSE k - 1 + 1
    BY <1>1, FS_Interval
  <1>3. QED
    BY <1>1, <1>2

\* The units of one entry are as many as its amount.
LEMMA EntrySize ==
  ASSUME NEW i, NEW k \in Nat
  PROVE  IsFiniteSet({i} \X (1 .. k)) /\ Cardinality({i} \X (1 .. k)) = k
  <1>1. IsFiniteSet({i}) /\ Cardinality({i}) = 1
    BY FS_Singleton
  <1>2. IsFiniteSet(1 .. k) /\ Cardinality(1 .. k) = k
    BY IntervalSize
  <1>3. /\ IsFiniteSet({i} \X (1 .. k))
        /\ Cardinality({i} \X (1 .. k)) = Cardinality({i}) * Cardinality(1 .. k)
    BY <1>1, <1>2, FS_Product
  <1>4. 1 * k = k
    OBVIOUS
  <1>5. QED
    BY <1>1, <1>2, <1>3, <1>4

\* A finite sum of natural numbers is a natural number.
LEMMA SumType ==
  ASSUME NEW S, IsFiniteSet(S), NEW f \in [S -> Nat]
  PROVE  IsFiniteSet(Units(f)) /\ Sum(f) \in Nat
  <1> DEFINE R == {{i} \X (1 .. f[i]) : i \in S}
             entry == [i \in S |-> {i} \X (1 .. f[i])]
  <1>1. entry \in Surjection(S, R)
    BY DEF Surjection
  <1>2. IsFiniteSet(R)
    BY <1>1, FS_Surjection
  <1>3. \A T \in R : IsFiniteSet(T)
    <2> SUFFICES ASSUME NEW i \in S PROVE IsFiniteSet({i} \X (1 .. f[i]))
      OBVIOUS
    <2> QED BY EntrySize
  <1>4. IsFiniteSet(UNION R)
    BY <1>2, <1>3, FS_UNION
  <1>5. Units(f) = UNION R
    BY DEF Units
  <1>6. Sum(f) = Cardinality(Units(f))
    BY DEF Sum, Units
  <1>7. QED
    BY <1>4, <1>5, <1>6, FS_CardinalityType

\* One entry taken out of a sum.
LEMMA SumSplit ==
  ASSUME NEW S, IsFiniteSet(S), NEW f \in [S -> Nat], NEW i \in S
  PROVE  Sum(f) = Sum([j \in S \ {i} |-> f[j]]) + f[i]
  <1> DEFINE g == [j \in S \ {i} |-> f[j]]
             E == {i} \X (1 .. f[i])
  <1>1. g \in [S \ {i} -> Nat] /\ f[i] \in Nat
    OBVIOUS
  <1>2. IsFiniteSet(S \ {i})
    BY FS_Difference
  <1>3. IsFiniteSet(Units(g)) /\ Sum(g) \in Nat
    BY <1>1, <1>2, SumType
  <1>4. IsFiniteSet(E) /\ Cardinality(E) = f[i]
    BY <1>1, EntrySize
  <1>5. Units(f) = Units(g) \cup E /\ Units(g) \cap E = {}
    BY DEF Units
  <1>6. Cardinality(Units(g) \cap E) = 0
    BY <1>5, FS_EmptySet
  <1>7. Cardinality(Units(f)) = Cardinality(Units(g)) + Cardinality(E) - 0
    BY <1>3, <1>4, <1>5, <1>6, FS_Union
  <1>8. Sum(f) = Cardinality(Units(f)) /\ Sum(g) = Cardinality(Units(g))
    BY DEF Sum, Units
  <1>9. Sum(f) = Sum(g) + f[i]
    BY <1>1, <1>3, <1>4, <1>7, <1>8
  <1>10. QED
    BY <1>9

\* A sum in which one entry changes.
LEMMA SumChange ==
  ASSUME NEW S, IsFiniteSet(S), NEW f \in [S -> Nat], NEW g \in [S -> Nat],
         NEW i \in S, \A j \in S \ {i} : g[j] = f[j]
  PROVE  Sum(g) = Sum(f) - f[i] + g[i]
  <1> DEFINE h == [j \in S \ {i} |-> f[j]]
             k == [j \in S \ {i} |-> g[j]]
  <1>1. h = k
    OBVIOUS
  <1>2. Sum(f) = Sum(h) + f[i]
    BY SumSplit
  <1>3. Sum(g) = Sum(k) + g[i]
    BY SumSplit
  <1>4. IsFiniteSet(S \ {i}) /\ h \in [S \ {i} -> Nat]
    BY FS_Difference
  <1>5. Sum(h) \in Nat
    BY <1>4, SumType
  <1>6. QED
    <2>1. f[i] \in Nat /\ g[i] \in Nat /\ Sum(k) = Sum(h)
      BY <1>1
    <2> HIDE DEF h, k
    <2> QED BY <1>2, <1>3, <1>5, <2>1

\* No entry is more than the sum.
LEMMA SumCovers ==
  ASSUME NEW S, IsFiniteSet(S), NEW f \in [S -> Nat], NEW i \in S
  PROVE  f[i] <= Sum(f)
  <1> DEFINE h == [j \in S \ {i} |-> f[j]]
  <1>1. Sum(f) = Sum(h) + f[i]
    BY SumSplit
  <1>2. IsFiniteSet(S \ {i}) /\ h \in [S \ {i} -> Nat]
    BY FS_Difference
  <1>3. Sum(h) \in Nat
    BY <1>2, SumType
  <1> HIDE DEF h
  <1>4. QED
    BY <1>1, <1>3

\* A sum of zeros, the empty one included.
LEMMA SumZero ==
  ASSUME NEW S, NEW f \in [S -> Nat], \A i \in S : f[i] = 0
  PROVE  Sum(f) = 0
  <1>1. Units(f) = {}
    BY DEF Units
  <1>2. QED
    BY <1>1, FS_EmptySet DEF Sum, Units

\* A finite, not empty set of numbers has a highest one.
LEMMA MaxExists ==
  ASSUME NEW S \in SUBSET Nat, IsFiniteSet(S), S # {}
  PROVE  Max(S) \in S /\ \A x \in S : x <= Max(S)
  <1> DEFINE B  == UNION {1 .. x : x \in S}
             UB == {n \in Nat : \A x \in S : x <= n}
             R  == {1 .. x : x \in S}
             up == [x \in S |-> 1 .. x]
  <1>1. up \in Surjection(S, R)
    BY DEF Surjection
  <1>2. IsFiniteSet(R)
    BY <1>1, FS_Surjection
  <1>3. \A T \in R : IsFiniteSet(T)
    <2> SUFFICES ASSUME NEW x \in S PROVE IsFiniteSet(1 .. x)
      OBVIOUS
    <2> QED BY IntervalSize
  <1>4. IsFiniteSet(B)
    BY <1>2, <1>3, FS_UNION
  <1>5. Cardinality(B) \in Nat
    BY <1>4, FS_CardinalityType
  <1>6. ASSUME NEW x \in S PROVE x <= Cardinality(B)
    <2>1. (1 .. x) \in SUBSET B
      OBVIOUS
    <2>2. Cardinality(1 .. x) <= Cardinality(B)
      BY <1>4, <2>1, FS_Subset
    <2>3. Cardinality(1 .. x) = x
      BY IntervalSize
    <2> QED BY <2>2, <2>3
  <1>7. UB \subseteq Nat /\ UB # {}
    BY <1>5, <1>6
  <1>8. PICK m \in UB : \A n \in UB : ~ (<<n, m>> \in OpToRel(<, Nat))
    BY <1>7, NatLessThanWellFounded, WFMin
  <1>9. \A n \in UB : ~ (n < m)
    BY <1>8 DEF OpToRel
  <1>10. m \in S
    <2> SUFFICES ASSUME m \notin S PROVE FALSE
      OBVIOUS
    <2>1. PICK y \in S : TRUE
      OBVIOUS
    <2>2. y <= m /\ y # m
      OBVIOUS
    <2>3. m - 1 \in Nat
      BY <2>2
    <2>4. \A x \in S : x <= m - 1
      OBVIOUS
    <2> QED BY <1>9, <2>3, <2>4
  <1>11. \E x \in S : \A y \in S : x >= y
    BY <1>10
  <1>12. QED
    BY <1>11 DEF Max

\* The highest amount of locks or freezes, zero when there is none.
LEMMA HighestOf ==
  ASSUME NEW S, IsFiniteSet(S), NEW f \in [S -> Nat]
  PROVE  /\ Highest(f) \in Nat
         /\ Highest(f) = 0 <=> \A i \in S : f[i] = 0
  <1> DEFINE V == {f[i] : i \in S}
             W == {f[i] : i \in DOMAIN f} \cup {0}
             value == [i \in S |-> f[i]]
  <1>1. value \in Surjection(S, V)
    BY DEF Surjection
  <1>2. IsFiniteSet(V)
    BY <1>1, FS_Surjection
  <1>3. IsFiniteSet(V \cup {0})
    BY <1>2, FS_AddElement
  <1>4. W = V \cup {0} /\ W \in SUBSET Nat /\ W # {}
    OBVIOUS
  <1>5. Max(W) \in W /\ \A x \in W : x <= Max(W)
    BY <1>3, <1>4, MaxExists
  <1>6. Highest(f) = Max(W)
    BY DEF Highest
  <1>7. \A i \in S : f[i] \in W
    OBVIOUS
  <1>8. Max(W) = 0 => \A i \in S : f[i] = 0
    BY <1>4, <1>5, <1>7
  <1>9. (\A i \in S : f[i] = 0) => W = {0}
    OBVIOUS
  <1> HIDE DEF W
  <1>10. QED
    BY <1>4, <1>5, <1>6, <1>8, <1>9

-----------------------------------------------------------------------------
(* Sound ledgers.  What is reserved or frozen always stands on a free balance  *)
(* of at least the existential deposit: this is more than the code asserts,    *)
(* and it is what makes the references follow the data.                        *)

Data == [free : Nat, reserved : Nat, frozen : Nat]

NameSets == {S \in SUBSET ReserveIds : Cardinality(S) <= MaxReserves}

Entries == UNION {[S -> Nat] : S \in NameSets}

Ledgers == [account   : [Accounts -> Data],
            providers : [Accounts -> Nat],
            consumers : [Accounts -> Nat],
            locks     : [Accounts -> [LockIds -> Nat]],
            freezes   : [Accounts -> [FreezeIds -> Nat]],
            holds     : [Accounts -> [HoldReasons -> Nat]],
            reserves  : [Accounts -> Entries],
            issuance  : Nat]

Sound(s) ==
  /\ s \in Ledgers
  /\ \A a \in Accounts :
        /\ s.account[a] = NoAccount \/ s.account[a].free >= ED
        /\ s.providers[a] = IF s.account[a].free >= ED THEN 1 ELSE 0
        /\ s.consumers[a] = IF Held(s.account[a]) THEN 1 ELSE 0

(* What MutateAccount writes: the new data, or nothing.                        *)
Settled(s, a, d) ==
  [s EXCEPT !.account[a]   = IF d.free >= ED THEN d ELSE NoAccount,
            !.providers[a] = IF d.free >= ED THEN 1 ELSE 0,
            !.consumers[a] = IF d.free >= ED /\ Held(d) THEN 1 ELSE 0]

\* The data of an account, and of none.
LEMMA DataParts ==
  /\ NoAccount \in Data /\ ~Held(NoAccount) /\ Total(NoAccount) = 0
  /\ NoAccount.free = 0 /\ NoAccount.reserved = 0 /\ NoAccount.frozen = 0
  /\ \A d \in Data : d.free \in Nat /\ d.reserved \in Nat /\ d.frozen \in Nat /\ Total(d) \in Nat
  BY DEF NoAccount, Data, Held, Total

(* Data with two amounts replaced.                                            *)
Replaced(d, x, y) == [d EXCEPT !.free = x, !.reserved = y]

\* They are data again.
LEMMA DataTwice ==
  ASSUME NEW d \in Data, NEW x \in Nat, NEW y \in Nat
  PROVE  /\ Replaced(d, x, y) \in Data
         /\ Replaced(d, x, y).free = x /\ Replaced(d, x, y).reserved = y
         /\ Replaced(d, x, y).frozen = d.frozen
  <1>1. PICK f \in Nat, r \in Nat, z \in Nat : d = [free |-> f, reserved |-> r, frozen |-> z]
    BY DEF Data
  <1> DEFINE c == [d EXCEPT !.free = x]
  <1>2. c = [free |-> x, reserved |-> r, frozen |-> z]
    BY <1>1
  <1> HIDE DEF c
  <1>3. [c EXCEPT !.reserved = y] = [free |-> x, reserved |-> y, frozen |-> z]
    BY <1>2
  <1>4. [d EXCEPT !.free = x, !.reserved = y] = [c EXCEPT !.reserved = y]
    BY DEF c
  <1>5. Replaced(d, x, y) = [free |-> x, reserved |-> y, frozen |-> z]
    BY <1>3, <1>4 DEF Replaced
  <1> QED BY <1>1, <1>5 DEF Data

\* Data with free balance set aside.
LEMMA DataAside ==
  ASSUME NEW d \in Data, NEW n \in Nat, n <= d.free
  PROVE  LET e == [d EXCEPT !.free = @ - n, !.reserved = @ + n]
         IN  /\ e \in Data /\ e.free = d.free - n
             /\ e.reserved = d.reserved + n /\ e.frozen = d.frozen
  <1> DEFINE x == d.free - n
             y == d.reserved + n
  <1>1. x \in Nat /\ y \in Nat
    BY DataParts
  <1> HIDE DEF x, y
  <1>2. /\ Replaced(d, x, y) \in Data
        /\ Replaced(d, x, y).free = x /\ Replaced(d, x, y).reserved = y
        /\ Replaced(d, x, y).frozen = d.frozen
    BY <1>1, DataTwice
  <1> QED BY <1>2, Zenon DEF x, y, Replaced

\* Data with reserved balance given back.
LEMMA DataBack ==
  ASSUME NEW d \in Data, NEW n \in Nat, n <= d.reserved
  PROVE  LET e == [d EXCEPT !.free = @ + n, !.reserved = @ - n]
         IN  /\ e \in Data /\ e.free = d.free + n
             /\ e.reserved = d.reserved - n /\ e.frozen = d.frozen
  <1> DEFINE x == d.free + n
             y == d.reserved - n
  <1>1. x \in Nat /\ y \in Nat
    BY DataParts
  <1> HIDE DEF x, y
  <1>2. /\ Replaced(d, x, y) \in Data
        /\ Replaced(d, x, y).free = x /\ Replaced(d, x, y).reserved = y
        /\ Replaced(d, x, y).frozen = d.frozen
    BY <1>1, DataTwice
  <1> QED BY <1>2, Zenon DEF x, y, Replaced

\* Data with one amount replaced.
LEMMA DataOnce ==
  ASSUME NEW d \in Data, NEW n \in Nat
  PROVE  /\ LET e == [d EXCEPT !.reserved = n]
            IN  e \in Data /\ e.free = d.free /\ e.reserved = n /\ e.frozen = d.frozen
         /\ LET e == [d EXCEPT !.free = n]
            IN  e \in Data /\ e.free = n /\ e.reserved = d.reserved /\ e.frozen = d.frozen
         /\ LET e == [d EXCEPT !.frozen = n]
            IN  e \in Data /\ e.free = d.free /\ e.reserved = d.reserved /\ e.frozen = n
  BY DEF Data

\* The parts of a ledger.
LEMMA LedgerParts ==
  ASSUME NEW s \in Ledgers
  PROVE  /\ s.account \in [Accounts -> Data]
         /\ s.providers \in [Accounts -> Nat]
         /\ s.consumers \in [Accounts -> Nat]
         /\ s.locks \in [Accounts -> [LockIds -> Nat]]
         /\ s.freezes \in [Accounts -> [FreezeIds -> Nat]]
         /\ s.holds \in [Accounts -> [HoldReasons -> Nat]]
         /\ s.reserves \in [Accounts -> Entries]
         /\ s.issuance \in Nat
  BY DEF Ledgers

\* Below the deposit an account holds nothing.
LEMMA SoundAt ==
  ASSUME NEW s, Sound(s), NEW a \in Accounts
  PROVE  /\ s \in Ledgers /\ s.account[a] \in Data
         /\ s.account[a].free < ED => s.account[a] = NoAccount /\ ~Held(s.account[a])
         /\ s.providers[a] = IF s.account[a].free >= ED THEN 1 ELSE 0
         /\ s.consumers[a] = IF Held(s.account[a]) THEN 1 ELSE 0
         /\ CanDecProvider(s, a) <=> ~Held(s.account[a])
  <1>1. s \in Ledgers /\ s.account[a] \in Data
    BY LedgerParts DEF Sound
  <1>2. s.account[a].free < ED => s.account[a] = NoAccount /\ ~Held(s.account[a])
    BY <1>1, DataParts, BalancesAssumption DEF Sound
  <1>3. /\ s.providers[a] = IF s.account[a].free >= ED THEN 1 ELSE 0
        /\ s.consumers[a] = IF Held(s.account[a]) THEN 1 ELSE 0
    BY DEF Sound
  <1>4. CanDecProvider(s, a) <=> ~Held(s.account[a])
    BY <1>3 DEF CanDecProvider
  <1>5. QED
    BY <1>1, <1>2, <1>3, <1>4

\* try_mutate_account (pallets/balances/src/lib.rs:891-946) is refused exactly
\* when something would stay reserved or frozen without the deposit; else the
\* references follow the data, and what is below the deposit is dust.
LEMMA Mutating ==
  ASSUME NEW s, Sound(s), NEW a \in Accounts, NEW d \in Data
  PROVE  MutateAccount(s, a, d) =
           IF d.free >= ED \/ ~Held(d)
           THEN [ok |-> TRUE, dust |-> IF d.free >= ED THEN 0 ELSE d.free, s |-> Settled(s, a, d)]
           ELSE Refused(s)
  <1> DEFINE old      == s.account[a]
             gains    == old.free < ED /\ d.free >= ED
             lapses   == old.free >= ED /\ d.free < ED
             p        == s.providers[a] + IF gains THEN 1 ELSE 0
             released == s.consumers[a] - IF Held(old) /\ ~Held(d) THEN 1 ELSE 0
             c        == IF Held(d) /\ (~Held(old) \/ released = 0) THEN released + 1 ELSE released
             q        == IF lapses THEN p - 1 ELSE p
  <1>1. /\ old.free \in Nat /\ d.free \in Nat /\ ED \in Nat
        /\ old.free < ED => ~Held(old)
        /\ s.providers[a] = IF old.free >= ED THEN 1 ELSE 0
        /\ s.consumers[a] = IF Held(old) THEN 1 ELSE 0
    BY SoundAt, DataParts, BalancesAssumption
  <1>2. q = IF d.free >= ED THEN 1 ELSE 0
    BY <1>1
  <1>3. (c > released /\ p = 0) \/ (lapses /\ q = 0 /\ c > 0) <=> d.free < ED /\ Held(d)
    BY <1>1
  <1>4. (IF q > 0 THEN c ELSE 0) = IF d.free >= ED /\ Held(d) THEN 1 ELSE 0
    BY <1>1
  <1>5. d.free < ED /\ ~Held(d) => ~Stays(d)
    BY <1>1 DEF Stays, Held
  <1>6. d.free >= ED => Stays(d) /\ q > 0
    BY <1>1, <1>2 DEF Stays
  <1>7. MutateAccount(s, a, d) =
          IF (c > released /\ p = 0) \/ (lapses /\ q = 0 /\ c > 0)
          THEN Refused(s)
          ELSE [ok   |-> TRUE,
                dust |-> IF Stays(d) THEN 0 ELSE d.free,
                s    |-> [s EXCEPT !.account[a]   = IF Stays(d) /\ q > 0 THEN d ELSE NoAccount,
                                   !.providers[a] = q,
                                   !.consumers[a] = IF q > 0 THEN c ELSE 0]]
    BY DEF MutateAccount
  <1>8. CASE d.free >= ED
    <2>1. /\ Stays(d) /\ q > 0 /\ q = 1
          /\ (IF q > 0 THEN c ELSE 0) = IF Held(d) THEN 1 ELSE 0
          /\ ~((c > released /\ p = 0) \/ (lapses /\ q = 0 /\ c > 0))
      BY <1>1, <1>2, <1>3, <1>4, <1>6, <1>8
    <2> HIDE DEF p, q, c, released, lapses
    <2> QED BY <1>7, <1>8, <2>1 DEF Settled
  <1>9. CASE d.free < ED /\ ~Held(d)
    <2>1. /\ ~Stays(d) /\ ~(q > 0) /\ q = 0 /\ ~(d.free >= ED)
          /\ ~((c > released /\ p = 0) \/ (lapses /\ q = 0 /\ c > 0))
      BY <1>1, <1>2, <1>3, <1>5, <1>9
    <2> HIDE DEF p, q, c, released, lapses
    <2> QED BY <1>7, <1>9, <2>1 DEF Settled
  <1>10. CASE d.free < ED /\ Held(d)
    BY <1>1, <1>3, <1>7, <1>10
  <1>11. QED
    BY <1>1, <1>8, <1>9, <1>10

-----------------------------------------------------------------------------
(* What a write does to the ledger.  Gap is what the issuance has over the     *)
(* balances; Spare is what an account has reserved beyond holds and names.     *)

Gap(s) == s.issuance - Supply(s)

Spare(s, a) == s.account[a].reserved - Sum(s.holds[a]) - Sum(s.reserves[a])

Written(d) == IF d.free >= ED THEN d ELSE NoAccount

SideTablesKept(s, t) ==
  /\ t.locks = s.locks
  /\ t.freezes = s.freezes
  /\ t.holds = s.holds
  /\ t.reserves = s.reserves

Writes(s, t, a, d) ==
  /\ Sound(t)
  /\ t.account = [s.account EXCEPT ![a] = Written(d)]
  /\ t.account[a].reserved = d.reserved
  /\ t.account[a].frozen = d.frozen
  /\ SideTablesKept(s, t)
  /\ Gap(t) = Gap(s) + Total(s.account[a]) - Total(d)

\* The balances of all accounts add up to a number that covers each of them.
LEMMA SupplyType ==
  ASSUME NEW s \in Ledgers
  PROVE  /\ Supply(s) \in Nat /\ Gap(s) \in Int
         /\ \A a \in Accounts : Total(s.account[a]) \in Nat /\ Total(s.account[a]) <= Supply(s)
  <1> DEFINE f == [a \in Accounts |-> Total(s.account[a])]
  <1>1. \A a \in Accounts : Total(s.account[a]) \in Nat
    BY LedgerParts, DataParts
  <1>2. f \in [Accounts -> Nat] /\ IsFiniteSet(Accounts)
    BY <1>1, BalancesAssumption
  <1>3. Sum(f) \in Nat
    BY <1>2, SumType
  <1>4. \A a \in Accounts : f[a] <= Sum(f)
    BY <1>2, SumCovers
  <1>5. Supply(s) = Sum(f)
    BY DEF Supply
  <1>6. s.issuance \in Nat
    BY LedgerParts
  <1>7. QED
    BY <1>1, <1>3, <1>4, <1>5, <1>6 DEF Gap

\* One account written: the supply follows.
LEMMA SupplyChange ==
  ASSUME NEW s \in Ledgers, NEW t \in Ledgers, NEW a \in Accounts, NEW d \in Data,
         t.account = [s.account EXCEPT ![a] = d]
  PROVE  Supply(t) = Supply(s) - Total(s.account[a]) + Total(d)
  <1> DEFINE f == [x \in Accounts |-> Total(s.account[x])]
             g == [x \in Accounts |-> Total(t.account[x])]
  <1>1. f \in [Accounts -> Nat] /\ g \in [Accounts -> Nat] /\ IsFiniteSet(Accounts)
    BY LedgerParts, DataParts, BalancesAssumption
  <1>2. f[a] = Total(s.account[a]) /\ g[a] = Total(d)
    BY LedgerParts
  <1>3. \A x \in Accounts \ {a} : g[x] = f[x]
    BY LedgerParts
  <1>4. Sum(g) = Sum(f) - f[a] + g[a]
    BY <1>1, <1>3, SumChange
  <1>5. Supply(s) = Sum(f) /\ Supply(t) = Sum(g)
    BY DEF Supply
  <1> HIDE DEF f, g
  <1>6. QED
    BY <1>2, <1>4, <1>5

\* What is settled is sound again; the issuance and the side tables stay.
LEMMA SettledSound ==
  ASSUME NEW s, Sound(s), NEW a \in Accounts, NEW d \in Data, d.free >= ED \/ ~Held(d)
  PROVE  /\ Sound(Settled(s, a, d))
         /\ Settled(s, a, d).account = [s.account EXCEPT ![a] = Written(d)]
         /\ Settled(s, a, d).issuance = s.issuance
         /\ SideTablesKept(s, Settled(s, a, d))
         /\ Written(d) \in Data
         /\ Written(d).reserved = d.reserved /\ Written(d).frozen = d.frozen
  <1> DEFINE t == Settled(s, a, d)
  <1>1. s \in Ledgers
    BY DEF Sound
  <1>2. /\ Written(d) \in Data
        /\ Written(d).reserved = d.reserved /\ Written(d).frozen = d.frozen
        /\ Held(Written(d)) <=> Held(d)
        /\ Written(d) = NoAccount \/ Written(d).free >= ED
        /\ Written(d).free >= ED <=> d.free >= ED
    BY DataParts, BalancesAssumption DEF Written, Held
  <1> DEFINE w == Written(d)
             p == IF d.free >= ED THEN 1 ELSE 0
             c == IF d.free >= ED /\ Held(d) THEN 1 ELSE 0
  <1>3. t = [s EXCEPT !.account[a] = w, !.providers[a] = p, !.consumers[a] = c]
    BY DEF Settled, Written
  <1>4. /\ t \in Ledgers
        /\ t.account = [s.account EXCEPT ![a] = w]
        /\ t.providers = [s.providers EXCEPT ![a] = p]
        /\ t.consumers = [s.consumers EXCEPT ![a] = c]
        /\ t.issuance = s.issuance /\ t.locks = s.locks /\ t.freezes = s.freezes
        /\ t.holds = s.holds /\ t.reserves = s.reserves
    <2>1. w \in Data /\ p \in Nat /\ c \in Nat
      BY <1>2
    <2> HIDE DEF w, p, c, t
    <2>2. /\ t.account = [s.account EXCEPT ![a] = w]
          /\ t.providers = [s.providers EXCEPT ![a] = p]
          /\ t.consumers = [s.consumers EXCEPT ![a] = c]
          /\ t.issuance = s.issuance /\ t.locks = s.locks /\ t.freezes = s.freezes
          /\ t.holds = s.holds /\ t.reserves = s.reserves
      BY <1>1, <1>3 DEF Ledgers
    <2>3. t \in Ledgers
      BY <1>1, <1>3, <2>1 DEF Ledgers
    <2> QED BY <2>2, <2>3
  <1> HIDE DEF t
  <1>5. ASSUME NEW x \in Accounts
        PROVE  /\ t.account[x] = NoAccount \/ t.account[x].free >= ED
               /\ t.providers[x] = IF t.account[x].free >= ED THEN 1 ELSE 0
               /\ t.consumers[x] = IF Held(t.account[x]) THEN 1 ELSE 0
    <2>1. CASE x = a
      <3>1. t.account[x] = w /\ t.providers[x] = p /\ t.consumers[x] = c
        BY <1>1, <1>4, <2>1, LedgerParts
      <3> QED BY <1>2, <3>1
    <2>2. CASE x # a
      <3>1. /\ t.account[x] = s.account[x] /\ t.providers[x] = s.providers[x]
            /\ t.consumers[x] = s.consumers[x]
        BY <1>1, <1>4, <2>2, LedgerParts
      <3> QED BY <3>1 DEF Sound
    <2> QED BY <2>1, <2>2
  <1>6. Sound(t)
    BY <1>4, <1>5 DEF Sound
  <1>7. QED
    BY <1>2, <1>4, <1>6 DEF SideTablesKept, t

\* Soundness is about the data and the references only.
LEMMA SameAccounts ==
  ASSUME NEW s, Sound(s), NEW t \in Ledgers,
         t.account = s.account, t.providers = s.providers, t.consumers = s.consumers
  PROVE  Sound(t) /\ Supply(t) = Supply(s)
  BY DEF Sound, Supply

\* The other parts of a sound ledger may be replaced.
LEMMA OtherParts ==
  ASSUME NEW s, Sound(s), NEW a \in Accounts
  PROVE  /\ \A n \in Nat :
              LET t == [s EXCEPT !.issuance = n]
              IN  /\ Sound(t) /\ Supply(t) = Supply(s) /\ SideTablesKept(s, t)
                  /\ t.account = s.account /\ t.issuance = n
         /\ \A f \in [LockIds -> Nat] :
              LET t == [s EXCEPT !.locks[a] = f]
              IN  /\ Sound(t) /\ Supply(t) = Supply(s)
                  /\ t.account = s.account /\ t.issuance = s.issuance
                  /\ t.locks = [s.locks EXCEPT ![a] = f]
                  /\ t.freezes = s.freezes /\ t.holds = s.holds /\ t.reserves = s.reserves
         /\ \A f \in [FreezeIds -> Nat] :
              LET t == [s EXCEPT !.freezes[a] = f]
              IN  /\ Sound(t) /\ Supply(t) = Supply(s)
                  /\ t.account = s.account /\ t.issuance = s.issuance
                  /\ t.freezes = [s.freezes EXCEPT ![a] = f]
                  /\ t.locks = s.locks /\ t.holds = s.holds /\ t.reserves = s.reserves
         /\ \A f \in Entries :
              LET t == [s EXCEPT !.reserves[a] = f]
              IN  /\ Sound(t) /\ Supply(t) = Supply(s)
                  /\ t.account = s.account /\ t.issuance = s.issuance
                  /\ t.reserves = [s.reserves EXCEPT ![a] = f]
                  /\ t.locks = s.locks /\ t.freezes = s.freezes /\ t.holds = s.holds
         /\ \A i \in HoldReasons, n \in Nat :
              LET t == [s EXCEPT !.holds[a][i] = n]
              IN  /\ Sound(t) /\ Supply(t) = Supply(s)
                  /\ t.account = s.account /\ t.issuance = s.issuance
                  /\ t.holds = [s.holds EXCEPT ![a] = [@ EXCEPT ![i] = n]]
                  /\ t.locks = s.locks /\ t.freezes = s.freezes /\ t.reserves = s.reserves
  <1>1. s \in Ledgers
    BY DEF Sound
  <1>2. ASSUME NEW n \in Nat
        PROVE  LET t == [s EXCEPT !.issuance = n]
               IN  /\ Sound(t) /\ Supply(t) = Supply(s) /\ SideTablesKept(s, t)
                   /\ t.account = s.account /\ t.issuance = n
    <2> DEFINE t == [s EXCEPT !.issuance = n]
    <2>1. /\ t \in Ledgers /\ t.account = s.account /\ t.issuance = n
          /\ t.providers = s.providers /\ t.consumers = s.consumers
          /\ t.locks = s.locks /\ t.freezes = s.freezes
          /\ t.holds = s.holds /\ t.reserves = s.reserves
      BY <1>1 DEF Ledgers
    <2> HIDE DEF t
    <2>2. Sound(t) /\ Supply(t) = Supply(s)
      BY <2>1, SameAccounts
    <2>3. SideTablesKept(s, t)
      BY <2>1 DEF SideTablesKept
    <2> QED BY <2>1, <2>2, <2>3 DEF t
  <1>3. ASSUME NEW f \in [LockIds -> Nat]
        PROVE  LET t == [s EXCEPT !.locks[a] = f]
               IN  /\ Sound(t) /\ Supply(t) = Supply(s)
                   /\ t.account = s.account /\ t.issuance = s.issuance
                   /\ t.locks = [s.locks EXCEPT ![a] = f]
                   /\ t.freezes = s.freezes /\ t.holds = s.holds /\ t.reserves = s.reserves
    <2> DEFINE t == [s EXCEPT !.locks[a] = f]
    <2>1. /\ t \in Ledgers /\ t.account = s.account /\ t.issuance = s.issuance
          /\ t.providers = s.providers /\ t.consumers = s.consumers
          /\ t.locks = [s.locks EXCEPT ![a] = f]
          /\ t.freezes = s.freezes /\ t.holds = s.holds /\ t.reserves = s.reserves
      BY <1>1 DEF Ledgers
    <2> HIDE DEF t
    <2>2. Sound(t) /\ Supply(t) = Supply(s)
      BY <2>1, SameAccounts
    <2> QED BY <2>1, <2>2 DEF t
  <1>4. ASSUME NEW f \in [FreezeIds -> Nat]
        PROVE  LET t == [s EXCEPT !.freezes[a] = f]
               IN  /\ Sound(t) /\ Supply(t) = Supply(s)
                   /\ t.account = s.account /\ t.issuance = s.issuance
                   /\ t.freezes = [s.freezes EXCEPT ![a] = f]
                   /\ t.locks = s.locks /\ t.holds = s.holds /\ t.reserves = s.reserves
    <2> DEFINE t == [s EXCEPT !.freezes[a] = f]
    <2>1. /\ t \in Ledgers /\ t.account = s.account /\ t.issuance = s.issuance
          /\ t.providers = s.providers /\ t.consumers = s.consumers
          /\ t.freezes = [s.freezes EXCEPT ![a] = f]
          /\ t.locks = s.locks /\ t.holds = s.holds /\ t.reserves = s.reserves
      BY <1>1 DEF Ledgers
    <2> HIDE DEF t
    <2>2. Sound(t) /\ Supply(t) = Supply(s)
      BY <2>1, SameAccounts
    <2> QED BY <2>1, <2>2 DEF t
  <1>5. ASSUME NEW f \in Entries
        PROVE  LET t == [s EXCEPT !.reserves[a] = f]
               IN  /\ Sound(t) /\ Supply(t) = Supply(s)
                   /\ t.account = s.account /\ t.issuance = s.issuance
                   /\ t.reserves = [s.reserves EXCEPT ![a] = f]
                   /\ t.locks = s.locks /\ t.freezes = s.freezes /\ t.holds = s.holds
    <2> DEFINE t == [s EXCEPT !.reserves[a] = f]
    <2>1. /\ t \in Ledgers /\ t.account = s.account /\ t.issuance = s.issuance
          /\ t.providers = s.providers /\ t.consumers = s.consumers
          /\ t.reserves = [s.reserves EXCEPT ![a] = f]
          /\ t.locks = s.locks /\ t.freezes = s.freezes /\ t.holds = s.holds
      BY <1>1 DEF Ledgers
    <2> HIDE DEF t
    <2>2. Sound(t) /\ Supply(t) = Supply(s)
      BY <2>1, SameAccounts
    <2> QED BY <2>1, <2>2 DEF t
  <1>6. ASSUME NEW i \in HoldReasons, NEW n \in Nat
        PROVE  LET t == [s EXCEPT !.holds[a][i] = n]
               IN  /\ Sound(t) /\ Supply(t) = Supply(s)
                   /\ t.account = s.account /\ t.issuance = s.issuance
                   /\ t.holds = [s.holds EXCEPT ![a] = [@ EXCEPT ![i] = n]]
                   /\ t.locks = s.locks /\ t.freezes = s.freezes /\ t.reserves = s.reserves
    <2> DEFINE t == [s EXCEPT !.holds[a][i] = n]
    <2>1. /\ t \in Ledgers /\ t.account = s.account /\ t.issuance = s.issuance
          /\ t.providers = s.providers /\ t.consumers = s.consumers
          /\ t.holds = [s.holds EXCEPT ![a] = [@ EXCEPT ![i] = n]]
          /\ t.locks = s.locks /\ t.freezes = s.freezes /\ t.reserves = s.reserves
      BY <1>1 DEF Ledgers
    <2> HIDE DEF t
    <2>2. Sound(t) /\ Supply(t) = Supply(s)
      BY <2>1, SameAccounts
    <2> QED BY <2>1, <2>2 DEF t
  <1>7. QED
    BY <1>2, <1>3, <1>4, <1>5, <1>6

\* What MutateAccount settles with the deposit in place, or with nothing at all,
\* is a write without dust.
LEMMA SettledWrites ==
  ASSUME NEW s, Sound(s), NEW a \in Accounts, NEW d \in Data, d.free >= ED \/ d = NoAccount
  PROVE  Writes(s, Settled(s, a, d), a, d)
  <1> DEFINE t == Settled(s, a, d)
  <1>0. d.free >= ED \/ ~Held(d)
    BY DataParts
  <1>1. /\ Sound(t) /\ t.issuance = s.issuance /\ SideTablesKept(s, t)
        /\ t.account = [s.account EXCEPT ![a] = Written(d)]
        /\ Written(d) \in Data
        /\ Written(d).reserved = d.reserved /\ Written(d).frozen = d.frozen
    BY <1>0, SettledSound
  <1>2. s \in Ledgers /\ t \in Ledgers
    BY <1>1 DEF Sound
  <1> HIDE DEF t
  <1>3. t.account[a] = Written(d) /\ Written(d) = d
    BY <1>1, <1>2, LedgerParts DEF Written
  <1>4. Supply(t) = Supply(s) - Total(s.account[a]) + Total(d)
    BY <1>1, <1>2, <1>3, SupplyChange
  <1>5. /\ Supply(s) \in Nat /\ Supply(t) \in Nat /\ s.issuance \in Nat
        /\ Total(s.account[a]) \in Nat /\ Total(d) \in Nat
    BY <1>2, SupplyType, LedgerParts, DataParts
  <1>6. Gap(t) = Gap(s) + Total(s.account[a]) - Total(d)
    BY <1>1, <1>4, <1>5 DEF Gap
  <1>7. Writes(s, t, a, d)
    BY <1>1, <1>3, <1>6 DEF Writes
  <1>8. QED
    BY <1>7 DEF t

\* mutate_account_handling_dust (lib.rs:865-876): a write, whose dust leaves the
\* issuance with the balance; it is refused only as MutateAccount refuses it.
LEMMA MutateWrites ==
  ASSUME NEW s, Sound(s), NEW a \in Accounts, NEW d \in Data,
         d.free < ED => d.free <= s.issuance
  PROVE  /\ Mutate(s, a, d).ok <=> d.free >= ED \/ ~Held(d)
         /\ Mutate(s, a, d).ok => Writes(s, Mutate(s, a, d).s, a, d)
         /\ ~Mutate(s, a, d).ok => Mutate(s, a, d).s = s
  <1>1. /\ s \in Ledgers /\ s.issuance \in Nat /\ ED \in Nat /\ d.free \in Nat
        /\ Supply(s) \in Nat /\ Total(s.account[a]) \in Nat /\ Total(s.account[a]) <= Supply(s)
        /\ Total(d) \in Nat
    <2>1. s \in Ledgers
      BY DEF Sound
    <2> QED BY <2>1, LedgerParts, SupplyType, DataParts, BalancesAssumption
  <1>2. CASE d.free < ED /\ Held(d)
    <2>1. MutateAccount(s, a, d) = [ok |-> FALSE, s |-> s, dust |-> 0]
      BY <1>1, <1>2, Mutating DEF Refused
    <2>2. s = [s EXCEPT !.issuance = s.issuance]
      BY <1>1 DEF Ledgers
    <2>3. Less(s.issuance, 0) = s.issuance
      BY <1>1 DEF Less
    <2>4. /\ Mutate(s, a, d).ok = FALSE
          /\ Mutate(s, a, d).s = [s EXCEPT !.issuance = Less(s.issuance, 0)]
      BY <2>1 DEF Mutate, HandlingDust
    <2> QED BY <1>1, <1>2, <2>2, <2>3, <2>4
  <1>3. CASE d.free >= ED \/ ~Held(d)
    <2> DEFINE dust == IF d.free >= ED THEN 0 ELSE d.free
               u == Settled(s, a, d)
               t == [u EXCEPT !.issuance = Less(u.issuance, dust)]
    <2>1. MutateAccount(s, a, d) = [ok |-> TRUE, dust |-> dust, s |-> u]
      BY <1>3, Mutating
    <2>2. Mutate(s, a, d).ok = TRUE /\ Mutate(s, a, d).s = t
      <3> HIDE DEF u, dust
      <3> QED BY <2>1 DEF Mutate, HandlingDust
    <2>3. /\ Sound(u) /\ u.issuance = s.issuance /\ SideTablesKept(s, u)
          /\ u.account = [s.account EXCEPT ![a] = Written(d)]
          /\ Written(d) \in Data
          /\ Written(d).reserved = d.reserved /\ Written(d).frozen = d.frozen
      BY <1>3, SettledSound
    <2>4. dust \in Nat /\ dust <= s.issuance /\ Less(u.issuance, dust) = s.issuance - dust
      BY <1>1, <2>3 DEF Less
    <2>5. s.issuance - dust \in Nat
      BY <1>1, <2>4
    <2> HIDE DEF u
    <2>6. /\ Sound(t) /\ Supply(t) = Supply(u) /\ SideTablesKept(u, t)
          /\ t.account = u.account /\ t.issuance = s.issuance - dust
      BY <2>3, <2>4, <2>5, OtherParts
    <2>7. u \in Ledgers /\ t \in Ledgers
      BY <2>3, <2>6 DEF Sound
    <2>8. t.account[a] = Written(d)
      BY <1>1, <2>3, <2>6, LedgerParts
    <2>9. Supply(u) = Supply(s) - Total(s.account[a]) + Total(Written(d))
      BY <1>1, <2>3, <2>7, SupplyChange
    <2>10. Total(Written(d)) = Total(d) - dust /\ Total(Written(d)) \in Nat
      <3>1. CASE d.free >= ED
        BY <1>1, <3>1 DEF Written
      <3>2. CASE ~(d.free >= ED)
        <4>1. Total(d) = d.free
          BY <1>1, <1>3, <3>2 DEF Total, Held
        <4>2. Total(Written(d)) = 0
          BY <3>2, DataParts DEF Written
        <4> QED BY <1>1, <3>2, <4>1, <4>2
      <3> QED BY <3>1, <3>2
    <2> HIDE DEF t, dust
    <2>11. Gap(t) = Gap(s) + Total(s.account[a]) - Total(d)
      BY <1>1, <2>4, <2>6, <2>9, <2>10 DEF Gap
    <2>12. Writes(s, t, a, d)
      BY <2>3, <2>6, <2>8, <2>11 DEF Writes, SideTablesKept
    <2> QED BY <1>3, <2>2, <2>12
  <1>4. QED
    BY <1>1, <1>2, <1>3

-----------------------------------------------------------------------------
(* Taking from and adding to a free balance                                    *)

Debited(s, a, v)  == [s.account[a] EXCEPT !.free = @ - v]
Credited(s, a, v) == [s.account[a] EXCEPT !.free = @ + v]

\* What a debit and a credit leave of the data.
LEMMA MovedParts ==
  ASSUME NEW s \in Ledgers, NEW a \in Accounts, NEW v \in Nat
  PROVE  /\ s.account[a] \in Data
         /\ Credited(s, a, v) \in Data
         /\ Credited(s, a, v).free = s.account[a].free + v
         /\ Credited(s, a, v).reserved = s.account[a].reserved
         /\ Credited(s, a, v).frozen = s.account[a].frozen
         /\ Total(Credited(s, a, v)) = Total(s.account[a]) + v
         /\ v <= s.account[a].free =>
              /\ Debited(s, a, v) \in Data
              /\ Debited(s, a, v).free = s.account[a].free - v
              /\ Debited(s, a, v).reserved = s.account[a].reserved
              /\ Debited(s, a, v).frozen = s.account[a].frozen
              /\ Total(Debited(s, a, v)) = Total(s.account[a]) - v
  <1>1. s.account[a] \in Data
    BY LedgerParts
  <1>2. QED
    BY <1>1 DEF Credited, Debited, Data, Total

\* reducible_balance (impl_fungible.rs:49-74) is part of the free balance, leaves
\* what is frozen to a polite caller and the deposit where it must stay.
LEMMA ReducibleOf ==
  ASSUME NEW s, Sound(s), NEW a \in Accounts,
         NEW preservation \in {"Expendable", "Protect", "Preserve"}, NEW polite \in BOOLEAN
  PROVE  LET d == s.account[a]
             most == Reducible(s, a, preservation, polite)
         IN  /\ most \in Nat /\ most <= d.free
             /\ polite /\ most > 0 => d.free - most + d.reserved >= d.frozen
             /\ preservation # "Expendable" /\ most > 0 => d.free - most >= ED
  <1> DEFINE d == s.account[a]
             frozen  == IF polite THEN Less(d.frozen, d.reserved) ELSE 0
             needsED == \/ preservation = "Preserve"
                        \/ preservation = "Protect" /\ d.free # 0 /\ s.providers[a] = 1
                        \/ preservation = "Expendable" /\ d.free # 0 /\ ~CanDecProvider(s, a)
             keep    == IF needsED THEN Greatest(frozen, ED) ELSE frozen
  <1>1. /\ d.free \in Nat /\ d.reserved \in Nat /\ d.frozen \in Nat /\ ED \in Nat
        /\ d.free < ED => d.free = 0
        /\ s.providers[a] = IF d.free >= ED THEN 1 ELSE 0
    BY SoundAt, DataParts, BalancesAssumption
  <1>2. frozen \in Nat /\ (polite => frozen + d.reserved >= d.frozen)
    BY <1>1 DEF Less
  <1>3. keep \in Nat /\ keep >= frozen /\ (needsED => keep >= ED)
    BY <1>1, <1>2 DEF Greatest
  <1>4. preservation # "Expendable" /\ d.free > 0 => needsED
    BY <1>1
  <1>5. Reducible(s, a, preservation, polite) = Less(d.free, keep)
    BY DEF Reducible
  <1> HIDE DEF keep, needsED, frozen
  <1>6. QED
    BY <1>1, <1>2, <1>3, <1>4, <1>5 DEF Less

\* decrease_balance (frame_support's Unbalanced, over write_balance at
\* impl_fungible.rs:143-185) writes the debited data, if it is not refused.
LEMMA Decreasing ==
  ASSUME NEW s, Sound(s), Gap(s) >= 0, NEW a \in Accounts, NEW v \in Nat,
         NEW preservation \in {"Expendable", "Protect", "Preserve"}, NEW polite \in BOOLEAN,
         v <= Reducible(s, a, preservation, polite),
         DecreaseBalance(s, a, v, preservation, polite).ok
  PROVE  /\ v <= s.account[a].free
         /\ Debited(s, a, v).free >= ED \/ ~Held(Debited(s, a, v))
         /\ Writes(s, DecreaseBalance(s, a, v, preservation, polite).s, a, Debited(s, a, v))
  <1> DEFINE d == s.account[a]
             most == Reducible(s, a, preservation, polite)
             r == DecreaseBalance(s, a, v, preservation, polite)
             w == Debited(s, a, v)
  <1>1. s \in Ledgers /\ d \in Data /\ d.free \in Nat /\ d.reserved \in Nat
    BY SoundAt, DataParts
  <1>2. most \in Nat /\ most <= d.free
    BY ReducibleOf
  <1>3. v <= d.free /\ Least(v, most) = v
    BY <1>1, <1>2 DEF Least
  <1>4. w \in Data /\ w.free = d.free - v
    BY <1>1, <1>3, MovedParts
  <1>5. r = WriteBalance(s, a, d.free - v)
    BY <1>3 DEF DecreaseBalance
  <1>6. r = Mutate(s, a, w) \/ r = Refused(s)
    BY <1>5 DEF WriteBalance, Debited
  <1>7. Refused(s).ok = FALSE
    BY DEF Refused
  <1>8. r = Mutate(s, a, w)
    BY <1>6, <1>7
  <1>9. w.free <= s.issuance
    <2>1. Total(d) <= Supply(s) /\ Supply(s) \in Nat /\ s.issuance \in Nat
      BY <1>1, SupplyType, LedgerParts
    <2> QED BY <1>1, <1>3, <1>4, <2>1 DEF Gap, Total
  <1> HIDE DEF r, w
  <1>10. (w.free >= ED \/ ~Held(w)) /\ Writes(s, r.s, a, w)
    <2>1. Mutate(s, a, w).ok
      BY <1>8 DEF r
    <2>2. /\ Mutate(s, a, w).ok <=> w.free >= ED \/ ~Held(w)
          /\ Mutate(s, a, w).ok => Writes(s, Mutate(s, a, w).s, a, w)
      BY <1>4, <1>9, MutateWrites
    <2> QED BY <1>8, <2>1, <2>2
  <1>11. QED
    BY <1>3, <1>10 DEF r, w

\* increase_balance is refused only below the existential deposit.
LEMMA Increasing ==
  ASSUME NEW s, Sound(s), NEW a \in Accounts, NEW v \in Nat
  PROVE  /\ IncreaseBalance(s, a, v).ok <=> s.account[a].free + v >= ED
         /\ IncreaseBalance(s, a, v).ok =>
              Writes(s, IncreaseBalance(s, a, v).s, a, Credited(s, a, v))
         /\ ~IncreaseBalance(s, a, v).ok => IncreaseBalance(s, a, v).s = s
  <1> DEFINE d == s.account[a]
             w == Credited(s, a, v)
  <1>1. s \in Ledgers /\ d.free \in Nat /\ ED \in Nat
    BY SoundAt, DataParts, BalancesAssumption
  <1>2. w \in Data /\ w.free = d.free + v
    BY <1>1, MovedParts
  <1>3. CASE d.free + v < ED
    BY <1>1, <1>3 DEF IncreaseBalance, Refused
  <1>4. CASE d.free + v >= ED
    <2>1. Less(d.free, d.free + v) = 0
      BY <1>1 DEF Less
    <2> DEFINE most == Reducible(s, a, "Expendable", FALSE)
    <2>2. most \in Nat
      BY ReducibleOf
    <2>3. IncreaseBalance(s, a, v) = WriteBalance(s, a, d.free + v)
      BY <1>1, <1>4 DEF IncreaseBalance
    <2>4. WriteBalance(s, a, d.free + v) = Mutate(s, a, w)
      <3>1. w = [s.account[a] EXCEPT !.free = d.free + v]
        BY DEF Credited
      <3>2. WriteBalance(s, a, d.free + v) =
              IF Less(d.free, d.free + v) <= most THEN Mutate(s, a, w) ELSE Refused(s)
        BY <3>1 DEF WriteBalance
      <3> HIDE DEF w, most
      <3> QED BY <2>1, <2>2, <3>2
    <2>5. w.free >= ED /\ ~(w.free < ED)
      BY <1>1, <1>2, <1>4
    <2> HIDE DEF w
    <2>6. /\ Mutate(s, a, w).ok <=> w.free >= ED \/ ~Held(w)
          /\ Mutate(s, a, w).ok => Writes(s, Mutate(s, a, w).s, a, w)
      BY <1>2, <2>5, MutateWrites
    <2> QED BY <1>4, <2>3, <2>4, <2>5, <2>6 DEF w
  <1>5. QED
    BY <1>1, <1>3, <1>4

-----------------------------------------------------------------------------
(* What the calls have in common: nothing that is frozen changes, the spare    *)
(* reserves stay, and no owner gets below what is frozen.                      *)

Keeps(s, t) ==
  /\ Sound(t)
  /\ t.locks = s.locks /\ t.freezes = s.freezes
  /\ \A x \in Accounts : t.account[x].frozen = s.account[x].frozen

SparesShift(s, t, a, d) ==
  \A x \in Accounts :
     Spare(t, x) = Spare(s, x) + IF x = a THEN d.reserved - s.account[a].reserved ELSE 0

SparesKept(s, t) == \A x \in Accounts : Spare(t, x) = Spare(s, x)

Covered(s, t) ==
  \A x \in Accounts : Total(t.account[x]) >= Least(Total(s.account[x]), s.account[x].frozen)

(* What a call keeps that neither issues nor burns.                            *)
Neutral(s, t) ==
  Keeps(s, t) /\ SparesKept(s, t) /\ Gap(t) = Gap(s) /\ Covered(s, t)

\* The holds and the named reserves of an account have sums.
LEMMA SpareType ==
  ASSUME NEW s \in Ledgers, NEW a \in Accounts
  PROVE  /\ Sum(s.holds[a]) \in Nat /\ Sum(s.reserves[a]) \in Nat
         /\ s.account[a].reserved \in Nat /\ Spare(s, a) \in Int
  <1>1. s.holds[a] \in [HoldReasons -> Nat] /\ s.reserves[a] \in Entries /\ s.account[a] \in Data
    BY LedgerParts
  <1>2. IsFiniteSet(HoldReasons) /\ IsFiniteSet(ReserveIds)
    BY BalancesAssumption
  <1>3. PICK S \in SUBSET ReserveIds : s.reserves[a] \in [S -> Nat]
    BY <1>1 DEF Entries, NameSets
  <1>4. IsFiniteSet(S)
    BY <1>2, FS_Subset
  <1>5. Sum(s.holds[a]) \in Nat
    BY <1>1, <1>2, SumType
  <1>6. Sum(s.reserves[a]) \in Nat
    BY <1>3, <1>4, SumType
  <1>7. s.account[a].reserved \in Nat
    BY <1>1, DataParts
  <1>8. QED
    BY <1>5, <1>6, <1>7 DEF Spare

\* A write of data with the same frozen amount.
LEMMA WritesKeeps ==
  ASSUME NEW s, Sound(s), NEW t, NEW a \in Accounts, NEW d \in Data, Writes(s, t, a, d),
         d.frozen = s.account[a].frozen
  PROVE  /\ Keeps(s, t) /\ SparesShift(s, t, a, d)
         /\ \A x \in Accounts \ {a} : t.account[x] = s.account[x]
         /\ t.account[a] = Written(d)
  <1>1. /\ s \in Ledgers /\ Sound(t) /\ t \in Ledgers
        /\ t.account = [s.account EXCEPT ![a] = Written(d)]
        /\ t.account[a].reserved = d.reserved /\ t.account[a].frozen = d.frozen
        /\ t.locks = s.locks /\ t.freezes = s.freezes
        /\ t.holds = s.holds /\ t.reserves = s.reserves
    BY DEF Writes, Sound, SideTablesKept
  <1>2. (\A x \in Accounts \ {a} : t.account[x] = s.account[x]) /\ t.account[a] = Written(d)
    BY <1>1, LedgerParts
  <1>3. \A x \in Accounts : t.account[x].frozen = s.account[x].frozen
    BY <1>1, <1>2
  <1>4. ASSUME NEW x \in Accounts
        PROVE  Spare(t, x) = Spare(s, x) + IF x = a THEN d.reserved - s.account[a].reserved ELSE 0
    <2>1. /\ Sum(s.holds[x]) \in Nat /\ Sum(s.reserves[x]) \in Nat
          /\ s.account[x].reserved \in Nat /\ t.account[x].reserved \in Nat
      BY <1>1, SpareType
    <2>2. t.holds[x] = s.holds[x] /\ t.reserves[x] = s.reserves[x]
      BY <1>1
    <2>3. CASE x = a
      BY <1>1, <2>1, <2>2, <2>3 DEF Spare
    <2>4. CASE x # a
      <3>1. t.account[x] = s.account[x]
        BY <1>2, <2>4
      <3> QED BY <2>1, <2>2, <2>4, <3>1 DEF Spare
    <2> QED BY <2>3, <2>4
  <1>5. QED
    BY <1>1, <1>2, <1>3, <1>4 DEF Keeps, SparesShift

\* A write that leaves the account what is frozen.
LEMMA WritesCovered ==
  ASSUME NEW s, Sound(s), NEW t, NEW a \in Accounts, NEW d \in Data, Writes(s, t, a, d),
         d.frozen = s.account[a].frozen, d.free >= ED \/ ~Held(d),
         Total(d) >= Least(Total(s.account[a]), s.account[a].frozen)
  PROVE  Covered(s, t)
  <1>1. /\ s \in Ledgers
        /\ \A x \in Accounts \ {a} : t.account[x] = s.account[x]
        /\ t.account[a] = Written(d)
    BY WritesKeeps DEF Sound
  <1>2. ASSUME NEW x \in Accounts
        PROVE  Total(t.account[x]) >= Least(Total(s.account[x]), s.account[x].frozen)
    <2>1. /\ Total(s.account[x]) \in Nat /\ s.account[x].frozen \in Nat
          /\ d.free \in Nat /\ ED \in Nat
      BY <1>1, LedgerParts, DataParts, BalancesAssumption
    <2>2. CASE x # a
      BY <1>1, <2>1, <2>2 DEF Least
    <2>3. CASE x = a /\ d.free >= ED
      BY <1>1, <2>3 DEF Written
    <2>4. CASE x = a /\ ~(d.free >= ED)
      <3>1. s.account[a].frozen = 0
        BY <2>1, <2>4 DEF Held
      <3>2. Total(t.account[x]) = 0
        BY <1>1, <2>4, DataParts DEF Written
      <3> QED BY <2>1, <2>4, <3>1, <3>2 DEF Least
    <2> QED BY <2>2, <2>3, <2>4
  <1>3. QED
    BY <1>2 DEF Covered

(* What a polite caller may take.                                              *)
PoliteMost(s, a, preservation) == Reducible(s, a, preservation, TRUE)

\* Two operations that leave what is frozen, one after the other.
LEMMA CoveredTwice ==
  ASSUME NEW s \in Ledgers, NEW t \in Ledgers, NEW u \in Ledgers,
         Keeps(s, t), Covered(s, t), Covered(t, u)
  PROVE  Covered(s, u)
  <1> SUFFICES ASSUME NEW z \in Accounts
               PROVE  Total(u.account[z]) >= Least(Total(s.account[z]), s.account[z].frozen)
    BY DEF Covered
  <1>1. /\ Total(s.account[z]) \in Nat /\ s.account[z].frozen \in Nat
        /\ Total(t.account[z]) \in Nat /\ Total(u.account[z]) \in Nat
    BY LedgerParts, DataParts
  <1>2. /\ Total(t.account[z]) >= Least(Total(s.account[z]), s.account[z].frozen)
        /\ Total(u.account[z]) >= Least(Total(t.account[z]), t.account[z].frozen)
    BY DEF Covered
  <1>3. t.account[z].frozen = s.account[z].frozen
    BY DEF Keeps
  <1>4. QED
    BY <1>1, <1>2, <1>3 DEF Least

\* can_withdraw (impl_fungible.rs:107-137) admits only what may be taken.
LEMMA Withdrawable ==
  ASSUME NEW s, Sound(s), NEW a \in Accounts, NEW v \in Nat,
         NEW preservation \in {"Expendable", "Preserve"},
         CanWithdraw(s, a, v, preservation # "Expendable")
  PROVE  LET d == s.account[a]
         IN  /\ v <= PoliteMost(s, a, preservation)
             /\ v <= d.free
             /\ v > 0 => d.free - v + d.reserved >= d.frozen
             /\ v > 0 /\ preservation = "Preserve" => d.free - v >= ED
  <1> DEFINE d == s.account[a]
             frozen  == Less(d.frozen, d.reserved)
             mostE   == PoliteMost(s, a, "Expendable")
             mostP   == PoliteMost(s, a, "Preserve")
  <1>1. /\ d.free \in Nat /\ d.reserved \in Nat /\ d.frozen \in Nat /\ ED \in Nat
    BY SoundAt, DataParts, BalancesAssumption
  <1>2. mostE \in Nat /\ mostP \in Nat
    BY ReducibleOf DEF PoliteMost
  <1>3. CASE v = 0
    BY <1>1, <1>2, <1>3
  <1>4. CASE v > 0
    <2>1. v # 0
      BY <1>4
    <2>2. /\ v <= d.free /\ v <= mostE
          /\ d.free - v + d.reserved >= d.frozen
          /\ d.free - v < ED => ~(preservation # "Expendable")
      BY <2>1, Zenon DEF CanWithdraw, PoliteMost
    <2>3. mostP = Less(d.free, Greatest(frozen, ED))
      BY DEF Reducible, PoliteMost
    <2>4. ASSUME preservation = "Preserve" PROVE v <= mostP /\ d.free - v >= ED
      <3>1. d.free - v >= ED
        BY <1>1, <2>2, <2>4
      <3>2. frozen \in Nat /\ d.free - v >= frozen
        BY <1>1, <2>2 DEF Less
      <3> QED BY <1>1, <2>2, <2>3, <3>1, <3>2 DEF Less, Greatest
    <2> QED BY <1>1, <1>4, <2>2, <2>4
  <1>5. QED
    BY <1>1, <1>3, <1>4

(* What every operation of the ledger returns.                                 *)
IsResult(r) == r = [ok |-> r.ok, s |-> r.s, dust |-> r.dust]

\* All operations return a verdict, a ledger and the dust.
LEMMA Results ==
  ASSUME NEW s, NEW a, NEW d
  PROVE  /\ IsResult(Refused(s)) /\ Refused(s).ok = FALSE /\ Refused(s).s = s
         /\ IsResult(MutateAccount(s, a, d)) /\ IsResult(Mutate(s, a, d))
  <1>1. IsResult(Refused(s)) /\ Refused(s).ok = FALSE /\ Refused(s).s = s
    BY DEF IsResult, Refused
  <1>2. IsResult(MutateAccount(s, a, d))
    <2>1. PICK ok, t, dust : \/ MutateAccount(s, a, d) = Refused(s)
                             \/ MutateAccount(s, a, d) = [ok |-> ok, dust |-> dust, s |-> t]
      BY DEF MutateAccount
    <2> QED BY <1>1, <2>1 DEF IsResult
  <1>3. ASSUME NEW r PROVE IsResult(HandlingDust(r))
    BY DEF IsResult, HandlingDust
  <1>4. QED
    BY <1>1, <1>2, <1>3 DEF Mutate

\* The same for the balance writes.
LEMMA WriteResults ==
  ASSUME NEW s, NEW a, NEW v
  PROVE  IsResult(WriteBalance(s, a, v)) /\ IsResult(IncreaseBalance(s, a, v))
  <1>1. IsResult(WriteBalance(s, a, v))
    <2>1. PICK d : WriteBalance(s, a, v) = Mutate(s, a, d) \/ WriteBalance(s, a, v) = Refused(s)
      BY DEF WriteBalance
    <2> QED BY <2>1, Results
  <1>2. IsResult(IncreaseBalance(s, a, v))
    <2>1. PICK w : \/ IncreaseBalance(s, a, v) = WriteBalance(s, a, w)
                   \/ IncreaseBalance(s, a, v) = Refused(s)
      BY DEF IncreaseBalance
    <2>2. \A y : IsResult(WriteBalance(s, a, y))
      <3> TAKE y
      <3>1. PICK d : WriteBalance(s, a, y) = Mutate(s, a, d) \/ WriteBalance(s, a, y) = Refused(s)
        BY DEF WriteBalance
      <3> QED BY <3>1, Results
    <2> QED BY <2>1, <2>2, Results
  <1>3. QED
    BY <1>1, <1>2

\* A result may be given another ledger or another verdict.
LEMMA ResultChange ==
  ASSUME NEW r, IsResult(r), NEW t
  PROVE  /\ [r EXCEPT !.s = t].s = t /\ [r EXCEPT !.s = t].ok = r.ok
         /\ [r EXCEPT !.ok = t].s = r.s /\ [r EXCEPT !.ok = t].ok = t
         /\ IsResult([r EXCEPT !.s = t]) /\ IsResult([r EXCEPT !.ok = t])
  BY DEF IsResult

(* The transfer's write to the giver.                                          *)
Taken(s, a, v, preservation) == DecreaseBalance(s, a, v, preservation, TRUE)

\* Decreasing, for a polite caller.
LEMMA Taking ==
  ASSUME NEW s, Sound(s), Gap(s) >= 0, NEW a \in Accounts, NEW v \in Nat,
         NEW preservation \in {"Expendable", "Protect", "Preserve"},
         v <= PoliteMost(s, a, preservation), Taken(s, a, v, preservation).ok
  PROVE  /\ v <= s.account[a].free
         /\ Debited(s, a, v).free >= ED \/ ~Held(Debited(s, a, v))
         /\ Writes(s, Taken(s, a, v, preservation).s, a, Debited(s, a, v))
  <1>1. TRUE \in BOOLEAN
    OBVIOUS
  <1>2. /\ v <= Reducible(s, a, preservation, TRUE)
        /\ DecreaseBalance(s, a, v, preservation, TRUE).ok
    BY Zenon DEF PoliteMost, Taken
  <1>3. /\ v <= s.account[a].free
        /\ Debited(s, a, v).free >= ED \/ ~Held(Debited(s, a, v))
        /\ Writes(s, DecreaseBalance(s, a, v, preservation, TRUE).s, a, Debited(s, a, v))
    BY <1>1, <1>2, Decreasing, Zenon
  <1>4. QED
    BY <1>3, Zenon DEF Taken

(* What a transfer between two accounts writes.                                *)
Transfers(s, t, a, b, v, preservation) ==
  /\ v <= s.account[a].free
  /\ Debited(s, a, v).free >= ED \/ ~Held(Debited(s, a, v))
  /\ v > 0 => Credited(s, b, v).free >= ED
  /\ v > 0 /\ preservation = "Preserve" => Debited(s, a, v).free >= ED
  /\ t.account = [s.account EXCEPT ![a] = Written(Debited(s, a, v)),
                                   ![b] = Written(Credited(s, b, v))]
  /\ SideTablesKept(s, t)

\* transfer (frame_support's Mutate over the pallet's Inspect and Unbalanced):
\* what leaves one account reaches the other; only dust leaves the issuance.
LEMMA Moving ==
  ASSUME NEW s, Sound(s), Gap(s) >= 0, NEW a \in Accounts, NEW b \in Accounts, a # b,
         NEW v \in Nat, NEW preservation \in {"Expendable", "Preserve"},
         Moved(s, a, b, v, preservation).ok
  PROVE  LET t == Moved(s, a, b, v, preservation).s
         IN  Transfers(s, t, a, b, v, preservation) /\ Neutral(s, t)
  <1> DEFINE x == Taken(s, a, v, preservation)
             y == IncreaseBalance(x.s, b, v)
             m == Moved(s, a, b, v, preservation)
             t == m.s
  <1>1. /\ CanWithdraw(s, a, v, preservation # "Expendable")
        /\ CanDeposit(s, b, v)
        /\ x.ok
        /\ m = [y EXCEPT !.ok = TRUE]
    <2>1. m = IF ~CanWithdraw(s, a, v, preservation # "Expendable") \/ ~CanDeposit(s, b, v)
              THEN Refused(s)
              ELSE IF a = b THEN [ok |-> TRUE, s |-> s, dust |-> 0]
              ELSE IF ~x.ok THEN x
              ELSE [y EXCEPT !.ok = TRUE]
      BY Zenon DEF Moved, Taken
    <2>2. Refused(s).ok = FALSE
      BY DEF Refused
    <2> HIDE DEF x, y, m
    <2>3. m.ok
      BY DEF m
    <2> QED BY <2>1, <2>2, <2>3
  <1>2. /\ v <= PoliteMost(s, a, preservation)
        /\ v <= s.account[a].free
        /\ v > 0 => s.account[a].free - v + s.account[a].reserved >= s.account[a].frozen
        /\ v > 0 /\ preservation = "Preserve" => s.account[a].free - v >= ED
    BY <1>1, Withdrawable
  <1> DEFINE d == Debited(s, a, v)
             e == Credited(s, b, v)
  <1>3. (d.free >= ED \/ ~Held(d)) /\ Writes(s, x.s, a, d)
    BY <1>1, <1>2, Taking
  <1>4. /\ s \in Ledgers /\ s.account[a] \in Data /\ s.account[b] \in Data
        /\ d \in Data /\ d.free = s.account[a].free - v /\ d.reserved = s.account[a].reserved
        /\ d.frozen = s.account[a].frozen /\ Total(d) = Total(s.account[a]) - v
        /\ e \in Data /\ e.free = s.account[b].free + v /\ e.reserved = s.account[b].reserved
        /\ e.frozen = s.account[b].frozen /\ Total(e) = Total(s.account[b]) + v
    BY <1>2, SoundAt, MovedParts
  <1> HIDE DEF d, x
  <1>5. /\ Keeps(s, x.s) /\ Sound(x.s) /\ x.s \in Ledgers
        /\ x.s.account[b] = s.account[b]
        /\ x.s.account = [s.account EXCEPT ![a] = Written(d)]
        /\ SideTablesKept(s, x.s)
        /\ Gap(x.s) = Gap(s) + Total(s.account[a]) - Total(d)
        /\ \A z \in Accounts : Spare(x.s, z) = Spare(s, z)
    <2>1. /\ Keeps(s, x.s) /\ SparesShift(s, x.s, a, d)
          /\ \A z \in Accounts \ {a} : x.s.account[z] = s.account[z]
      <3>1. /\ Sound(s) /\ a \in Accounts
            /\ d \in Data /\ d.frozen = s.account[a].frozen /\ Writes(s, x.s, a, d)
        BY <1>3, <1>4
      <3> QED BY ONLY <3>1, WritesKeeps
    <2>2. /\ Sound(x.s) /\ x.s \in Ledgers /\ SideTablesKept(s, x.s)
          /\ x.s.account = [s.account EXCEPT ![a] = Written(d)]
          /\ Gap(x.s) = Gap(s) + Total(s.account[a]) - Total(d)
      BY <1>3 DEF Writes, Sound
    <2>3. \A z \in Accounts : Spare(s, z) \in Int /\ s.account[z].reserved \in Nat
      BY <1>4, SpareType
    <2> QED BY <1>4, <2>1, <2>2, <2>3 DEF SparesShift
  <1>6. /\ y.ok <=> x.s.account[b].free + v >= ED
        /\ y.ok => Writes(x.s, y.s, b, Credited(x.s, b, v))
        /\ ~y.ok => y.s = x.s
    BY <1>5, Increasing
  <1>7. Credited(x.s, b, v) = e
    BY <1>5 DEF Credited
  <1>8. t = y.s
    <2>1. IsResult(y)
      BY WriteResults
    <2> HIDE DEF y, m
    <2> QED BY <1>1, <2>1, ResultChange
  <1>9. v > 0 => e.free >= ED
    BY <1>1, <1>4 DEF CanDeposit
  <1>10. v <= s.account[a].free
    BY <1>2
  <1>11. v > 0 /\ preservation = "Preserve" => d.free >= ED
    BY <1>2, <1>4
  <1>12. Total(d) >= Least(Total(s.account[a]), s.account[a].frozen)
    BY <1>2, <1>4, DataParts DEF Least, Total
  <1>13. Covered(s, x.s)
    <2>1. d \in Data /\ d.frozen = s.account[a].frozen /\ Writes(s, x.s, a, d)
      BY <1>3, <1>4
    <2> QED BY <1>3, <1>12, <2>1, WritesCovered
  <1> HIDE DEF e, y, t
  <1>14. /\ Sound(y.s) /\ SideTablesKept(x.s, y.s)
         /\ y.s.account = [x.s.account EXCEPT ![b] = Written(e)]
         /\ Gap(y.s) = Gap(x.s) - v
         /\ Keeps(x.s, y.s) /\ SparesKept(x.s, y.s)
         /\ Covered(x.s, y.s)
    <2>1. Total(s.account[b]) \in Nat /\ s.account[b].frozen \in Nat
      BY <1>4, DataParts
    <2>2. CASE y.ok
      <3>1. Writes(x.s, y.s, b, e) /\ e.frozen = x.s.account[b].frozen
        BY <1>4, <1>5, <1>6, <1>7, <2>2
      <3>2. Keeps(x.s, y.s) /\ SparesShift(x.s, y.s, b, e)
        <4>1. Sound(x.s) /\ e \in Data
          BY <1>4, <1>5
        <4> QED BY <3>1, <4>1, WritesKeeps
      <3>3. e.free >= ED
        <4>1. y.ok <=> s.account[b].free + v >= ED
          BY <1>5, <1>6
        <4> QED BY <1>4, <2>2, <4>1
      <3>4. Total(e) >= Least(Total(x.s.account[b]), x.s.account[b].frozen)
        BY <1>4, <1>5, <2>1 DEF Least
      <3>5. Covered(x.s, y.s)
        BY <1>4, <1>5, <3>1, <3>3, <3>4, WritesCovered
      <3>6. /\ Sound(y.s) /\ SideTablesKept(x.s, y.s)
            /\ y.s.account = [x.s.account EXCEPT ![b] = Written(e)]
            /\ Gap(y.s) = Gap(x.s) + Total(x.s.account[b]) - Total(e)
        BY <3>1 DEF Writes
      <3>7. Gap(x.s) \in Int /\ \A z \in Accounts : Spare(x.s, z) \in Int
        BY <1>5, SupplyType, SpareType
      <3>8. Gap(y.s) = Gap(x.s) - v
        BY <1>4, <1>5, <2>1, <3>6, <3>7
      <3>9. SparesKept(x.s, y.s)
        <4>1. e.reserved - x.s.account[b].reserved = 0
          BY <1>4, <1>5, DataParts
        <4> QED BY <3>2, <3>7, <4>1 DEF SparesKept, SparesShift
      <3> QED BY <3>2, <3>5, <3>6, <3>8, <3>9
    <2>3. CASE ~y.ok
      <3>1. y.s = x.s
        BY <1>6, <2>3
      <3>2. v = 0 /\ e.free < ED
        <4>1. y.ok <=> s.account[b].free + v >= ED
          BY <1>5, <1>6
        <4>2. s.account[b].free \in Nat /\ ED \in Nat
          BY <1>4, DataParts, BalancesAssumption
        <4> QED BY <1>4, <1>9, <2>3, <4>1, <4>2
      <3>3. Written(e) = x.s.account[b]
        <4>1. s.account[b].free < ED
          BY <1>4, <3>2, DataParts
        <4>2. s.account[b] = NoAccount
          BY <4>1, SoundAt
        <4>3. ~(e.free >= ED)
          BY <1>4, <3>2, DataParts, BalancesAssumption
        <4> QED BY <1>5, <4>2, <4>3 DEF Written
      <3>4. y.s.account = [x.s.account EXCEPT ![b] = Written(e)]
        <4>1. x.s.account \in [Accounts -> Data]
          BY <1>5, LedgerParts
        <4> QED BY <3>1, <3>3, <4>1
      <3>5. Gap(y.s) = Gap(x.s) - v
        <4>1. Gap(x.s) \in Int
          BY <1>5, SupplyType
        <4> QED BY <3>1, <3>2, <4>1
      <3>6. Covered(x.s, y.s)
        <4>1. \A z \in Accounts : Total(x.s.account[z]) \in Nat /\ x.s.account[z].frozen \in Nat
          BY <1>5, LedgerParts, DataParts
        <4> QED BY <3>1, <4>1 DEF Covered, Least
      <3> QED BY <1>5, <3>1, <3>4, <3>5, <3>6 DEF SideTablesKept, Keeps, SparesKept
    <2> QED BY <2>2, <2>3
  <1>15. t.account = [s.account EXCEPT ![a] = Written(d), ![b] = Written(e)]
    BY <1>5, <1>8, <1>14
  <1>16. SideTablesKept(s, t) /\ Keeps(s, t)
    BY <1>5, <1>8, <1>14 DEF SideTablesKept, Keeps
  <1>17. SparesKept(s, t)
    BY <1>5, <1>8, <1>14 DEF SparesKept
  <1>18. Gap(t) = Gap(s)
    <2>1. Gap(s) \in Int /\ Total(s.account[a]) \in Nat
      BY <1>4, SupplyType
    <2> QED BY <1>4, <1>5, <1>8, <1>14, <2>1
  <1>19. Covered(s, t)
    <2>1. t \in Ledgers /\ Covered(x.s, t)
      BY <1>8, <1>14 DEF Sound
    <2> QED BY <1>4, <1>5, <1>13, <2>1, CoveredTwice
  <1>20. Transfers(s, t, a, b, v, preservation)
    BY <1>3, <1>9, <1>10, <1>11, <1>15, <1>16 DEF Transfers, d, e
  <1>21. Neutral(s, t)
    BY <1>16, <1>17, <1>18, <1>19 DEF Neutral
  <1>22. QED
    BY <1>20, <1>21 DEF t, m

\* A write that changes the free balance only.
LEMMA FreeWrite ==
  ASSUME NEW s, Sound(s), NEW t, NEW a \in Accounts, NEW d \in Data, Writes(s, t, a, d),
         d.frozen = s.account[a].frozen, d.reserved = s.account[a].reserved
  PROVE  /\ Keeps(s, t) /\ SparesKept(s, t)
         /\ Gap(t) = Gap(s) + s.account[a].free - d.free
  <1>1. Keeps(s, t) /\ SparesShift(s, t, a, d)
    BY WritesKeeps
  <1>2. s \in Ledgers /\ s.account[a] \in Data
    BY SoundAt
  <1>3. /\ d.free \in Nat /\ d.reserved \in Nat /\ s.account[a].free \in Nat /\ Gap(s) \in Int
        /\ \A x \in Accounts : Spare(s, x) \in Int
    BY <1>2, DataParts, SupplyType, SpareType
  <1>4. SparesKept(s, t)
    BY <1>1, <1>3 DEF SparesShift, SparesKept
  <1>5. Gap(t) = Gap(s) + Total(s.account[a]) - Total(d)
    BY DEF Writes
  <1>6. Gap(t) = Gap(s) + s.account[a].free - d.free
    BY <1>3, <1>5 DEF Total
  <1>7. QED
    BY <1>1, <1>4, <1>6

\* A change of the issuance alone.
LEMMA Issuing ==
  ASSUME NEW s, Sound(s), NEW n \in Nat
  PROVE  LET t == [s EXCEPT !.issuance = n]
         IN  /\ Keeps(s, t) /\ SparesKept(s, t) /\ SideTablesKept(s, t)
             /\ t.account = s.account
             /\ Gap(t) = Gap(s) + n - s.issuance
  <1> DEFINE t == [s EXCEPT !.issuance = n]
  <1>1. s \in Ledgers /\ s.issuance \in Nat /\ Supply(s) \in Nat
    <2>1. s \in Ledgers
      BY DEF Sound
    <2> QED BY <2>1, LedgerParts, SupplyType
  <1>2. CASE Accounts # {}
    <2>1. PICK a \in Accounts : TRUE
      BY <1>2
    <2>2. /\ Sound(t) /\ Supply(t) = Supply(s) /\ SideTablesKept(s, t)
          /\ t.account = s.account /\ t.issuance = n
      BY <2>1, OtherParts
    <2> HIDE DEF t
    <2>3. Keeps(s, t) /\ SparesKept(s, t) /\ Gap(t) = Gap(s) + n - s.issuance
      BY <1>1, <2>2 DEF Keeps, SparesKept, Spare, SideTablesKept, Gap
    <2> QED BY <2>2, <2>3 DEF t
  <1>3. CASE Accounts = {}
    <2>1. /\ t \in Ledgers /\ t.account = s.account /\ t.issuance = n
          /\ t.providers = s.providers /\ t.consumers = s.consumers
          /\ t.locks = s.locks /\ t.freezes = s.freezes
          /\ t.holds = s.holds /\ t.reserves = s.reserves
      BY <1>1 DEF Ledgers
    <2> HIDE DEF t
    <2>2. Sound(t) /\ Supply(t) = Supply(s)
      BY <2>1, SameAccounts
    <2>3. Keeps(s, t) /\ SparesKept(s, t) /\ Gap(t) = Gap(s) + n - s.issuance /\ SideTablesKept(s, t)
      BY <1>1, <2>1, <2>2 DEF Keeps, SparesKept, Spare, SideTablesKept, Gap
    <2> QED BY <2>1, <2>3 DEF t
  <1>4. QED
    BY <1>2, <1>3

(* What a burn writes.                                                         *)
Burns(s, t, a, v, preservation) ==
  /\ v <= s.account[a].free
  /\ v > 0 /\ preservation = "Preserve" => Debited(s, a, v).free >= ED
  /\ t.account = [s.account EXCEPT ![a] = Written(Debited(s, a, v))]
  /\ SideTablesKept(s, t)

\* burn_from: what is taken leaves the issuance as well.
LEMMA Burning ==
  ASSUME NEW s, Sound(s), Gap(s) >= 0, NEW a \in Accounts, NEW v \in Nat,
         NEW preservation \in {"Expendable", "Preserve"}, Burned(s, a, v, preservation).ok
  PROVE  LET t == Burned(s, a, v, preservation).s
         IN  Burns(s, t, a, v, preservation) /\ Neutral(s, t)
  <1> DEFINE x == Taken(s, a, v, preservation)
             y == Burned(s, a, v, preservation)
             t == y.s
             d == Debited(s, a, v)
             most == PoliteMost(s, a, preservation)
             w == [x.s EXCEPT !.issuance = Less(x.s.issuance, v)]
  <1>1. IsResult(x)
    BY WriteResults DEF Taken, DecreaseBalance
  <1>2. v <= most /\ x.ok /\ y = [x EXCEPT !.s = w]
    <2>1. y = IF v > most THEN Refused(s) ELSE IF ~x.ok THEN x ELSE [x EXCEPT !.s = w]
      BY Zenon DEF Burned, PoliteMost, Taken
    <2>2. Refused(s).ok = FALSE
      BY DEF Refused
    <2>3. most \in Nat
      BY ReducibleOf DEF PoliteMost
    <2> HIDE DEF x, y, most
    <2>4. y.ok
      BY DEF y
    <2> QED BY <2>1, <2>2, <2>3, <2>4
  <1>3. v <= s.account[a].free /\ (d.free >= ED \/ ~Held(d)) /\ Writes(s, x.s, a, d)
    BY <1>2, Taking
  <1>4. /\ s \in Ledgers /\ s.account[a] \in Data /\ s.account[a].free \in Nat
        /\ s.account[a].reserved \in Nat /\ s.account[a].frozen \in Nat
        /\ d \in Data /\ d.free = s.account[a].free - v /\ d.reserved = s.account[a].reserved
        /\ d.frozen = s.account[a].frozen /\ Total(d) = Total(s.account[a]) - v
    BY <1>3, SoundAt, DataParts, MovedParts
  <1>5. /\ most \in Nat /\ most <= s.account[a].free
        /\ most > 0 => s.account[a].free - most + s.account[a].reserved >= s.account[a].frozen
        /\ preservation = "Preserve" /\ most > 0 => s.account[a].free - most >= ED
    BY ReducibleOf DEF PoliteMost
  <1>6. t = w
    BY <1>1, <1>2, ResultChange
  <1> HIDE DEF x, d, most, t
  <1>7. v > 0 /\ preservation = "Preserve" => d.free >= ED
    BY <1>2, <1>4, <1>5, BalancesAssumption
  <1>8. Keeps(s, x.s) /\ SparesKept(s, x.s) /\ Gap(x.s) = Gap(s) + s.account[a].free - d.free
    <2>1. d \in Data /\ d.frozen = s.account[a].frozen /\ d.reserved = s.account[a].reserved
      BY <1>4
    <2> QED BY <1>3, <2>1, FreeWrite
  <1>9. Covered(s, x.s)
    <2>1. d \in Data /\ d.frozen = s.account[a].frozen
      BY <1>4
    <2>2. Total(d) >= Least(Total(s.account[a]), s.account[a].frozen)
      <3>1. CASE v = 0
        BY <1>4, <3>1, DataParts DEF Least, Total
      <3>2. CASE v > 0
        BY <1>2, <1>4, <1>5, <3>2 DEF Least, Total
      <3> QED BY <3>1, <3>2
    <2> QED BY <1>3, <2>1, <2>2, WritesCovered
  <1>10. /\ Sound(x.s) /\ x.s \in Ledgers /\ SideTablesKept(s, x.s)
         /\ x.s.account = [s.account EXCEPT ![a] = Written(d)]
    BY <1>3 DEF Writes, Sound
  <1>11. x.s.issuance \in Nat /\ Supply(x.s) \in Nat /\ Gap(s) \in Int /\ Gap(x.s) \in Int
    BY <1>4, <1>10, LedgerParts, SupplyType
  <1>12. Gap(x.s) = Gap(s) + v
    BY <1>4, <1>8, <1>11
  <1>13. v <= x.s.issuance /\ Less(x.s.issuance, v) = x.s.issuance - v /\ x.s.issuance - v \in Nat
    BY <1>11, <1>12 DEF Gap, Less
  <1>14. /\ Keeps(x.s, t) /\ SparesKept(x.s, t) /\ SideTablesKept(x.s, t)
         /\ t.account = x.s.account /\ Gap(t) = Gap(x.s) + (x.s.issuance - v) - x.s.issuance
    BY <1>6, <1>10, <1>13, Issuing
  <1>15. Gap(t) = Gap(s)
    BY <1>11, <1>12, <1>14
  <1>16. Keeps(s, t) /\ SparesKept(s, t) /\ SideTablesKept(s, t)
    BY <1>8, <1>10, <1>14 DEF Keeps, SparesKept, SideTablesKept
  <1>17. Covered(s, t)
    BY <1>9, <1>14 DEF Covered
  <1>18. Burns(s, t, a, v, preservation)
    BY <1>3, <1>7, <1>10, <1>14, <1>16 DEF Burns, d
  <1>19. Neutral(s, t)
    BY <1>15, <1>16, <1>17 DEF Neutral
  <1>20. QED
    BY <1>18, <1>19 DEF t

\* mint_into: what is added is new.
LEMMA Minting ==
  ASSUME NEW s, Sound(s), NEW a \in Accounts, NEW v \in Nat, Minted(s, a, v).ok
  PROVE  LET t == Minted(s, a, v).s
         IN  Keeps(s, t) /\ SparesKept(s, t) /\ Gap(t) = Gap(s)
  <1> DEFINE x == IncreaseBalance(s, a, v)
             y == Minted(s, a, v)
             t == y.s
             d == Credited(s, a, v)
             w == [x.s EXCEPT !.issuance = x.s.issuance + v]
  <1>1. IsResult(x)
    BY WriteResults
  <1>2. x.ok /\ y = [x EXCEPT !.s = w]
    <2>1. y = IF ~x.ok THEN x ELSE [x EXCEPT !.s = w]
      BY DEF Minted
    <2> HIDE DEF x, w
    <2> QED BY <2>1
  <1>3. Writes(s, x.s, a, d)
    BY <1>2, Increasing
  <1>4. /\ s \in Ledgers /\ s.account[a].free \in Nat
        /\ d \in Data /\ d.free = s.account[a].free + v /\ d.reserved = s.account[a].reserved
        /\ d.frozen = s.account[a].frozen
    BY SoundAt, DataParts, MovedParts
  <1>5. t = w
    BY <1>1, <1>2, ResultChange
  <1> HIDE DEF x, d, t
  <1>6. Keeps(s, x.s) /\ SparesKept(s, x.s) /\ Gap(x.s) = Gap(s) + s.account[a].free - d.free
    <2>1. d \in Data /\ d.frozen = s.account[a].frozen /\ d.reserved = s.account[a].reserved
      BY <1>4
    <2> QED BY <1>3, <2>1, FreeWrite
  <1>7. Sound(x.s) /\ x.s \in Ledgers
    BY <1>3 DEF Writes, Sound
  <1>8. x.s.issuance \in Nat /\ Gap(s) \in Int /\ Gap(x.s) \in Int /\ x.s.issuance + v \in Nat
    BY <1>4, <1>7, LedgerParts, SupplyType
  <1>9. /\ Keeps(x.s, t) /\ SparesKept(x.s, t)
        /\ Gap(t) = Gap(x.s) + (x.s.issuance + v) - x.s.issuance
    BY <1>5, <1>7, <1>8, Issuing
  <1>10. Gap(t) = Gap(s)
    BY <1>4, <1>6, <1>8, <1>9
  <1>11. Keeps(s, t) /\ SparesKept(s, t)
    BY <1>6, <1>9 DEF Keeps, SparesKept
  <1>12. QED
    BY <1>10, <1>11 DEF t

-----------------------------------------------------------------------------
(* Reserves                                                                    *)

(* A change of what is spare on one account.                                   *)
SpareGrows(s, t, a, n) ==
  \A x \in Accounts : Spare(t, x) = Spare(s, x) + IF x = a THEN n ELSE 0

(* What such a write keeps: all that is frozen, and the total but for dust.    *)
Rewrites(s, t, a, d) ==
  /\ Keeps(s, t) /\ SideTablesKept(s, t)
  /\ t.account = [s.account EXCEPT ![a] = Written(d)]
  /\ SpareGrows(s, t, a, d.reserved - s.account[a].reserved)
  /\ Gap(t) = Gap(s) + Total(s.account[a]) - Total(d)
  /\ d.free >= ED \/ ~Held(d)
  /\ Total(d) >= Least(Total(s.account[a]), s.account[a].frozen) => Covered(s, t)

\* Mutate, for data with the same frozen amount and no more free balance than
\* the issuance covers.
LEMMA MutateKeeps ==
  ASSUME NEW s, Sound(s), NEW a \in Accounts, NEW d \in Data,
         d.frozen = s.account[a].frozen,
         d.free < ED => d.free <= s.issuance,
         Mutate(s, a, d).ok
  PROVE  Rewrites(s, Mutate(s, a, d).s, a, d)
  <1> DEFINE t == Mutate(s, a, d).s
  <1>1. (d.free >= ED \/ ~Held(d)) /\ Writes(s, t, a, d)
    BY MutateWrites
  <1> HIDE DEF t
  <1>2. Keeps(s, t) /\ SparesShift(s, t, a, d)
    BY <1>1, WritesKeeps
  <1>3. Total(d) >= Least(Total(s.account[a]), s.account[a].frozen) => Covered(s, t)
    BY <1>1, WritesCovered
  <1>4. SpareGrows(s, t, a, d.reserved - s.account[a].reserved)
    BY <1>2 DEF SpareGrows, SparesShift
  <1>5. /\ SideTablesKept(s, t) /\ t.account = [s.account EXCEPT ![a] = Written(d)]
        /\ Gap(t) = Gap(s) + Total(s.account[a]) - Total(d)
    BY <1>1 DEF Writes
  <1>6. QED
    BY <1>1, <1>2, <1>3, <1>4, <1>5 DEF Rewrites, t

(* The data of an account with an amount set aside, and given back.            *)
SetAside(s, a, v)  == [s.account[a] EXCEPT !.free = @ - v, !.reserved = @ + v]
GivenBack(s, a, n) == [s.account[a] EXCEPT !.free = @ + n, !.reserved = @ - n]

\* reserve (impl_currency.rs:590-612) moves free balance aside; the deposit and
\* what is frozen stay free.
LEMMA Reserving ==
  ASSUME NEW s, Sound(s), Gap(s) >= 0, NEW a \in Accounts, NEW v \in Nat, Reserved(s, a, v).ok
  PROVE  LET t == Reserved(s, a, v).s
             d == SetAside(s, a, v)
         IN  /\ Keeps(s, t) /\ SideTablesKept(s, t)
             /\ v <= s.account[a].free
             /\ t.account = [s.account EXCEPT ![a] = Written(d)]
             /\ d.free >= ED \/ ~Held(d)
             /\ SpareGrows(s, t, a, v)
             /\ Gap(t) = Gap(s) /\ Covered(s, t)
  <1> DEFINE r == Reserved(s, a, v)
             t == r.s
             old == s.account[a]
             d == SetAside(s, a, v)
  <1>1. /\ s \in Ledgers /\ old \in Data
        /\ old.free \in Nat /\ old.reserved \in Nat /\ old.frozen \in Nat
    BY SoundAt, DataParts
  <1>2. v <= old.free /\ r = Mutate(s, a, d)
    <2>1. r = IF v > old.free \/ ~EnsureCanWithdraw(s, a, old.free - v)
              THEN Refused(s) ELSE Mutate(s, a, d)
      BY DEF Reserved, SetAside
    <2>2. Refused(s).ok = FALSE
      BY DEF Refused
    <2> HIDE DEF r, d
    <2>3. r.ok
      BY DEF r
    <2> QED BY <1>1, <2>1, <2>2, <2>3
  <1>3. /\ d \in Data /\ d.free = old.free - v /\ d.reserved = old.reserved + v
        /\ d.frozen = old.frozen
    <2>1. old \in Data /\ v <= old.free
      BY <1>1, <1>2
    <2> QED BY <2>1, DataAside, Zenon DEF SetAside
  <1>4. Total(d) = Total(old) /\ Total(old) \in Nat /\ Total(old) <= Supply(s)
    <2>1. Total(old) \in Nat /\ Total(old) <= Supply(s)
      BY <1>1, SupplyType
    <2>2. Total(d) = Total(old)
      BY <1>1, <1>3 DEF Total
    <2> QED BY <2>1, <2>2
  <1>5. s.issuance \in Nat /\ Supply(s) \in Nat /\ Gap(s) \in Int
    BY <1>1, LedgerParts, SupplyType
  <1>6. d.free <= s.issuance
    BY <1>1, <1>3, <1>4, <1>5 DEF Gap, Total
  <1>7. Total(d) >= Least(Total(old), old.frozen)
    BY <1>1, <1>4 DEF Least
  <1> HIDE DEF d, r
  <1>8. Mutate(s, a, d).ok
    BY <1>2 DEF r
  <1>9. /\ Keeps(s, t) /\ SideTablesKept(s, t)
        /\ t.account = [s.account EXCEPT ![a] = Written(d)]
        /\ SpareGrows(s, t, a, d.reserved - old.reserved)
        /\ Gap(t) = Gap(s) + Total(old) - Total(d)
        /\ d.free >= ED \/ ~Held(d)
        /\ Covered(s, t)
    <2>1. Rewrites(s, t, a, d)
      BY <1>2, <1>3, <1>6, <1>8, MutateKeeps
    <2> QED BY <1>7, <2>1 DEF Rewrites
  <1>10. d.reserved - old.reserved = v
    BY <1>1, <1>3
  <1>11. Gap(t) = Gap(s) /\ SpareGrows(s, t, a, v)
    BY <1>4, <1>5, <1>9, <1>10
  <1>12. QED
    BY <1>2, <1>9, <1>11 DEF d, r

(* What is given back from the reserve.                                        *)
Unreserves(s, t, a, n) ==
  /\ Keeps(s, t) /\ SideTablesKept(s, t) /\ SpareGrows(s, t, a, - n)
  /\ Gap(t) = Gap(s) /\ Covered(s, t)

(* What it writes: what is left free stays an account, or holds nothing back.  *)
GivesBack(s, r, a, n) ==
  LET d == GivenBack(s, a, n)
  IN  /\ r.ok /\ r.s.account = [s.account EXCEPT ![a] = Written(d)]
      /\ d.free >= ED \/ ~Held(d)

\* unreserve (impl_currency.rs:625-650) is never refused.
LEMMA Unreserving ==
  ASSUME NEW s, Sound(s), Gap(s) >= 0, NEW a \in Accounts, NEW v \in Nat
  PROVE  LET n == Least(s.account[a].reserved, v)
         IN  /\ n \in Nat /\ n <= v /\ n <= s.account[a].reserved
             /\ GivesBack(s, Unreserved(s, a, v), a, n)
             /\ Unreserves(s, Unreserved(s, a, v).s, a, n)
  <1> DEFINE r == Unreserved(s, a, v)
             t == r.s
             old == s.account[a]
             n == Least(s.account[a].reserved, v)
             d == GivenBack(s, a, n)
  <1>1. /\ s \in Ledgers /\ old \in Data /\ ED \in Nat
        /\ old.free \in Nat /\ old.reserved \in Nat /\ old.frozen \in Nat
        /\ old.free < ED => old = NoAccount /\ ~Held(old)
    BY SoundAt, DataParts, BalancesAssumption
  <1>2. n \in Nat /\ n <= old.reserved /\ n <= v
    BY <1>1 DEF Least
  <1>3. r = Mutate(s, a, d)
    BY DEF Unreserved, GivenBack
  <1> HIDE DEF n
  <1>4. /\ d \in Data /\ d.free = old.free + n /\ d.reserved = old.reserved - n
        /\ d.frozen = old.frozen
    <2>1. old \in Data /\ n \in Nat /\ n <= old.reserved
      BY <1>1, <1>2
    <2> QED BY <2>1, DataBack, Zenon DEF GivenBack
  <1> HIDE DEF d
  <1>5. Total(d) = Total(old) /\ Total(old) \in Nat
    BY <1>1, <1>2, <1>4 DEF Total
  <1>6. s.issuance \in Nat /\ Gap(s) \in Int
    BY <1>1, LedgerParts, SupplyType
  <1>7. d.free < ED => d.free = 0 /\ ~Held(d)
    BY <1>1, <1>2, <1>4, DataParts DEF Held
  <1>8. d.free >= ED \/ ~Held(d)
    BY <1>1, <1>2, <1>4, <1>7
  <1>9. Total(d) >= Least(Total(old), old.frozen)
    BY <1>1, <1>5 DEF Least
  <1> HIDE DEF d, r
  <1>10. Mutate(s, a, d).ok
    <2>1. d.free < ED => d.free <= s.issuance
      BY <1>6, <1>7
    <2> QED BY <1>4, <1>8, <2>1, MutateWrites
  <1>11. /\ Keeps(s, t) /\ SideTablesKept(s, t)
         /\ t.account = [s.account EXCEPT ![a] = Written(d)]
         /\ SpareGrows(s, t, a, d.reserved - old.reserved)
         /\ Gap(t) = Gap(s) + Total(old) - Total(d)
         /\ Covered(s, t)
    <2>1. d.free < ED => d.free <= s.issuance
      BY <1>6, <1>7
    <2>2. Rewrites(s, t, a, d)
      BY <1>3, <1>4, <1>10, <2>1, MutateKeeps
    <2> QED BY <1>9, <2>2 DEF Rewrites
  <1>12. d.reserved - old.reserved = - n
    BY <1>1, <1>2, <1>4
  <1>13. Gap(t) = Gap(s) /\ SpareGrows(s, t, a, - n)
    BY <1>5, <1>6, <1>11, <1>12
  <1>14. Unreserves(s, t, a, n)
    BY <1>11, <1>13 DEF Unreserves
  <1>15. GivesBack(s, r, a, n)
    BY <1>3, <1>8, <1>10, <1>11 DEF GivesBack, d
  <1>16. QED
    BY <1>2, <1>14, <1>15 DEF r, n

\* Of what is reserved, all that is asked for is given back.
LEMMA UnreservingAll ==
  ASSUME NEW s, Sound(s), Gap(s) >= 0, NEW a \in Accounts, NEW v \in Nat,
         v <= s.account[a].reserved
  PROVE  Unreserves(s, Unreserved(s, a, v).s, a, v)
  <1>1. Least(s.account[a].reserved, v) = v
    <2>1. s.account[a].reserved \in Nat
      BY SoundAt, DataParts
    <2> QED BY <2>1 DEF Least
  <1>2. Unreserves(s, Unreserved(s, a, v).s, a, Least(s.account[a].reserved, v))
    <2>1. Sound(s) /\ Gap(s) >= 0 /\ a \in Accounts /\ v \in Nat
      OBVIOUS
    <2> QED BY ONLY <2>1, Unreserving
  <1>3. QED
    BY ONLY <1>1, <1>2

\* slash_reserved (impl_currency.rs:654-699) is never refused either.
LEMMA SlashingReserved ==
  ASSUME NEW s, Sound(s), NEW a \in Accounts, NEW v \in Nat
  PROVE  LET t == ReservedSlashed(s, a, v).s
             n == Least(s.account[a].reserved, v)
         IN  /\ ReservedSlashed(s, a, v).ok /\ IsResult(ReservedSlashed(s, a, v))
             /\ Keeps(s, t) /\ SideTablesKept(s, t)
             /\ n \in Nat /\ n <= s.account[a].reserved /\ n <= v
             /\ SpareGrows(s, t, a, - n)
             /\ Gap(t) = Gap(s) + n
  <1> DEFINE r == ReservedSlashed(s, a, v)
             t == r.s
             old == s.account[a]
             n == Least(s.account[a].reserved, v)
             d == [s.account[a] EXCEPT !.reserved = Less(@, v)]
  <1>1. /\ s \in Ledgers /\ old \in Data /\ ED \in Nat
        /\ old.free \in Nat /\ old.reserved \in Nat /\ old.frozen \in Nat
        /\ old.free < ED => old = NoAccount /\ ~Held(old)
    BY SoundAt, DataParts, BalancesAssumption
  <1>2. n \in Nat /\ n <= old.reserved /\ n <= v /\ Less(old.reserved, v) = old.reserved - n
    BY <1>1 DEF Least, Less
  <1>3. r = Mutate(s, a, d)
    BY DEF ReservedSlashed
  <1> HIDE DEF n
  <1>4. /\ d \in Data /\ d.free = old.free /\ d.reserved = old.reserved - n
        /\ d.frozen = old.frozen
    <2>1. Less(old.reserved, v) \in Nat
      BY <1>1, <1>2
    <2> QED BY <1>1, <1>2, <2>1, DataOnce
  <1> HIDE DEF d
  <1>5. Total(d) = Total(old) - n /\ Total(old) \in Nat
    BY <1>1, <1>2, <1>4 DEF Total
  <1>6. s.issuance \in Nat /\ Gap(s) \in Int
    BY <1>1, LedgerParts, SupplyType
  <1>7. d.free < ED => d.free = 0 /\ ~Held(d)
    BY <1>1, <1>2, <1>4, DataParts DEF Held
  <1>8. (d.free >= ED \/ ~Held(d)) /\ (d.free < ED => d.free <= s.issuance)
    BY <1>1, <1>4, <1>6, <1>7
  <1> HIDE DEF d, r
  <1>9. Mutate(s, a, d).ok
    BY <1>4, <1>8, MutateWrites
  <1>10. /\ Keeps(s, t) /\ SideTablesKept(s, t)
         /\ SpareGrows(s, t, a, d.reserved - old.reserved)
         /\ Gap(t) = Gap(s) + Total(old) - Total(d)
    <2>1. d \in Data /\ d.frozen = s.account[a].frozen /\ (d.free < ED => d.free <= s.issuance)
      BY <1>4, <1>8
    <2>2. Rewrites(s, t, a, d)
      BY <1>3, <1>9, <2>1, MutateKeeps
    <2> QED BY <2>2 DEF Rewrites
  <1>11. d.reserved - old.reserved = - n
    BY <1>1, <1>2, <1>4
  <1>12. Gap(t) = Gap(s) + n /\ SpareGrows(s, t, a, - n)
    BY <1>2, <1>5, <1>6, <1>10, <1>11
  <1>13. IsResult(r)
    BY <1>3, Results
  <1>14. QED
    BY <1>2, <1>3, <1>9, <1>10, <1>12, <1>13 DEF d, r, n

(* Spare reserves that go from one account to another, or to nobody (m = 0).   *)
SpareMoves(s, t, a, n, b, m) ==
  \A x \in Accounts :
     Spare(t, x) = Spare(s, x) - (IF x = a THEN n ELSE 0) + (IF x = b THEN m ELSE 0)

Repatriates(s, t, a, b, n, status) ==
  /\ Keeps(s, t) /\ SideTablesKept(s, t)
  /\ SpareMoves(s, t, a, n, b, IF status = "Reserved" THEN n ELSE 0)
  /\ Gap(t) = Gap(s) /\ Covered(s, t)

\* What may be moved leaves, with what is free, what is frozen.
LEMMA MovableOf ==
  ASSUME NEW s, Sound(s), NEW a \in Accounts, NEW v \in Nat
  PROVE  /\ Movable(s, a, v) \in Nat /\ Movable(s, a, v) <= v
         /\ Movable(s, a, v) <= s.account[a].reserved
         /\ Total(s.account[a]) - Movable(s, a, v)
              >= Least(Total(s.account[a]), s.account[a].frozen)
  <1>1. /\ s.account[a] \in Data /\ s.account[a].free \in Nat
        /\ s.account[a].reserved \in Nat /\ s.account[a].frozen \in Nat
    BY SoundAt, DataParts
  <1>2. QED
    BY <1>1 DEF Movable, ReducibleOnHold, Least, Less, Total

\* do_transfer_reserved (lib.rs:1080-1126) between two accounts: the reserved
\* balance moves, whole units of it, and no deposit is touched.
LEMMA Repatriating ==
  ASSUME NEW s, Sound(s), NEW a \in Accounts, NEW b \in Accounts, a # b, NEW v \in Nat,
         NEW status \in {"Free", "Reserved"}, Repatriated(s, a, b, v, status).ok
  PROVE  /\ IsResult(Repatriated(s, a, b, v, status))
         /\ Repatriates(s, Repatriated(s, a, b, v, status).s, a, b, Movable(s, a, v), status)
  <1> DEFINE n   == Movable(s, a, v)
             old == s.account[a]
             to  == s.account[b]
             g   == [s.account[a] EXCEPT !.reserved = @ - n]
             e   == IF status = "Free" THEN [to EXCEPT !.free = @ + n]
                                       ELSE [to EXCEPT !.reserved = @ + n]
             giver == MutateAccount(s, a, g)
             taker == MutateAccount(giver.s, b, e)
             both  == [taker EXCEPT !.dust = @ + giver.dust]
             r     == Repatriated(s, a, b, v, status)
  <1>1. to # NoAccount /\ giver.ok /\ taker.ok /\ r = HandlingDust(both)
    <2>1. r = IF a = b
              THEN IF status = "Free" THEN Unreserved(s, a, n)
                                      ELSE [ok |-> TRUE, s |-> s, dust |-> 0]
              ELSE IF to = NoAccount \/ ~giver.ok \/ ~taker.ok THEN Refused(s)
              ELSE HandlingDust(both)
      BY DEF Repatriated
    <2>2. Refused(s).ok = FALSE
      BY DEF Refused
    <2> HIDE DEF r, giver, taker, both
    <2>3. r.ok
      BY DEF r
    <2> QED BY <2>1, <2>2, <2>3
  <1>2. /\ n \in Nat /\ n <= old.reserved
        /\ Total(old) - n >= Least(Total(old), old.frozen)
    BY MovableOf
  <1>3. /\ s \in Ledgers /\ old \in Data /\ to \in Data /\ ED \in Nat
        /\ old.free \in Nat /\ old.reserved \in Nat /\ old.frozen \in Nat
        /\ to.free \in Nat /\ to.reserved \in Nat /\ to.frozen \in Nat
        /\ old.free < ED => old = NoAccount
        /\ to.free >= ED
    <2>1. to # NoAccount
      BY <1>1
    <2> QED BY <2>1, SoundAt, DataParts, BalancesAssumption
  <1> HIDE DEF n
  <1>4. /\ g \in Data /\ g.free = old.free /\ g.reserved = old.reserved - n
        /\ g.frozen = old.frozen
    <2>1. old.reserved - n \in Nat
      BY <1>2, <1>3
    <2>2. old \in Data
      BY <1>3
    <2> QED BY ONLY <2>1, <2>2, DataOnce
  <1>5. /\ e \in Data /\ e.frozen = to.frozen /\ e.free >= ED
        /\ Total(e) = Total(to) + n /\ Total(to) \in Nat
        /\ e.reserved = to.reserved + IF status = "Reserved" THEN n ELSE 0
    <2>1. to.free + n \in Nat /\ to.reserved + n \in Nat
      BY <1>2, <1>3
    <2>2. CASE status = "Free"
      <3>1. e = [to EXCEPT !.free = to.free + n]
        BY <2>2
      <3> HIDE DEF e
      <3>2. /\ e \in Data /\ e.free = to.free + n /\ e.reserved = to.reserved
            /\ e.frozen = to.frozen
        <4>1. to \in Data /\ to.free + n \in Nat
          BY <1>3, <2>1
        <4> QED BY ONLY <3>1, <4>1, DataOnce
      <3> QED BY <1>2, <1>3, <2>2, <3>2 DEF Total
    <2>3. CASE status = "Reserved"
      <3>1. e = [to EXCEPT !.reserved = to.reserved + n]
        BY <2>3
      <3> HIDE DEF e
      <3>2. /\ e \in Data /\ e.free = to.free /\ e.reserved = to.reserved + n
            /\ e.frozen = to.frozen
        <4>1. to \in Data /\ to.reserved + n \in Nat
          BY <1>3, <2>1
        <4> QED BY ONLY <3>1, <4>1, DataOnce
      <3> QED BY <1>2, <1>3, <2>3, <3>2 DEF Total
    <2> QED BY <2>2, <2>3
  <1>6. g.free >= ED \/ g = NoAccount
    <2>1. CASE old.free >= ED
      BY <1>4, <2>1
    <2>2. CASE old.free < ED
      <3>1. old = NoAccount /\ n = 0
        BY <1>2, <1>3, <2>2, DataParts
      <3>2. g \in Data /\ g.free = 0 /\ g.reserved = 0 /\ g.frozen = 0
        BY <1>4, <3>1, DataParts
      <3> HIDE DEF g
      <3> QED BY <3>2 DEF Data, NoAccount
    <2> QED BY <1>3, <2>1, <2>2
  <1> HIDE DEF g, e
  <1>7. g.free \in Nat /\ (~(g.free >= ED) => g.free = 0 /\ ~Held(g))
    BY <1>4, <1>6, DataParts
  <1>8. giver = [ok |-> TRUE, dust |-> 0, s |-> Settled(s, a, g)]
    <2>1. giver = IF g.free >= ED \/ ~Held(g)
                  THEN [ok |-> TRUE, dust |-> IF g.free >= ED THEN 0 ELSE g.free,
                        s |-> Settled(s, a, g)]
                  ELSE Refused(s)
      BY <1>4, Mutating
    <2> HIDE DEF giver
    <2> QED BY <1>7, <2>1
  <1> DEFINE t == Settled(s, a, g)
             u == Settled(t, b, e)
  <1>9. Writes(s, t, a, g) /\ Sound(t)
    <2>1. Writes(s, t, a, g)
      BY <1>4, <1>6, SettledWrites
    <2> QED BY <2>1 DEF Writes
  <1>10. giver.s = t /\ giver.dust = 0
    BY <1>8
  <1> HIDE DEF giver, t
  <1>11. taker = [ok |-> TRUE, dust |-> 0, s |-> u]
    <2>1. taker = IF e.free >= ED \/ ~Held(e)
                  THEN [ok |-> TRUE, dust |-> IF e.free >= ED THEN 0 ELSE e.free, s |-> u]
                  ELSE Refused(t)
      BY <1>5, <1>9, <1>10, Mutating
    <2> HIDE DEF taker, u
    <2> QED BY <1>5, <2>1
  <1>12. Writes(t, u, b, e) /\ Sound(u) /\ u \in Ledgers
    <2>1. Writes(t, u, b, e)
      BY <1>5, <1>9, SettledWrites
    <2> QED BY <2>1 DEF Writes, Sound
  <1> HIDE DEF u
  <1>13. r = [ok |-> TRUE, s |-> u, dust |-> 0]
    <2>1. both = [ok |-> TRUE, dust |-> 0, s |-> u]
      <3>1. both = [taker EXCEPT !.dust = taker.dust + giver.dust]
        OBVIOUS
      <3>2. taker.dust + giver.dust = 0
        BY <1>10, <1>11
      <3> HIDE DEF taker, both
      <3> QED BY <1>11, <3>1, <3>2
    <2>2. u.issuance \in Nat /\ u = [u EXCEPT !.issuance = u.issuance]
      BY <1>12 DEF Ledgers
    <2>3. Less(u.issuance, 0) = u.issuance
      BY <2>2 DEF Less
    <2> HIDE DEF both
    <2>4. HandlingDust(both) = [ok |-> TRUE, s |-> [u EXCEPT !.issuance = Less(u.issuance, 0)],
                                dust |-> 0]
      BY <2>1 DEF HandlingDust
    <2> QED BY <1>1, <2>2, <2>3, <2>4
  <1>14. Keeps(s, t) /\ SparesShift(s, t, a, g)
    <2>1. g \in Data /\ g.frozen = s.account[a].frozen
      BY <1>4
    <2> QED BY <1>9, <2>1, WritesKeeps
  <1>15. t.account[b] = to /\ t \in Ledgers
    BY <1>3, <1>9 DEF Writes, Sound
  <1>16. Keeps(t, u) /\ SparesShift(t, u, b, e)
    <2>1. e \in Data /\ e.frozen = t.account[b].frozen
      BY <1>5, <1>15
    <2> QED BY <1>9, <1>12, <2>1, WritesKeeps
  <1>17. Covered(s, t)
    <2>1. g \in Data /\ g.frozen = s.account[a].frozen /\ (g.free >= ED \/ ~Held(g))
      BY <1>3, <1>4, <1>7
    <2>2. Total(g) >= Least(Total(s.account[a]), s.account[a].frozen)
      BY <1>2, <1>3, <1>4 DEF Total
    <2> QED BY <1>9, <2>1, <2>2, WritesCovered
  <1>18. Covered(t, u)
    <2>1. e \in Data /\ e.frozen = t.account[b].frozen /\ (e.free >= ED \/ ~Held(e))
      BY <1>5, <1>15
    <2>2. Total(e) >= Least(Total(t.account[b]), t.account[b].frozen)
      BY <1>2, <1>3, <1>5, <1>15 DEF Least
    <2> QED BY <1>9, <1>12, <2>1, <2>2, WritesCovered
  <1>19. Covered(s, u)
    BY <1>3, <1>12, <1>14, <1>15, <1>17, <1>18, CoveredTwice
  <1>20. Gap(u) = Gap(s)
    <2>1. /\ Gap(t) = Gap(s) + Total(old) - Total(g)
          /\ Gap(u) = Gap(t) + Total(t.account[b]) - Total(e)
      BY <1>9, <1>12 DEF Writes
    <2>2. Total(g) = Total(old) - n /\ Total(old) \in Nat
      BY <1>2, <1>3, <1>4 DEF Total
    <2>3. Gap(s) \in Int
      BY <1>3, SupplyType
    <2> QED BY <1>2, <1>5, <1>15, <2>1, <2>2, <2>3
  <1>21. SpareMoves(s, u, a, n, b, IF status = "Reserved" THEN n ELSE 0)
    <2> SUFFICES ASSUME NEW x \in Accounts
                 PROVE  Spare(u, x) = Spare(s, x) - (IF x = a THEN n ELSE 0)
                          + (IF x = b THEN IF status = "Reserved" THEN n ELSE 0 ELSE 0)
      BY DEF SpareMoves
    <2>1. /\ Spare(t, x) = Spare(s, x) + IF x = a THEN g.reserved - old.reserved ELSE 0
          /\ Spare(u, x) = Spare(t, x) + IF x = b THEN e.reserved - t.account[b].reserved ELSE 0
      BY <1>14, <1>16 DEF SparesShift
    <2>2. Spare(s, x) \in Int
      BY <1>3, SpareType
    <2>3. /\ g.reserved - old.reserved = - n
          /\ e.reserved - t.account[b].reserved = IF status = "Reserved" THEN n ELSE 0
      BY <1>2, <1>3, <1>4, <1>5, <1>15
    <2> QED BY <1>2, <2>1, <2>2, <2>3
  <1>22. Keeps(s, u) /\ SideTablesKept(s, u)
    BY <1>9, <1>12, <1>14, <1>16 DEF Keeps, SideTablesKept, Writes
  <1>23. QED
    BY <1>13, <1>19, <1>20, <1>21, <1>22 DEF IsResult, Repatriates, n, r

-----------------------------------------------------------------------------
(* Named reserves and holds: the entry changes with the reserved balance.      *)

(* Nothing but a table of names or holds changes.                              *)
TableChange(s, t, a, n) ==
  /\ Keeps(s, t) /\ t.account = s.account
  /\ SpareGrows(s, t, a, n)
  /\ Gap(t) = Gap(s)

\* The names of an account are finitely many.
LEMMA EntriesParts ==
  ASSUME NEW f \in Entries
  PROVE  /\ DOMAIN f \in SUBSET ReserveIds /\ IsFiniteSet(DOMAIN f)
         /\ Cardinality(DOMAIN f) \in Nat /\ Cardinality(DOMAIN f) <= MaxReserves
         /\ f \in [DOMAIN f -> Nat] /\ Sum(f) \in Nat
  <1>1. PICK S \in SUBSET ReserveIds : Cardinality(S) <= MaxReserves /\ f \in [S -> Nat]
    BY DEF Entries, NameSets
  <1>2. DOMAIN f = S /\ IsFiniteSet(S)
    BY <1>1, BalancesAssumption, FS_Subset
  <1>3. Cardinality(S) \in Nat /\ Sum(f) \in Nat
    BY <1>1, <1>2, FS_CardinalityType, SumType
  <1>4. QED
    BY <1>1, <1>2, <1>3

\* An entry that is written, new or not.
LEMMA EntryWith ==
  ASSUME NEW f \in Entries, NEW id \in ReserveIds, NEW v \in Nat,
         id \in DOMAIN f \/ Cardinality(DOMAIN f) < MaxReserves
  PROVE  LET old == IF id \in DOMAIN f THEN f[id] ELSE 0
         IN  /\ With(f, id, v) \in Entries
             /\ old \in Nat /\ old <= Sum(f)
             /\ Sum(With(f, id, v)) = Sum(f) - old + v
  <1> DEFINE g == With(f, id, v)
             T == DOMAIN f \cup {id}
             old == IF id \in DOMAIN f THEN f[id] ELSE 0
  <1>1. /\ DOMAIN f \in SUBSET ReserveIds /\ IsFiniteSet(DOMAIN f)
        /\ Cardinality(DOMAIN f) \in Nat /\ Cardinality(DOMAIN f) <= MaxReserves
        /\ f \in [DOMAIN f -> Nat] /\ Sum(f) \in Nat
    BY EntriesParts
  <1>2. /\ IsFiniteSet(T)
        /\ Cardinality(T) = IF id \in DOMAIN f THEN Cardinality(DOMAIN f)
                                               ELSE Cardinality(DOMAIN f) + 1
    BY <1>1, FS_AddElement
  <1>3. Cardinality(T) <= MaxReserves
    BY <1>1, <1>2, BalancesAssumption
  <1>4. g \in [T -> Nat] /\ g[id] = v
    BY <1>1 DEF With
  <1>5. T \in NameSets
    BY <1>1, <1>3 DEF NameSets
  <1>6. g \in Entries
    BY <1>4, <1>5 DEF Entries
  <1>7. Sum(g) = Sum([j \in T \ {id} |-> g[j]]) + v
    BY <1>2, <1>4, SumSplit
  <1>8. CASE id \in DOMAIN f
    <2>1. [j \in T \ {id} |-> g[j]] = [j \in DOMAIN f \ {id} |-> f[j]]
      BY <1>8 DEF With
    <2>2. Sum(f) = Sum([j \in DOMAIN f \ {id} |-> f[j]]) + f[id]
      BY <1>1, <1>8, SumSplit
    <2> DEFINE h == [j \in DOMAIN f \ {id} |-> f[j]]
    <2>3. Sum(h) \in Nat
      <3>1. IsFiniteSet(DOMAIN f \ {id}) /\ h \in [DOMAIN f \ {id} -> Nat]
        BY <1>1, FS_Difference
      <3> QED BY <3>1, SumType
    <2>4. Sum(g) = Sum(h) + v /\ Sum(f) = Sum(h) + f[id] /\ f[id] \in Nat
      BY <1>1, <1>7, <1>8, <2>1, <2>2
    <2> HIDE DEF h, g
    <2> QED BY <1>6, <1>8, <2>3, <2>4 DEF g
  <1>9. CASE id \notin DOMAIN f
    <2>1. [j \in T \ {id} |-> g[j]] = f
      <3>1. T \ {id} = DOMAIN f
        BY <1>9
      <3>2. \A j \in DOMAIN f : g[j] = f[j]
        BY <1>9 DEF With
      <3>3. f = [j \in DOMAIN f |-> f[j]]
        BY <1>1
      <3> HIDE DEF g, T
      <3> QED BY <3>1, <3>2, <3>3
    <2>2. Sum(g) = Sum(f) + v /\ old = 0
      BY <1>7, <1>9, <2>1
    <2> HIDE DEF g
    <2> QED BY <1>1, <1>6, <2>2 DEF g
  <1>10. QED
    BY <1>8, <1>9

\* An entry that is removed.
LEMMA EntryWithout ==
  ASSUME NEW f \in Entries, NEW id \in DOMAIN f
  PROVE  /\ Without(f, id) \in Entries
         /\ Sum(Without(f, id)) = Sum(f) - f[id]
  <1> DEFINE g == Without(f, id)
             T == DOMAIN f \ {id}
  <1>1. /\ DOMAIN f \in SUBSET ReserveIds /\ IsFiniteSet(DOMAIN f)
        /\ Cardinality(DOMAIN f) \in Nat /\ Cardinality(DOMAIN f) <= MaxReserves
        /\ f \in [DOMAIN f -> Nat] /\ Sum(f) \in Nat
    BY EntriesParts
  <1>2. T \in SUBSET DOMAIN f /\ T \in SUBSET ReserveIds
    BY <1>1
  <1>3. IsFiniteSet(T) /\ Cardinality(T) <= Cardinality(DOMAIN f) /\ Cardinality(T) \in Nat
    BY <1>1, <1>2, FS_Subset, FS_CardinalityType
  <1>4. T \in NameSets
    BY <1>1, <1>2, <1>3, BalancesAssumption DEF NameSets
  <1>5. g \in [T -> Nat]
    BY <1>1 DEF Without
  <1>6. g \in Entries
    BY <1>4, <1>5 DEF Entries
  <1>7. Sum(f) = Sum(g) + f[id]
    BY <1>1, SumSplit DEF Without
  <1>8. Sum(g) \in Nat /\ f[id] \in Nat
    BY <1>1, <1>3, <1>5, SumType
  <1> HIDE DEF g
  <1>9. QED
    BY <1>6, <1>7, <1>8 DEF g

\* The named reserves of an account, written.
LEMMA Naming ==
  ASSUME NEW s, Sound(s), NEW a \in Accounts, NEW f \in Entries
  PROVE  LET t == [s EXCEPT !.reserves[a] = f]
         IN  /\ TableChange(s, t, a, Sum(s.reserves[a]) - Sum(f))
             /\ t.holds = s.holds /\ t.reserves = [s.reserves EXCEPT ![a] = f]
  <1> DEFINE t == [s EXCEPT !.reserves[a] = f]
  <1>1. s \in Ledgers
    BY DEF Sound
  <1>2. /\ t \in Ledgers
        /\ t.account = s.account /\ t.providers = s.providers /\ t.consumers = s.consumers
        /\ t.locks = s.locks /\ t.freezes = s.freezes /\ t.holds = s.holds
        /\ t.issuance = s.issuance
        /\ t.reserves = [s.reserves EXCEPT ![a] = f]
    BY <1>1 DEF Ledgers
  <1> HIDE DEF t
  <1>3. Sound(t) /\ Gap(t) = Gap(s)
    BY <1>2, SameAccounts DEF Gap, Supply
  <1>4. Keeps(s, t)
    BY <1>2, <1>3 DEF Keeps
  <1>5. ASSUME NEW x \in Accounts
        PROVE  Spare(t, x) = Spare(s, x)
                 + IF x = a THEN Sum(s.reserves[a]) - Sum(f) ELSE 0
    <2>1. /\ Sum(s.holds[x]) \in Nat /\ Sum(s.reserves[x]) \in Nat /\ s.account[x].reserved \in Nat
      BY <1>1, SpareType
    <2>2. Sum(f) \in Nat
      BY EntriesParts
    <2>3. t.account[x] = s.account[x] /\ t.holds[x] = s.holds[x]
      BY <1>2
    <2>4. CASE x = a
      <3>1. t.reserves[x] = f
        BY <1>1, <1>2, <2>4, LedgerParts
      <3> QED BY <2>1, <2>2, <2>3, <2>4, <3>1 DEF Spare
    <2>5. CASE x # a
      <3>1. t.reserves[x] = s.reserves[x]
        BY <1>1, <1>2, <2>5, LedgerParts
      <3> QED BY <2>1, <2>3, <2>5, <3>1 DEF Spare
    <2> QED BY <2>4, <2>5
  <1>6. TableChange(s, t, a, Sum(s.reserves[a]) - Sum(f))
    BY <1>2, <1>3, <1>4, <1>5 DEF TableChange, SpareGrows
  <1>7. QED
    BY <1>2, <1>6 DEF t

\* The spare reserves that one write frees and the other uses.
LEMMA NeutralAfter ==
  ASSUME NEW s \in Ledgers, NEW t, NEW u, NEW a \in Accounts, NEW n \in Int, NEW m \in Int,
         Keeps(s, t), Covered(s, t), Gap(t) = Gap(s), SpareGrows(s, t, a, n),
         TableChange(t, u, a, m), n + m = 0
  PROVE  Neutral(s, u)
  <1>1. Keeps(s, u) /\ Gap(u) = Gap(s)
    BY DEF Keeps, TableChange
  <1>2. Covered(s, u)
    BY DEF Covered, TableChange
  <1>3. ASSUME NEW x \in Accounts PROVE Spare(u, x) = Spare(s, x)
    <2>1. /\ Spare(t, x) = Spare(s, x) + IF x = a THEN n ELSE 0
          /\ Spare(u, x) = Spare(t, x) + IF x = a THEN m ELSE 0
      BY DEF SpareGrows, TableChange
    <2>2. Spare(s, x) \in Int
      BY SpareType
    <2> QED BY <2>1, <2>2
  <1>4. QED
    BY <1>1, <1>2, <1>3 DEF Neutral, SparesKept

\* What an account has reserved under a name is part of what it has reserved.
LEMMA NamedPart ==
  ASSUME NEW s, Sound(s), NEW a \in Accounts, NEW id \in ReserveIds, Spare(s, a) >= 0
  PROVE  /\ s.reserves[a] \in Entries
         /\ NamedReserve(s, id, a) \in Nat
         /\ NamedReserve(s, id, a) <= s.account[a].reserved
  <1>1. /\ s \in Ledgers /\ s.reserves[a] \in Entries
        /\ Sum(s.holds[a]) \in Nat /\ Sum(s.reserves[a]) \in Nat
        /\ s.account[a].reserved \in Nat
    BY LedgerParts, SpareType DEF Sound
  <1>2. /\ s.reserves[a] \in [DOMAIN s.reserves[a] -> Nat]
        /\ IsFiniteSet(DOMAIN s.reserves[a])
    BY <1>1, EntriesParts
  <1>3. NamedReserve(s, id, a) \in Nat /\ NamedReserve(s, id, a) <= Sum(s.reserves[a])
    <2>1. CASE id \in DOMAIN s.reserves[a]
      <3>1. s.reserves[a][id] <= Sum(s.reserves[a])
        BY <1>2, <2>1, SumCovers
      <3> QED BY <1>2, <2>1, <3>1 DEF NamedReserve
    <2>2. CASE id \notin DOMAIN s.reserves[a]
      BY <1>1, <2>2 DEF NamedReserve
    <2> QED BY <2>1, <2>2
  <1>4. QED
    BY <1>1, <1>3 DEF Spare

\* Reserving, too, returns a result.
LEMMA ReserveResults ==
  ASSUME NEW s, NEW a, NEW v
  PROVE  IsResult(Reserved(s, a, v)) /\ IsResult(Unreserved(s, a, v))
  <1>1. IsResult(Reserved(s, a, v))
    <2>1. PICK d : Reserved(s, a, v) = Mutate(s, a, d) \/ Reserved(s, a, v) = Refused(s)
      BY DEF Reserved
    <2> QED BY <2>1, Results
  <1>2. IsResult(Unreserved(s, a, v))
    BY Results DEF Unreserved
  <1>3. QED
    BY <1>1, <1>2

\* reserve_named (impl_currency.rs:768-799).
LEMMA NamingReserved ==
  ASSUME NEW s, Sound(s), Gap(s) >= 0, NEW a \in Accounts, NEW id \in ReserveIds,
         NEW v \in Nat, Spare(s, a) >= 0, NamedReserved(s, id, a, v).ok
  PROVE  Neutral(s, NamedReserved(s, id, a, v).s)
  <1> DEFINE r == Reserved(s, a, v)
             t == r.s
             w == NamedReserve(s, id, a) + v
             f == With(s.reserves[a], id, w)
             z == NamedReserved(s, id, a, v)
             zz == [r EXCEPT !.s.reserves[a] = With(@, id, w)]
             u == [t EXCEPT !.reserves[a] = f]
  <1>1. IsResult(r)
    BY ReserveResults
  <1>2. r.ok /\ HasRoom(s, id, a) /\ z = zz
    <2>1. z = IF ~r.ok \/ ~HasRoom(s, id, a) THEN Refused(s) ELSE zz
      BY DEF NamedReserved
    <2>2. Refused(s).ok = FALSE
      BY DEF Refused
    <2> HIDE DEF z, zz, r
    <2>3. z.ok
      BY DEF z
    <2> QED BY <2>1, <2>2, <2>3
  <1>3. /\ Keeps(s, t) /\ SideTablesKept(s, t) /\ SpareGrows(s, t, a, v)
        /\ Gap(t) = Gap(s) /\ Covered(s, t)
    <2>1. Sound(s) /\ Gap(s) >= 0 /\ a \in Accounts /\ v \in Nat /\ r.ok
      BY <1>2
    <2> QED BY ONLY <2>1, Reserving
  <1>4. /\ s \in Ledgers /\ s.reserves[a] \in Entries
        /\ NamedReserve(s, id, a) \in Nat /\ w \in Nat
    BY NamedPart DEF Sound
  <1>5. f \in Entries /\ Sum(f) = Sum(s.reserves[a]) + v /\ Sum(s.reserves[a]) \in Nat
    <2>1. id \in DOMAIN s.reserves[a] \/ Cardinality(DOMAIN s.reserves[a]) < MaxReserves
      BY <1>2 DEF HasRoom
    <2>2. f \in Entries /\ Sum(f) = Sum(s.reserves[a]) - NamedReserve(s, id, a) + w
      BY <1>4, <2>1, EntryWith DEF NamedReserve
    <2>3. Sum(s.reserves[a]) \in Nat
      BY <1>4, EntriesParts
    <2> HIDE DEF f
    <2> QED BY <1>4, <2>2, <2>3
  <1> HIDE DEF w
  <1>6. z.s = u
    <2>1. t.reserves = s.reserves
      BY <1>3 DEF SideTablesKept
    <2>2. zz.s = [t EXCEPT !.reserves[a] = With(t.reserves[a], id, w)]
      <3> HIDE DEF r
      <3> QED BY <1>1 DEF IsResult
    <2> QED BY <1>2, <2>1, <2>2
  <1>7. TableChange(t, u, a, Sum(s.reserves[a]) - Sum(f))
    <2>1. Sound(t) /\ t.reserves = s.reserves
      BY <1>3 DEF Keeps, SideTablesKept
    <2> HIDE DEF t, f
    <2> QED BY <1>5, <2>1, Naming
  <1>8. Neutral(s, u)
    <2>1. v + (Sum(s.reserves[a]) - Sum(f)) = 0 /\ v \in Int /\ Sum(s.reserves[a]) - Sum(f) \in Int
      <3> HIDE DEF f
      <3> QED BY <1>5
    <2> HIDE DEF t, u, f
    <2> QED BY <1>3, <1>4, <1>7, <2>1, NeutralAfter
  <1>9. QED
    BY <1>6, <1>8

\* unreserve_named (impl_currency.rs:804-844): no more than the entry has is
\* given back, and an entry that is used up goes.
LEMMA NamingUnreserved ==
  ASSUME NEW s, Sound(s), Gap(s) >= 0, NEW a \in Accounts, NEW id \in ReserveIds,
         NEW v \in Nat, Spare(s, a) >= 0, NamedUnreserved(s, id, a, v).ok
  PROVE  Neutral(s, NamedUnreserved(s, id, a, v).s)
  <1> DEFINE n == Change(s, id, a, v)
             r == Unreserved(s, a, n)
             t == r.s
             left == NamedReserve(s, id, a) - n
             f == IF left = 0 THEN Without(s.reserves[a], id) ELSE With(s.reserves[a], id, left)
             z == NamedUnreserved(s, id, a, v)
             zz == [r EXCEPT !.s.reserves[a] = IF left = 0 THEN Without(@, id)
                                                           ELSE With(@, id, left)]
             u == [t EXCEPT !.reserves[a] = f]
  <1>1. id \in DOMAIN s.reserves[a] /\ z = zz
    <2>1. z = IF id \notin DOMAIN s.reserves[a] \/ ~r.ok THEN Refused(s) ELSE zz
      BY DEF NamedUnreserved
    <2>2. Refused(s).ok = FALSE
      BY DEF Refused
    <2> HIDE DEF z, zz, r
    <2>3. z.ok
      BY DEF z
    <2> QED BY <2>1, <2>2, <2>3
  <1>2. /\ s \in Ledgers /\ s.reserves[a] \in Entries
        /\ NamedReserve(s, id, a) \in Nat
        /\ NamedReserve(s, id, a) <= s.account[a].reserved
    BY NamedPart DEF Sound
  <1>3. /\ n \in Nat /\ n <= NamedReserve(s, id, a) /\ n <= s.account[a].reserved
        /\ left \in Nat /\ s.account[a].reserved \in Nat
    BY <1>2, SpareType DEF Change, Least
  <1> HIDE DEF n
  <1>4. Unreserves(s, t, a, n)
    BY <1>3, UnreservingAll
  <1>5. /\ IsResult(r) /\ Keeps(s, t) /\ SideTablesKept(s, t) /\ SpareGrows(s, t, a, - n)
        /\ Gap(t) = Gap(s) /\ Covered(s, t)
    BY <1>4, ReserveResults DEF Unreserves
  <1>6. f \in Entries /\ Sum(f) = Sum(s.reserves[a]) - n /\ Sum(s.reserves[a]) \in Nat
    <2>1. Sum(s.reserves[a]) \in Nat /\ NamedReserve(s, id, a) = s.reserves[a][id]
      BY <1>1, <1>2, EntriesParts DEF NamedReserve
    <2>2. CASE left = 0
      <3>1. f = Without(s.reserves[a], id) /\ n = NamedReserve(s, id, a)
        BY <1>2, <1>3, <2>2
      <3> HIDE DEF f
      <3> QED BY <1>1, <1>2, <2>1, <3>1, EntryWithout
    <2>3. CASE left # 0
      <3>1. f = With(s.reserves[a], id, left)
        BY <2>3
      <3>2. /\ With(s.reserves[a], id, left) \in Entries
            /\ Sum(With(s.reserves[a], id, left)) = Sum(s.reserves[a]) - NamedReserve(s, id, a) + left
        <4> HIDE DEF left
        <4> QED BY <1>1, <1>2, <1>3, EntryWith DEF NamedReserve
      <3> HIDE DEF f
      <3> QED BY <1>2, <1>3, <2>1, <3>1, <3>2
    <2> QED BY <2>2, <2>3
  <1> HIDE DEF left
  <1>7. z.s = u
    <2>1. t.reserves = s.reserves
      BY <1>5 DEF SideTablesKept
    <2>2. zz.s = [t EXCEPT !.reserves[a] = IF left = 0 THEN Without(t.reserves[a], id)
                                                       ELSE With(t.reserves[a], id, left)]
      <3> HIDE DEF r
      <3> QED BY <1>5 DEF IsResult
    <2> QED BY <1>1, <2>1, <2>2
  <1>8. TableChange(t, u, a, Sum(s.reserves[a]) - Sum(f))
    <2>1. Sound(t) /\ t.reserves = s.reserves
      BY <1>5 DEF Keeps, SideTablesKept
    <2> HIDE DEF t, f
    <2> QED BY <1>6, <2>1, Naming
  <1>9. Neutral(s, u)
    <2>1. - n + (Sum(s.reserves[a]) - Sum(f)) = 0 /\ - n \in Int
          /\ Sum(s.reserves[a]) - Sum(f) \in Int
      <3> HIDE DEF f
      <3> QED BY <1>3, <1>6
    <2> HIDE DEF t, u, f
    <2> QED BY <1>2, <1>5, <1>8, <2>1, NeutralAfter
  <1>10. QED
    BY <1>7, <1>9

\* The slashing returns a result, too, and so does do_transfer_reserved.
LEMMA SlashResults ==
  ASSUME NEW s, NEW a, NEW v
  PROVE  IsResult(ReservedSlashed(s, a, v))
  BY Results DEF ReservedSlashed

\* slash_reserved_named (impl_currency.rs:848-881): what the name loses is what
\* the issuance keeps for the imbalance.
LEMMA NamingSlashed ==
  ASSUME NEW s, Sound(s), NEW a \in Accounts, NEW id \in ReserveIds,
         NEW v \in Nat, Spare(s, a) >= 0, NamedSlashed(s, id, a, v).ok
  PROVE  LET t == NamedSlashed(s, id, a, v).s
         IN  /\ Keeps(s, t) /\ SparesKept(s, t)
             /\ Change(s, id, a, v) \in Nat
             /\ Gap(t) = Gap(s) + Change(s, id, a, v)
  <1> DEFINE n == Change(s, id, a, v)
             r == ReservedSlashed(s, a, n)
             t == r.s
             left == NamedReserve(s, id, a) - n
             f == With(s.reserves[a], id, left)
             z == NamedSlashed(s, id, a, v)
             zz == [r EXCEPT !.s.reserves[a] = With(@, id, left)]
             u == [t EXCEPT !.reserves[a] = f]
  <1>1. id \in DOMAIN s.reserves[a] /\ z = zz
    <2>1. z = IF id \notin DOMAIN s.reserves[a] \/ ~r.ok THEN Refused(s) ELSE zz
      BY DEF NamedSlashed
    <2>2. Refused(s).ok = FALSE
      BY DEF Refused
    <2> HIDE DEF z, zz, r
    <2>3. z.ok
      BY DEF z
    <2> QED BY <2>1, <2>2, <2>3
  <1>2. /\ s \in Ledgers /\ s.reserves[a] \in Entries
        /\ NamedReserve(s, id, a) \in Nat
        /\ NamedReserve(s, id, a) <= s.account[a].reserved
    BY NamedPart DEF Sound
  <1>3. /\ n \in Nat /\ n <= s.account[a].reserved
        /\ left \in Nat /\ s.account[a].reserved \in Nat
    BY <1>2, SpareType DEF Change, Least
  <1> HIDE DEF n
  <1>4. /\ IsResult(r) /\ Keeps(s, t) /\ SideTablesKept(s, t)
        /\ SpareGrows(s, t, a, - n) /\ Gap(t) = Gap(s) + n
    <2>1. IsResult(r)
      BY SlashResults
    <2>2. n \in Nat
      BY <1>3
    <2> HIDE DEF left
    <2>3. /\ Keeps(s, t) /\ SideTablesKept(s, t)
          /\ Gap(t) = Gap(s) + Least(s.account[a].reserved, n)
          /\ SpareGrows(s, t, a, - Least(s.account[a].reserved, n))
      BY <2>2, SlashingReserved
    <2>4. Least(s.account[a].reserved, n) = n
      BY <1>3 DEF Least
    <2> HIDE DEF r
    <2> QED BY <2>1, <2>3, <2>4
  <1>5. f \in Entries /\ Sum(f) = Sum(s.reserves[a]) - n /\ Sum(s.reserves[a]) \in Nat
    <2>1. Sum(s.reserves[a]) \in Nat
      BY <1>2, EntriesParts
    <2>2. f \in Entries /\ Sum(f) = Sum(s.reserves[a]) - NamedReserve(s, id, a) + left
      <3>1. left \in Nat
        BY <1>3
      <3> HIDE DEF left
      <3> QED BY <1>1, <1>2, <3>1, EntryWith DEF NamedReserve
    <2> HIDE DEF f
    <2> QED BY <1>2, <1>3, <2>1, <2>2
  <1> HIDE DEF left
  <1>6. z.s = u
    <2>1. t.reserves = s.reserves
      BY <1>4 DEF SideTablesKept
    <2>2. zz.s = [t EXCEPT !.reserves[a] = With(t.reserves[a], id, left)]
      <3> HIDE DEF r
      <3> QED BY <1>4 DEF IsResult
    <2> QED BY <1>1, <2>1, <2>2
  <1>7. TableChange(t, u, a, Sum(s.reserves[a]) - Sum(f))
    <2>1. Sound(t) /\ t.reserves = s.reserves
      BY <1>4 DEF Keeps, SideTablesKept
    <2> HIDE DEF t, f
    <2> QED BY <1>5, <2>1, Naming
  <1>8. Sum(s.reserves[a]) - Sum(f) = n
    <2> HIDE DEF f
    <2> QED BY <1>3, <1>5
  <1> HIDE DEF t, u, f
  <1>9. Keeps(s, u) /\ Gap(u) = Gap(s) + n
    BY <1>4, <1>7 DEF Keeps, TableChange
  <1>10. ASSUME NEW x \in Accounts PROVE Spare(u, x) = Spare(s, x)
    <2>1. /\ Spare(t, x) = Spare(s, x) + IF x = a THEN - n ELSE 0
          /\ Spare(u, x) = Spare(t, x) + IF x = a THEN n ELSE 0
      BY <1>4, <1>7, <1>8 DEF SpareGrows, TableChange
    <2>2. Spare(s, x) \in Int
      BY <1>2, SpareType
    <2> QED BY <1>3, <2>1, <2>2
  <1>11. QED
    BY <1>3, <1>6, <1>9, <1>10 DEF SparesKept, n

\* Nothing done is neutral.
LEMMA NeutralStill ==
  ASSUME NEW s, Sound(s)
  PROVE  Neutral(s, s)
  <1>1. Covered(s, s)
    <2> SUFFICES ASSUME NEW x \in Accounts
                 PROVE  Total(s.account[x]) >= Least(Total(s.account[x]), s.account[x].frozen)
      BY DEF Covered
    <2>1. Total(s.account[x]) \in Nat /\ s.account[x].frozen \in Nat
      BY SoundAt, DataParts
    <2> QED BY <2>1 DEF Least
  <1>2. QED
    BY <1>1 DEF Neutral, Keeps, SparesKept

(* The two parts of repatriate_reserved_named between two accounts.            *)
NamesTaken(s, id, a, n, r) ==
  [r EXCEPT !.s.reserves[a] = With(@, id, NamedReserve(s, id, a) - n)]

NamesGiven(s, id, b, n, taken) ==
  [taken EXCEPT !.s.reserves[b] = With(@, id, NamedReserve(s, id, b) + n)]

\* repatriate_reserved_named (impl_currency.rs:888-955): the entries change by
\* what was moved, on both sides.
LEMMA NamingRepatriated ==
  ASSUME NEW s, Sound(s), NEW a \in Accounts, NEW b \in Accounts, a # b,
         NEW id \in ReserveIds, NEW v \in Nat, \A x \in Accounts : Spare(s, x) >= 0,
         NEW status \in {"Free", "Reserved"}, NamedRepatriated(s, id, a, b, v, status).ok
  PROVE  Neutral(s, NamedRepatriated(s, id, a, b, v, status).s)
  <1> DEFINE n == Movable(s, a, Change(s, id, a, v))
             r == Repatriated(s, a, b, Change(s, id, a, v), status)
             t == r.s
             f == With(s.reserves[a], id, NamedReserve(s, id, a) - n)
             e == With(s.reserves[b], id, NamedReserve(s, id, b) + n)
             taken == NamesTaken(s, id, a, n, r)
             given == NamesGiven(s, id, b, n, taken)
             u == [t EXCEPT !.reserves[a] = f]
             w == [u EXCEPT !.reserves[b] = e]
             z == NamedRepatriated(s, id, a, b, v, status)
  <1>1. /\ id \in DOMAIN s.reserves[a] /\ r.ok
        /\ status = "Free" => z = taken
        /\ status = "Reserved" => z = given /\ HasRoom(s, id, b)
    <2>1. z = IF a = b
              THEN IF status = "Free" THEN NamedUnreserved(s, id, a, v)
                                      ELSE [ok |-> TRUE, s |-> s, dust |-> 0]
              ELSE IF id \notin DOMAIN s.reserves[a] \/ ~r.ok
                      \/ (status = "Reserved" /\ ~HasRoom(s, id, b))
              THEN Refused(s)
              ELSE IF status = "Free" THEN taken ELSE given
      BY DEF NamedRepatriated, NamesTaken, NamesGiven
    <2>2. Refused(s).ok = FALSE
      BY DEF Refused
    <2> HIDE DEF z, taken, given, r
    <2>3. z.ok
      BY DEF z
    <2> QED BY <2>1, <2>2, <2>3
  <1>2. /\ s \in Ledgers
        /\ s.reserves[a] \in Entries /\ s.reserves[b] \in Entries
        /\ NamedReserve(s, id, a) \in Nat /\ NamedReserve(s, id, b) \in Nat
        /\ Sum(s.reserves[a]) \in Nat /\ Sum(s.reserves[b]) \in Nat
    <2>1. Spare(s, a) >= 0 /\ Spare(s, b) >= 0
      OBVIOUS
    <2> QED BY <2>1, NamedPart, EntriesParts DEF Sound
  <1>3. n \in Nat /\ n <= NamedReserve(s, id, a)
    <2>1. Change(s, id, a, v) \in Nat /\ Change(s, id, a, v) <= NamedReserve(s, id, a)
      BY <1>2 DEF Change, Least
    <2>2. n \in Nat /\ n <= Change(s, id, a, v)
      BY <2>1, MovableOf
    <2> HIDE DEF n
    <2> QED BY <1>2, <2>1, <2>2
  <1>4. IsResult(r) /\ Repatriates(s, t, a, b, n, status)
    <2>1. Change(s, id, a, v) \in Nat
      BY <1>2 DEF Change, Least
    <2> QED BY <1>1, <2>1, Repatriating
  <1> HIDE DEF n, r
  <1>5. /\ Keeps(s, t) /\ Gap(t) = Gap(s) /\ Covered(s, t) /\ t.reserves = s.reserves
        /\ SpareMoves(s, t, a, n, b, IF status = "Reserved" THEN n ELSE 0)
    BY <1>4 DEF Repatriates, SideTablesKept
  <1>6. f \in Entries /\ Sum(s.reserves[a]) - Sum(f) = n
    <2>1. NamedReserve(s, id, a) - n \in Nat
      BY <1>2, <1>3
    <2>2. f \in Entries /\ Sum(f) = Sum(s.reserves[a]) - NamedReserve(s, id, a)
                                      + (NamedReserve(s, id, a) - n)
      BY <1>1, <1>2, <2>1, EntryWith DEF NamedReserve
    <2> HIDE DEF f
    <2> QED BY <1>2, <1>3, <2>2
  <1>7. HasRoom(s, id, b) => e \in Entries /\ Sum(s.reserves[b]) - Sum(e) = - n
    <2> SUFFICES ASSUME HasRoom(s, id, b)
                 PROVE  e \in Entries /\ Sum(s.reserves[b]) - Sum(e) = - n
      OBVIOUS
    <2>1. NamedReserve(s, id, b) + n \in Nat
      BY <1>2, <1>3
    <2>2. id \in DOMAIN s.reserves[b] \/ Cardinality(DOMAIN s.reserves[b]) < MaxReserves
      BY DEF HasRoom
    <2>3. e \in Entries /\ Sum(e) = Sum(s.reserves[b]) - NamedReserve(s, id, b)
                                      + (NamedReserve(s, id, b) + n)
      BY <1>2, <2>1, <2>2, EntryWith DEF NamedReserve
    <2> HIDE DEF e
    <2> QED BY <1>2, <1>3, <2>3
  <1>8. taken.s = u /\ IsResult(taken)
    <2>1. taken = [r EXCEPT !.s.reserves[a] = With(t.reserves[a], id, NamedReserve(s, id, a) - n)]
      BY DEF NamesTaken
    <2> HIDE DEF f
    <2>2. taken = [r EXCEPT !.s.reserves[a] = f]
      BY <1>5, <2>1 DEF f
    <2> HIDE DEF taken
    <2> QED BY <1>4, <2>2 DEF IsResult
  <1> HIDE DEF f, t
  <1>9. TableChange(t, u, a, n) /\ u.reserves = [t.reserves EXCEPT ![a] = f]
    <2>1. /\ TableChange(t, u, a, Sum(t.reserves[a]) - Sum(f))
          /\ u.reserves = [t.reserves EXCEPT ![a] = f]
      BY <1>5, <1>6, Naming DEF Keeps
    <2> HIDE DEF u
    <2> QED BY <1>5, <1>6, <2>1
  <1> HIDE DEF u, taken, e
  <1>10. Keeps(s, u) /\ Gap(u) = Gap(s) /\ Covered(s, u)
    BY <1>5, <1>9 DEF Keeps, TableChange, Covered
  <1>11. \A x \in Accounts : Spare(s, x) \in Int
    BY <1>2, SpareType
  <1>12. \A x \in Accounts :
           Spare(u, x) = Spare(s, x) + IF x = b THEN IF status = "Reserved" THEN n ELSE 0 ELSE 0
    <2> SUFFICES ASSUME NEW x \in Accounts
                 PROVE  Spare(u, x) = Spare(s, x)
                          + IF x = b THEN IF status = "Reserved" THEN n ELSE 0 ELSE 0
      OBVIOUS
    <2>1. /\ Spare(t, x) = Spare(s, x) - (IF x = a THEN n ELSE 0)
               + (IF x = b THEN IF status = "Reserved" THEN n ELSE 0 ELSE 0)
          /\ Spare(u, x) = Spare(t, x) + IF x = a THEN n ELSE 0
      BY <1>5, <1>9 DEF SpareMoves, SpareGrows, TableChange
    <2> QED BY <1>3, <1>11, <2>1
  <1>13. CASE status = "Free"
    <2>1. z.s = u
      BY <1>1, <1>8, <1>13
    <2>2. SparesKept(s, u)
      BY <1>11, <1>12, <1>13 DEF SparesKept
    <2> QED BY <1>10, <2>1, <2>2 DEF Neutral
  <1>14. CASE status = "Reserved"
    <2>1. HasRoom(s, id, b) /\ z = given
      BY <1>1, <1>14
    <2>2. u.reserves[b] = s.reserves[b]
      <3>1. t \in Ledgers
        BY <1>5 DEF Keeps, Sound
      <3> QED BY <1>5, <1>9, <3>1, LedgerParts
    <2>3. given.s = w
      <3>1. given = [taken EXCEPT !.s.reserves[b] = With(u.reserves[b], id,
                                                         NamedReserve(s, id, b) + n)]
        BY <1>8 DEF NamesGiven
      <3>2. given = [taken EXCEPT !.s.reserves[b] = e]
        BY <2>2, <3>1 DEF e
      <3> HIDE DEF given
      <3> QED BY <1>8, <3>2 DEF IsResult
    <2>4. TableChange(u, w, b, - n)
      <3>1. e \in Entries /\ Sum(u.reserves[b]) - Sum(e) = - n
        BY <1>7, <2>1, <2>2
      <3>2. TableChange(u, w, b, Sum(u.reserves[b]) - Sum(e))
        BY <1>10, <3>1, Naming DEF Keeps
      <3> HIDE DEF w
      <3> QED BY <3>1, <3>2
    <2> HIDE DEF w, given, z
    <2>5. SpareGrows(s, u, b, n)
      BY <1>12, <1>14 DEF SpareGrows
    <2>6. Neutral(s, w)
      <3>1. n \in Int /\ - n \in Int /\ n + - n = 0
        BY <1>3
      <3> QED BY <1>2, <1>10, <2>4, <2>5, <3>1, NeutralAfter
    <2> QED BY <2>1, <2>3, <2>6 DEF z
  <1>15. QED
    BY <1>13, <1>14

\* A hold of an account, written.
LEMMA Reholding ==
  ASSUME NEW s, Sound(s), NEW a \in Accounts, NEW reason \in HoldReasons, NEW v \in Nat
  PROVE  TableChange(s, [s EXCEPT !.holds[a][reason] = v], a, s.holds[a][reason] - v)
  <1> DEFINE t == [s EXCEPT !.holds[a][reason] = v]
             f == [s.holds[a] EXCEPT ![reason] = v]
             n == s.holds[a][reason] - v
  <1>1. s \in Ledgers /\ s.holds[a] \in [HoldReasons -> Nat] /\ IsFiniteSet(HoldReasons)
    BY LedgerParts, BalancesAssumption DEF Sound
  <1>2. f \in [HoldReasons -> Nat] /\ f[reason] = v /\ \A i \in HoldReasons \ {reason} : f[i] = s.holds[a][i]
    BY <1>1
  <1>3. Sum(f) = Sum(s.holds[a]) - s.holds[a][reason] + v
    <2> HIDE DEF f
    <2> QED BY <1>1, <1>2, SumChange
  <1>4. Sum(f) \in Nat /\ Sum(s.holds[a]) \in Nat /\ s.holds[a][reason] \in Nat
    <2> HIDE DEF f
    <2> QED BY <1>1, <1>2, SumType
  <1>5. /\ t \in Ledgers
        /\ t.account = s.account /\ t.providers = s.providers /\ t.consumers = s.consumers
        /\ t.locks = s.locks /\ t.freezes = s.freezes /\ t.reserves = s.reserves
        /\ t.issuance = s.issuance
        /\ t.holds = [s.holds EXCEPT ![a] = f]
    <2>1. t = [s EXCEPT !.holds[a] = f]
      OBVIOUS
    <2> HIDE DEF t, f
    <2> QED BY <1>1, <1>2, <2>1 DEF Ledgers
  <1> HIDE DEF t, f
  <1>6. Sound(t) /\ Gap(t) = Gap(s)
    BY <1>5, SameAccounts DEF Gap, Supply
  <1>7. Keeps(s, t)
    BY <1>5, <1>6 DEF Keeps
  <1>8. ASSUME NEW x \in Accounts
        PROVE  Spare(t, x) = Spare(s, x) + IF x = a THEN n ELSE 0
    <2>1. /\ Sum(s.holds[x]) \in Nat /\ Sum(s.reserves[x]) \in Nat /\ s.account[x].reserved \in Nat
      BY <1>1, SpareType
    <2>2. t.account[x] = s.account[x] /\ t.reserves[x] = s.reserves[x]
      BY <1>5
    <2>3. CASE x = a
      <3>1. t.holds[x] = f
        BY <1>1, <1>5, <2>3, LedgerParts
      <3> QED BY <1>3, <1>4, <2>1, <2>2, <2>3, <3>1 DEF Spare
    <2>4. CASE x # a
      <3>1. t.holds[x] = s.holds[x]
        BY <1>1, <1>5, <2>4, LedgerParts
      <3> HIDE DEF n
      <3> QED BY <2>1, <2>2, <2>4, <3>1 DEF Spare
    <2> QED BY <2>3, <2>4
  <1>9. QED
    BY <1>5, <1>6, <1>7, <1>8 DEF TableChange, SpareGrows, t

(* What set_balance_on_hold does when it is not refused.                       *)
Holds(s, t, a, d, n) ==
  /\ Keeps(s, t) /\ SparesKept(s, t)
  /\ t.account = [s.account EXCEPT ![a] = d]
  /\ Gap(t) = Gap(s) - n

\* set_balance_on_hold (impl_fungible.rs:230-289) on a live account: the reserved
\* balance and the hold change by the same amount, which the issuance does not
\* cover yet.
LEMMA Holding ==
  ASSUME NEW s, Sound(s), NEW a \in Accounts, NEW reason \in HoldReasons, NEW v \in Nat,
         s.account[a].free >= ED, s.account[a].reserved + v >= s.holds[a][reason]
  PROVE  LET n == v - s.holds[a][reason]
             d == [s.account[a] EXCEPT !.reserved = @ + v - s.holds[a][reason]]
             r == SetBalanceOnHold(s, reason, a, v)
         IN  /\ r.ok /\ n \in Int
             /\ d \in Data /\ d.free = s.account[a].free /\ d.frozen = s.account[a].frozen
             /\ d.reserved = s.account[a].reserved + n
             /\ Holds(s, r.s, a, d, n)
  <1> DEFINE h == s.holds[a][reason]
             old == s.account[a]
             n == v - h
             m == old.reserved + v - h
             d == [s.account[a] EXCEPT !.reserved = @ + v - s.holds[a][reason]]
             r == MutateAccount(s, a, d)
             t == Settled(s, a, d)
             u == [t EXCEPT !.holds[a][reason] = v]
             z == SetBalanceOnHold(s, reason, a, v)
  <1>1. /\ s \in Ledgers /\ old \in Data /\ ED \in Nat /\ h \in Nat
        /\ old.free \in Nat /\ old.reserved \in Nat /\ old.frozen \in Nat
    BY SoundAt, DataParts, LedgerParts, BalancesAssumption
  <1>2. m \in Nat /\ n \in Int
    BY <1>1
  <1>3. d = [old EXCEPT !.reserved = m]
    OBVIOUS
  <1> HIDE DEF d
  <1>4. d \in Data /\ d.free = old.free /\ d.reserved = old.reserved + n /\ d.frozen = old.frozen
    <2>1. d \in Data /\ d.free = old.free /\ d.reserved = m /\ d.frozen = old.frozen
      <3> HIDE DEF m
      <3> QED BY <1>1, <1>2, <1>3, DataOnce
    <2> QED BY <1>1, <2>1
  <1>5. d.free >= ED
    BY <1>4
  <1>6. r = [ok |-> TRUE, dust |-> 0, s |-> t]
    <2>1. r = IF d.free >= ED \/ ~Held(d)
              THEN [ok |-> TRUE, dust |-> IF d.free >= ED THEN 0 ELSE d.free, s |-> t]
              ELSE Refused(s)
      BY <1>4, Mutating
    <2> HIDE DEF r, t
    <2> QED BY <1>5, <2>1
  <1>7. z.ok /\ z.s = u
    <2>1. z = IF old.reserved + v < h \/ ~r.ok THEN Refused(s)
              ELSE [r EXCEPT !.s.holds[a][reason] = v]
      BY DEF SetBalanceOnHold, d
    <2>2. ~(old.reserved + v < h) /\ r.ok
      BY <1>1, <1>6
    <2>3. z = [r EXCEPT !.s = [r.s EXCEPT !.holds[a][reason] = v]]
      BY <2>1, <2>2
    <2> HIDE DEF z, r, t
    <2>4. IsResult(r) /\ r.s = t
      BY <1>6 DEF IsResult
    <2> QED BY <1>6, <2>3, <2>4, ResultChange
  <1>8. Writes(s, t, a, d)
    BY <1>4, <1>5, SettledWrites
  <1> HIDE DEF r, t, z
  <1>9. /\ Keeps(s, t) /\ SparesShift(s, t, a, d) /\ t.account = [s.account EXCEPT ![a] = d]
        /\ Sound(t) /\ t.holds = s.holds
        /\ Gap(t) = Gap(s) + Total(old) - Total(d)
    <2>1. Keeps(s, t) /\ SparesShift(s, t, a, d)
      BY <1>4, <1>8, WritesKeeps
    <2> QED BY <1>5, <1>8, <2>1 DEF Writes, SideTablesKept, Written
  <1>10. TableChange(t, u, a, h - v)
    <2>1. TableChange(t, u, a, t.holds[a][reason] - v)
      BY <1>9, Reholding
    <2> HIDE DEF u
    <2> QED BY <1>9, <2>1
  <1> HIDE DEF u
  <1>11. Keeps(s, u) /\ u.account = [s.account EXCEPT ![a] = d]
    BY <1>9, <1>10 DEF Keeps, TableChange
  <1>12. ASSUME NEW x \in Accounts PROVE Spare(u, x) = Spare(s, x)
    <2>1. /\ Spare(t, x) = Spare(s, x) + IF x = a THEN d.reserved - old.reserved ELSE 0
          /\ Spare(u, x) = Spare(t, x) + IF x = a THEN h - v ELSE 0
      BY <1>9, <1>10 DEF SparesShift, SpareGrows, TableChange
    <2>2. Spare(s, x) \in Int
      BY <1>1, SpareType
    <2>3. d.reserved - old.reserved = v - h
      BY <1>1, <1>4
    <2> QED BY <1>1, <2>1, <2>2, <2>3
  <1>13. Gap(u) = Gap(s) - n
    <2>1. Gap(u) = Gap(s) + Total(old) - Total(d) /\ Gap(s) \in Int
      BY <1>1, <1>9, <1>10, SupplyType DEF TableChange
    <2> QED BY <1>1, <1>4, <2>1 DEF Total
  <1>14. Holds(s, u, a, d, n)
    BY <1>11, <1>12, <1>13 DEF Holds, SparesKept
  <1> HIDE DEF n
  <1>15. QED
    BY <1>2, <1>4, <1>7, <1>14 DEF n, d, z

(* What may be put on hold, and the write that takes it.                       *)
HoldMost(s, a) == Reducible(s, a, "Protect", FALSE)
HeldFrom(s, a, v) == DecreaseBalance(s, a, v, "Protect", FALSE)

\* Taking for a hold leaves the deposit.
LEMMA HoldTaking ==
  ASSUME NEW s, Sound(s), Gap(s) >= 0, NEW a \in Accounts, NEW v \in Nat, v > 0,
         v <= HoldMost(s, a), HeldFrom(s, a, v).ok
  PROVE  /\ v <= s.account[a].free /\ Debited(s, a, v).free >= ED
         /\ Writes(s, HeldFrom(s, a, v).s, a, Debited(s, a, v))
  <1>1. FALSE \in BOOLEAN
    OBVIOUS
  <1>2. /\ v <= Reducible(s, a, "Protect", FALSE)
        /\ DecreaseBalance(s, a, v, "Protect", FALSE).ok
    BY Zenon DEF HoldMost, HeldFrom
  <1>3. /\ v <= s.account[a].free
        /\ Writes(s, DecreaseBalance(s, a, v, "Protect", FALSE).s, a, Debited(s, a, v))
    BY <1>1, <1>2, Decreasing, Zenon
  <1>4. Writes(s, HeldFrom(s, a, v).s, a, Debited(s, a, v))
    BY <1>3, Zenon DEF HeldFrom
  <1>5. /\ HoldMost(s, a) \in Nat /\ HoldMost(s, a) <= s.account[a].free
        /\ HoldMost(s, a) > 0 => s.account[a].free - HoldMost(s, a) >= ED
    BY ReducibleOf DEF HoldMost
  <1>6. Debited(s, a, v).free = s.account[a].free - v
    BY <1>3, SoundAt, MovedParts
  <1>7. s.account[a].free \in Nat /\ ED \in Nat
    BY SoundAt, DataParts, BalancesAssumption
  <1>8. QED
    BY <1>3, <1>4, <1>5, <1>6, <1>7

\* hold (frame_support's MutateHold over set_balance_on_hold): from the free
\* balance to the hold, the deposit stays.
LEMMA HoldingBack ==
  ASSUME NEW s, Sound(s), Gap(s) >= 0, NEW a \in Accounts, NEW reason \in HoldReasons,
         NEW v \in Nat, v > 0, HeldBack(s, reason, a, v).ok
  PROVE  Neutral(s, HeldBack(s, reason, a, v).s)
  <1> DEFINE r == HeldFrom(s, a, v)
             t == r.s
             h == s.holds[a][reason]
             z == HeldBack(s, reason, a, v)
             y == SetBalanceOnHold(t, reason, a, h + v)
             old == s.account[a]
             w == Debited(s, a, v)
             d == [t.account[a] EXCEPT !.reserved = @ + (h + v) - t.holds[a][reason]]
  <1>1. z = y /\ v <= HoldMost(s, a) /\ r.ok
    <2>1. z = IF s.providers[a] = 0 \/ v > HoldMost(s, a) \/ ~r.ok THEN Refused(s) ELSE y
      BY Zenon DEF HeldBack, HoldMost, HeldFrom
    <2>2. Refused(s).ok = FALSE
      BY DEF Refused
    <2>3. HoldMost(s, a) \in Nat
      BY ReducibleOf DEF HoldMost
    <2> HIDE DEF z, y, r
    <2>4. z.ok
      BY DEF z
    <2> QED BY <2>1, <2>2, <2>3, <2>4
  <1>2. /\ s \in Ledgers /\ old \in Data /\ h \in Nat /\ ED \in Nat
        /\ old.free \in Nat /\ old.reserved \in Nat /\ old.frozen \in Nat
    BY SoundAt, DataParts, LedgerParts, BalancesAssumption
  <1>3. v <= old.free /\ w.free >= ED /\ Writes(s, t, a, w)
    BY <1>1, HoldTaking
  <1>4. /\ w \in Data /\ w.free = old.free - v /\ w.reserved = old.reserved
        /\ w.frozen = old.frozen /\ Total(w) = Total(old) - v
    BY <1>2, <1>3, MovedParts
  <1> HIDE DEF w, r, t
  <1>5. /\ Keeps(s, t) /\ SparesShift(s, t, a, w)
        /\ \A x \in Accounts \ {a} : t.account[x] = s.account[x]
        /\ t.account[a] = w
    <2>1. /\ Keeps(s, t) /\ SparesShift(s, t, a, w)
          /\ \A x \in Accounts \ {a} : t.account[x] = s.account[x]
          /\ t.account[a] = Written(w)
      BY <1>3, <1>4, WritesKeeps
    <2> QED BY <1>3, <2>1 DEF Written
  <1>6. Sound(t) /\ t \in Ledgers /\ t.holds = s.holds /\ Gap(t) = Gap(s) + Total(old) - Total(w)
    BY <1>3 DEF Writes, Sound, SideTablesKept
  <1>7. /\ d \in Data /\ d.free = w.free /\ d.frozen = w.frozen
        /\ d.reserved = w.reserved + ((h + v) - h)
        /\ Holds(t, y.s, a, d, (h + v) - h)
    <2>1. /\ t.account[a].free >= ED /\ t.account[a].reserved + (h + v) >= t.holds[a][reason]
          /\ h + v \in Nat
      BY <1>2, <1>3, <1>4, <1>5, <1>6
    <2>2. /\ d \in Data /\ d.free = t.account[a].free /\ d.frozen = t.account[a].frozen
          /\ d.reserved = t.account[a].reserved + ((h + v) - t.holds[a][reason])
          /\ Holds(t, y.s, a, d, (h + v) - t.holds[a][reason])
      BY <1>6, <2>1, Holding
    <2> HIDE DEF d, y
    <2> QED BY <1>5, <1>6, <2>2
  <1> DEFINE u == y.s
  <1>8. (h + v) - h = v
    BY <1>2
  <1> HIDE DEF d, y, u, h
  <1>9. /\ Keeps(t, u) /\ SparesKept(t, u) /\ u.account = [t.account EXCEPT ![a] = d]
        /\ Gap(u) = Gap(t) - v
    BY <1>7, <1>8 DEF Holds, u
  <1>10. Keeps(s, u)
    BY <1>5, <1>9 DEF Keeps
  <1>11. SparesKept(s, u)
    <2> SUFFICES ASSUME NEW x \in Accounts PROVE Spare(u, x) = Spare(s, x)
      BY DEF SparesKept
    <2>1. /\ Spare(u, x) = Spare(t, x) /\ Spare(s, x) \in Int
          /\ Spare(t, x) = Spare(s, x) + IF x = a THEN w.reserved - old.reserved ELSE 0
      BY <1>2, <1>5, <1>9, SpareType DEF SparesKept, SparesShift
    <2> QED BY <1>2, <1>4, <2>1
  <1>12. Gap(u) = Gap(s)
    <2>1. Gap(s) \in Int /\ Total(old) \in Nat
      BY <1>2, SupplyType
    <2> QED BY <1>4, <1>6, <1>9, <2>1
  <1>13. Covered(s, u)
    <2> SUFFICES ASSUME NEW x \in Accounts
                 PROVE  Total(u.account[x]) >= Least(Total(s.account[x]), s.account[x].frozen)
      BY DEF Covered
    <2>1. Total(s.account[x]) \in Nat /\ s.account[x].frozen \in Nat
      BY SoundAt, DataParts
    <2>2. CASE x # a
      <3>1. u.account[x] = s.account[x]
        BY <1>5, <1>6, <1>9, <2>2, LedgerParts
      <3> QED BY <2>1, <3>1 DEF Least
    <2>3. CASE x = a
      <3>1. u.account[x] = d
        BY <1>6, <1>9, <2>3, LedgerParts
      <3>2. Total(d) = Total(old)
        BY <1>2, <1>4, <1>7, <1>8 DEF Total
      <3> QED BY <2>1, <2>3, <3>1, <3>2 DEF Least
    <2> QED BY <2>2, <2>3
  <1>14. Neutral(s, u)
    BY <1>10, <1>11, <1>12, <1>13 DEF Neutral
  <1>15. QED
    BY <1>1, <1>14 DEF u

\* release (frame_support's MutateHold): back from the hold to the free balance.
LEMMA LettingGo ==
  ASSUME NEW s, Sound(s), NEW a \in Accounts, NEW reason \in HoldReasons,
         NEW v \in Nat, v > 0, Spare(s, a) >= 0, LetGo(s, reason, a, v).ok
  PROVE  Neutral(s, LetGo(s, reason, a, v).s)
  <1> DEFINE h == s.holds[a][reason]
             r == SetBalanceOnHold(s, reason, a, h - v)
             t == r.s
             z == LetGo(s, reason, a, v)
             y == IncreaseBalance(t, a, v)
             old == s.account[a]
             d == [s.account[a] EXCEPT !.reserved = @ + (h - v) - s.holds[a][reason]]
             w == Credited(t, a, v)
  <1>1. z = y /\ v <= h /\ h \in Nat /\ r.ok
    <2>1. z = IF v > h \/ ~CanDeposit(s, a, v) \/ ~r.ok THEN Refused(s) ELSE y
      BY DEF LetGo
    <2>2. Refused(s).ok = FALSE
      BY DEF Refused
    <2>3. h \in Nat
      BY SoundAt, LedgerParts
    <2> HIDE DEF z, y, r, h
    <2>4. z.ok
      BY DEF z
    <2> QED BY <2>1, <2>2, <2>3, <2>4
  <1>2. /\ s \in Ledgers /\ old \in Data /\ ED \in Nat
        /\ old.free \in Nat /\ old.reserved \in Nat /\ old.frozen \in Nat
    BY SoundAt, DataParts, BalancesAssumption
  <1>3. h <= old.reserved
    <2>1. s.holds[a] \in [HoldReasons -> Nat] /\ IsFiniteSet(HoldReasons)
      BY <1>2, LedgerParts, BalancesAssumption
    <2>2. h <= Sum(s.holds[a])
      BY <2>1, SumCovers
    <2>3. Sum(s.holds[a]) \in Nat /\ Sum(s.reserves[a]) \in Nat
      BY <1>2, SpareType
    <2> HIDE DEF h
    <2> QED BY <1>1, <1>2, <2>2, <2>3 DEF Spare
  <1>4. old.free >= ED
    <2>1. old.reserved # 0
      BY <1>1, <1>2, <1>3
    <2> QED BY <1>2, <2>1, SoundAt DEF Held
  <1>5. /\ d \in Data /\ d.free = old.free /\ d.frozen = old.frozen
        /\ d.reserved = old.reserved + ((h - v) - h)
        /\ Holds(s, t, a, d, (h - v) - h)
    <2>1. old.reserved + (h - v) >= h /\ h - v \in Nat
      BY <1>1, <1>2, <1>3, <1>4
    <2> QED BY <1>4, <2>1, Holding
  <1>6. (h - v) - h = - v
    BY <1>1
  <1> HIDE DEF d, t, y, h
  <1>7. /\ Keeps(s, t) /\ SparesKept(s, t) /\ t.account = [s.account EXCEPT ![a] = d]
        /\ Gap(t) = Gap(s) + v /\ Sound(t) /\ t \in Ledgers
    <2>1. Keeps(s, t) /\ SparesKept(s, t) /\ t.account = [s.account EXCEPT ![a] = d]
      BY <1>5 DEF Holds
    <2>2. Gap(t) = Gap(s) - (- v) /\ Gap(s) \in Int
      BY <1>2, <1>5, <1>6, SupplyType DEF Holds
    <2> QED BY <2>1, <2>2 DEF Keeps, Sound
  <1>8. t.account[a] = d /\ d.free \in Nat /\ d.reserved \in Nat
    BY <1>2, <1>5, <1>7, LedgerParts, DataParts
  <1>9. Writes(t, y.s, a, w) /\ w.free >= ED
    <2>1. t.account[a].free + v >= ED
      BY <1>2, <1>4, <1>5, <1>8
    <2>2. Writes(t, IncreaseBalance(t, a, v).s, a, w)
      BY <1>7, <2>1, Increasing
    <2>3. w.free = t.account[a].free + v
      BY <1>7, MovedParts
    <2> QED BY <2>1, <2>2, <2>3 DEF y
  <1>10. /\ w \in Data /\ w.frozen = d.frozen /\ w.reserved = d.reserved
         /\ w.free = d.free + v /\ Total(w) = Total(d) + v
    <2>1. t \in Ledgers
      BY <1>7
    <2>2. /\ w \in Data /\ w.frozen = t.account[a].frozen
          /\ w.reserved = t.account[a].reserved
          /\ w.free = t.account[a].free + v /\ Total(w) = Total(t.account[a]) + v
      BY <2>1, MovedParts
    <2> HIDE DEF w
    <2> QED BY <1>8, <2>2
  <1> DEFINE u == y.s
  <1> HIDE DEF w, u
  <1>11. /\ Keeps(t, u) /\ SparesShift(t, u, a, w)
         /\ \A x \in Accounts \ {a} : u.account[x] = t.account[x]
         /\ u.account[a] = w
         /\ Gap(u) = Gap(t) + Total(t.account[a]) - Total(w)
    <2>1. Writes(t, u, a, w) /\ w.frozen = t.account[a].frozen
      BY <1>8, <1>9, <1>10 DEF u
    <2>2. /\ Keeps(t, u) /\ SparesShift(t, u, a, w)
          /\ \A x \in Accounts \ {a} : u.account[x] = t.account[x]
          /\ u.account[a] = Written(w)
      <3>1. Sound(t) /\ w \in Data
        BY <1>7, <1>10
      <3> QED BY <2>1, <3>1, WritesKeeps
    <2> QED BY <1>9, <2>1, <2>2 DEF Writes, Written
  <1>12. Keeps(s, u)
    BY <1>7, <1>11 DEF Keeps
  <1>13. SparesKept(s, u)
    <2> SUFFICES ASSUME NEW x \in Accounts PROVE Spare(u, x) = Spare(s, x)
      BY DEF SparesKept
    <2>1. /\ Spare(t, x) = Spare(s, x) /\ Spare(s, x) \in Int
          /\ Spare(u, x) = Spare(t, x) + IF x = a THEN w.reserved - t.account[a].reserved ELSE 0
      BY <1>2, <1>7, <1>11, SpareType DEF SparesKept, SparesShift
    <2> QED BY <1>8, <1>10, <2>1
  <1>14. Gap(u) = Gap(s)
    <2>1. Gap(s) \in Int /\ Total(d) \in Nat
      BY <1>2, <1>5, SupplyType, DataParts
    <2> QED BY <1>7, <1>8, <1>10, <1>11, <2>1
  <1>15. Covered(s, u)
    <2> SUFFICES ASSUME NEW x \in Accounts
                 PROVE  Total(u.account[x]) >= Least(Total(s.account[x]), s.account[x].frozen)
      BY DEF Covered
    <2>1. Total(s.account[x]) \in Nat /\ s.account[x].frozen \in Nat
      BY SoundAt, DataParts
    <2>2. CASE x # a
      <3>1. u.account[x] = s.account[x]
        BY <1>2, <1>7, <1>11, <2>2, LedgerParts
      <3> QED BY <2>1, <3>1 DEF Least
    <2>3. CASE x = a
      <3>1. u.account[x] = w
        BY <1>11, <2>3
      <3>2. Total(w) = Total(old)
        <4>1. d.reserved = old.reserved - v
          BY <1>2, <1>5, <1>6
        <4> QED BY <1>2, <1>5, <1>8, <1>10, <4>1 DEF Total
      <3> QED BY <2>1, <2>3, <3>1, <3>2 DEF Least
    <2> QED BY <2>2, <2>3
  <1>16. Neutral(s, u)
    BY <1>12, <1>13, <1>14, <1>15 DEF Neutral
  <1>17. QED
    BY <1>1, <1>16 DEF u

-----------------------------------------------------------------------------
(* Locks and freezes                                                           *)

FrozenAgrees(s) ==
  \A a \in Accounts :
     s.account[a].frozen = Greatest(Highest(s.locks[a]), Highest(s.freezes[a]))

(* What a change of locks or freezes keeps.                                    *)
Refrozen(s, t) ==
  Sound(t) /\ FrozenAgrees(t) /\ SparesKept(s, t) /\ Gap(t) = Gap(s)

\* Whatever leaves what is frozen leaves it right.
LEMMA KeepsFrozen ==
  ASSUME NEW s, NEW t, FrozenAgrees(s), Keeps(s, t)
  PROVE  FrozenAgrees(t)
  BY DEF FrozenAgrees, Keeps

\* The highest locks and freezes of an account are numbers.
LEMMA FrozenOf ==
  ASSUME NEW locks \in [LockIds -> Nat], NEW freezes \in [FreezeIds -> Nat]
  PROVE  LET m == Greatest(Highest(locks), Highest(freezes))
         IN  /\ m \in Nat
             /\ m = 0 <=> (\A i \in LockIds : locks[i] = 0) /\ (\A i \in FreezeIds : freezes[i] = 0)
  <1>1. IsFiniteSet(LockIds) /\ IsFiniteSet(FreezeIds)
    BY BalancesAssumption
  <1>2. Highest(locks) \in Nat /\ (Highest(locks) = 0 <=> \A i \in LockIds : locks[i] = 0)
    BY <1>1, HighestOf
  <1>3. Highest(freezes) \in Nat /\ (Highest(freezes) = 0 <=> \A i \in FreezeIds : freezes[i] = 0)
    BY <1>1, HighestOf
  <1>4. QED
    BY <1>2, <1>3 DEF Greatest

\* MutateAccount with another frozen amount, on an account with the deposit or
\* for an amount of zero on none.
LEMMA Refreezing ==
  ASSUME NEW s, Sound(s), NEW a \in Accounts, NEW m \in Nat,
         s.account[a].free >= ED \/ m = 0
  PROVE  LET d == [s.account[a] EXCEPT !.frozen = m]
             r == MutateAccount(s, a, d)
             t == Settled(s, a, d)
         IN  /\ r = [ok |-> TRUE, dust |-> 0, s |-> t]
             /\ Sound(t) /\ SideTablesKept(s, t) /\ SparesKept(s, t) /\ Gap(t) = Gap(s)
             /\ t.account = [s.account EXCEPT ![a] = d] /\ d.frozen = m
  <1> DEFINE old == s.account[a]
             d == [s.account[a] EXCEPT !.frozen = m]
             r == MutateAccount(s, a, d)
             t == Settled(s, a, d)
  <1>1. /\ s \in Ledgers /\ old \in Data /\ ED \in Nat
        /\ old.free \in Nat /\ old.reserved \in Nat /\ old.frozen \in Nat
        /\ old.free < ED => old = NoAccount
    BY SoundAt, DataParts, BalancesAssumption
  <1>2. d \in Data /\ d.free = old.free /\ d.reserved = old.reserved /\ d.frozen = m
    BY <1>1, DataOnce
  <1>3. d.free >= ED \/ d = NoAccount
    <2>1. CASE old.free >= ED
      BY <1>2, <2>1
    <2>2. CASE old.free < ED
      <3>1. d \in Data /\ d.free = 0 /\ d.reserved = 0 /\ d.frozen = 0
        BY <1>1, <1>2, <2>2, DataParts
      <3> HIDE DEF d
      <3> QED BY <3>1 DEF Data, NoAccount
    <2> QED BY <1>1, <2>1, <2>2
  <1> HIDE DEF d
  <1>4. /\ d.free >= ED \/ ~Held(d)
        /\ (IF d.free >= ED THEN 0 ELSE d.free) = 0
        /\ Written(d) = d
    BY <1>1, <1>2, <1>3, DataParts DEF Written
  <1>5. r = [ok |-> TRUE, dust |-> 0, s |-> t]
    <2>1. r = IF d.free >= ED \/ ~Held(d)
              THEN [ok |-> TRUE, dust |-> IF d.free >= ED THEN 0 ELSE d.free, s |-> t]
              ELSE Refused(s)
      BY <1>2, Mutating
    <2> HIDE DEF r, t
    <2> QED BY <1>4, <2>1
  <1>6. Writes(s, t, a, d)
    BY <1>2, <1>3, SettledWrites
  <1> HIDE DEF r, t
  <1>7. /\ Sound(t) /\ SideTablesKept(s, t) /\ t.account = [s.account EXCEPT ![a] = d]
        /\ Gap(t) = Gap(s) + Total(old) - Total(d)
    BY <1>4, <1>6 DEF Writes
  <1>8. Gap(t) = Gap(s)
    <2>1. Gap(s) \in Int
      BY <1>1, SupplyType
    <2> QED BY <1>1, <1>2, <1>7, <2>1 DEF Total
  <1>9. ASSUME NEW x \in Accounts PROVE Spare(t, x) = Spare(s, x)
    <2>1. t.account[x].reserved = s.account[x].reserved
      BY <1>1, <1>2, <1>7, LedgerParts
    <2> QED BY <1>7, <2>1 DEF Spare, SideTablesKept
  <1>10. SparesKept(s, t)
    BY <1>9 DEF SparesKept
  <1>11. QED
    BY <1>2, <1>5, <1>7, <1>8, <1>10 DEF r, t, d

\* A table of locks or freezes that follows the frozen amount just written.
LEMMA TablesKept ==
  ASSUME NEW s, NEW t, Sound(t), SparesKept(s, t), Gap(t) = Gap(s), NEW u \in Ledgers,
         u.account = t.account, u.providers = t.providers, u.consumers = t.consumers,
         u.issuance = t.issuance, u.holds = t.holds, u.reserves = t.reserves
  PROVE  Sound(u) /\ SparesKept(s, u) /\ Gap(u) = Gap(s)
  <1>1. Sound(u)
    BY SameAccounts
  <1>2. Gap(u) = Gap(s)
    BY DEF Gap, Supply
  <1>3. SparesKept(s, u)
    BY DEF SparesKept, Spare
  <1>4. QED
    BY <1>1, <1>2, <1>3

(* What else update_locks writes.                                              *)
Relocks(s, t, a, locks) ==
  /\ \E m \in Nat : t.account = [s.account EXCEPT ![a] = [s.account[a] EXCEPT !.frozen = m]]
  /\ t.locks = [s.locks EXCEPT ![a] = locks]
  /\ t.freezes = s.freezes /\ t.holds = s.holds /\ t.reserves = s.reserves

\* update_locks (lib.rs:994-1058), for locks on an account that exists or for
\* none at all: the account follows its locks, as its freezes allow.
LEMMA LocksUpdated ==
  ASSUME NEW s, Sound(s), FrozenAgrees(s), NEW a \in Accounts,
         NEW locks \in [LockIds -> Nat],
         \/ s.account[a].free >= ED
         \/ \A i \in LockIds : locks[i] = 0
  PROVE  LET t == UpdateLocks(s, a, locks).s
         IN  Refrozen(s, t) /\ Relocks(s, t, a, locks)
  <1> DEFINE m == Greatest(Highest(locks), Highest(s.freezes[a]))
             d == [s.account[a] EXCEPT !.frozen = m]
             r == MutateAccount(s, a, d)
             t == Settled(s, a, d)
             u == [t EXCEPT !.locks[a] = locks]
             z == UpdateLocks(s, a, locks)
  <1>1. /\ s \in Ledgers /\ s.locks[a] \in [LockIds -> Nat] /\ s.freezes[a] \in [FreezeIds -> Nat]
    BY LedgerParts DEF Sound
  <1>2. m \in Nat
    BY <1>1, FrozenOf
  <1>3. s.account[a].free >= ED \/ m = 0
    <2>1. CASE s.account[a].free < ED
      <3>1. s.account[a] = NoAccount
        BY <2>1, SoundAt
      <3>2. Greatest(Highest(s.locks[a]), Highest(s.freezes[a])) = 0
        BY <3>1, DataParts DEF FrozenAgrees
      <3>3. \A i \in FreezeIds : s.freezes[a][i] = 0
        BY <1>1, <3>2, FrozenOf
      <3>4. \A i \in LockIds : locks[i] = 0
        <4>1. s.account[a].free \in Nat /\ ED \in Nat
          BY <1>1, LedgerParts, DataParts, BalancesAssumption
        <4> QED BY <2>1, <4>1
      <3> QED BY <1>1, <3>3, <3>4, FrozenOf
    <2>2. s.account[a].free \in Nat /\ ED \in Nat
      BY <1>1, LedgerParts, DataParts, BalancesAssumption
    <2> QED BY <2>1, <2>2
  <1> HIDE DEF m
  <1>4. /\ r = [ok |-> TRUE, dust |-> 0, s |-> t]
        /\ Sound(t) /\ SideTablesKept(s, t) /\ SparesKept(s, t) /\ Gap(t) = Gap(s)
        /\ t.account = [s.account EXCEPT ![a] = d] /\ d.frozen = m
    BY <1>2, <1>3, Refreezing
  <1>5. z.s = u
    <2>1. z = [r EXCEPT !.ok = TRUE, !.s.locks[a] = locks]
      BY DEF UpdateLocks, m
    <2> HIDE DEF r, t
    <2> QED BY <1>4, <2>1
  <1> HIDE DEF t, r, d
  <1>6. /\ t \in Ledgers /\ t.freezes = s.freezes /\ t.locks = s.locks
    BY <1>4 DEF Sound, SideTablesKept
  <1>7. /\ u \in Ledgers
        /\ u.account = t.account /\ u.providers = t.providers /\ u.consumers = t.consumers
        /\ u.issuance = t.issuance /\ u.holds = t.holds /\ u.reserves = t.reserves
        /\ u.freezes = t.freezes /\ u.locks = [t.locks EXCEPT ![a] = locks]
    BY <1>6 DEF Ledgers
  <1> HIDE DEF u
  <1>8. Sound(u) /\ SparesKept(s, u) /\ Gap(u) = Gap(s)
    BY <1>4, <1>7, TablesKept
  <1>9. ASSUME NEW x \in Accounts
        PROVE  u.account[x].frozen = Greatest(Highest(u.locks[x]), Highest(u.freezes[x]))
    <2>1. CASE x = a
      <3>1. u.account[x].frozen = m /\ u.locks[x] = locks /\ u.freezes[x] = s.freezes[a]
        BY <1>1, <1>4, <1>6, <1>7, <2>1, LedgerParts
      <3> QED BY <3>1 DEF m
    <2>2. CASE x # a
      <3>1. u.account[x] = s.account[x] /\ u.locks[x] = s.locks[x] /\ u.freezes[x] = s.freezes[x]
        BY <1>1, <1>4, <1>6, <1>7, <2>2, LedgerParts
      <3> QED BY <3>1 DEF FrozenAgrees
    <2> QED BY <2>1, <2>2
  <1>10. Refrozen(s, u)
    BY <1>8, <1>9 DEF Refrozen, FrozenAgrees
  <1>11. Relocks(s, u, a, locks)
    BY <1>2, <1>4, <1>7 DEF Relocks, SideTablesKept, d
  <1>12. QED
    BY <1>5, <1>10, <1>11

\* update_freezes (lib.rs:1061-1075) is refused where it would freeze nothing.
LEMMA FreezesUpdated ==
  ASSUME NEW s, Sound(s), FrozenAgrees(s), NEW a \in Accounts,
         NEW freezes \in [FreezeIds -> Nat], UpdateFreezes(s, a, freezes).ok
  PROVE  Refrozen(s, UpdateFreezes(s, a, freezes).s)
  <1> DEFINE m == Greatest(Highest(s.locks[a]), Highest(freezes))
             d == [s.account[a] EXCEPT !.frozen = m]
             r == MutateAccount(s, a, d)
             t == Settled(s, a, d)
             u == [t EXCEPT !.freezes[a] = freezes]
             z == UpdateFreezes(s, a, freezes)
             zz == [r EXCEPT !.s.freezes[a] = freezes]
  <1>1. /\ s \in Ledgers /\ s.locks[a] \in [LockIds -> Nat] /\ s.freezes[a] \in [FreezeIds -> Nat]
        /\ s.account[a] \in Data /\ s.account[a].free \in Nat /\ ED \in Nat
    BY LedgerParts, DataParts, BalancesAssumption DEF Sound
  <1>2. m \in Nat
    BY <1>1, FrozenOf
  <1> HIDE DEF m
  <1>3. r.ok /\ z = zz
    <2>1. z = IF r.ok THEN zz ELSE r
      BY DEF UpdateFreezes, m
    <2> HIDE DEF r, z, zz
    <2>2. z.ok
      BY DEF z
    <2> QED BY <2>1, <2>2
  <1>4. d \in Data /\ d.free = s.account[a].free /\ d.frozen = m
    <2>1. s.account[a] \in Data /\ m \in Nat
      BY <1>1, <1>2
    <2> QED BY <2>1, DataOnce, Zenon
  <1>5. s.account[a].free >= ED \/ m = 0
    <2>1. r = IF d.free >= ED \/ ~Held(d)
              THEN [ok |-> TRUE, dust |-> IF d.free >= ED THEN 0 ELSE d.free, s |-> t]
              ELSE Refused(s)
      BY <1>4, Mutating
    <2>2. Refused(s).ok = FALSE
      BY DEF Refused
    <2> HIDE DEF r, t, d
    <2>3. d.free >= ED \/ ~Held(d)
      BY <1>3, <2>1, <2>2
    <2> QED BY <1>4, <2>3 DEF Held
  <1>6. /\ r = [ok |-> TRUE, dust |-> 0, s |-> t]
        /\ Sound(t) /\ SideTablesKept(s, t) /\ SparesKept(s, t) /\ Gap(t) = Gap(s)
        /\ t.account = [s.account EXCEPT ![a] = d] /\ d.frozen = m
    BY <1>2, <1>5, Refreezing
  <1>7. z.s = u
    <2> HIDE DEF r, t
    <2> QED BY <1>3, <1>6
  <1> HIDE DEF t, r, d
  <1>8. /\ t \in Ledgers /\ t.freezes = s.freezes /\ t.locks = s.locks
    BY <1>6 DEF Sound, SideTablesKept
  <1>9. /\ u \in Ledgers
        /\ u.account = t.account /\ u.providers = t.providers /\ u.consumers = t.consumers
        /\ u.issuance = t.issuance /\ u.holds = t.holds /\ u.reserves = t.reserves
        /\ u.locks = t.locks /\ u.freezes = [t.freezes EXCEPT ![a] = freezes]
    BY <1>8 DEF Ledgers
  <1> HIDE DEF u
  <1>10. Sound(u) /\ SparesKept(s, u) /\ Gap(u) = Gap(s)
    BY <1>6, <1>9, TablesKept
  <1>11. ASSUME NEW x \in Accounts
         PROVE  u.account[x].frozen = Greatest(Highest(u.locks[x]), Highest(u.freezes[x]))
    <2>1. CASE x = a
      <3>1. u.account[x].frozen = m /\ u.freezes[x] = freezes /\ u.locks[x] = s.locks[a]
        BY <1>1, <1>6, <1>8, <1>9, <2>1, LedgerParts
      <3> QED BY <3>1 DEF m
    <2>2. CASE x # a
      <3>1. u.account[x] = s.account[x] /\ u.locks[x] = s.locks[x] /\ u.freezes[x] = s.freezes[x]
        BY <1>1, <1>6, <1>8, <1>9, <2>2, LedgerParts
      <3> QED BY <3>1 DEF FrozenAgrees
    <2> QED BY <2>1, <2>2
  <1>12. Refrozen(s, u)
    BY <1>10, <1>11 DEF Refrozen, FrozenAgrees
  <1>13. QED
    BY <1>7, <1>12

-----------------------------------------------------------------------------
(* The inductive invariant: a sound ledger whose frozen amounts follow the     *)
(* locks, and the books that agree with it.  What is still to be settled is    *)
(* never more than all other accounts hold, so that the issuance covers every  *)
(* balance and no subtraction from it saturates.                               *)

Books(s, c, d, own) ==
  /\ c \in Nat /\ d \in Nat /\ c + d <= MaxPending
  /\ own \in [Accounts -> Nat]
  /\ Gap(s) = Rest + c - d
  /\ \A a \in Accounts : Spare(s, a) = own[a]

IInv ==
  /\ Sound(ledger) /\ FrozenAgrees(ledger)
  /\ Books(ledger, credit, debt, deposits)

\* What the steps need of the books.
LEMMA Balanced ==
  ASSUME NEW s, NEW c, NEW d, NEW own, Books(s, c, d, own)
  PROVE  /\ Gap(s) \in Nat /\ Gap(s) >= 0 /\ Gap(s) >= c
         /\ c \in Nat /\ d \in Nat /\ c + d <= MaxPending
         /\ own \in [Accounts -> Nat]
         /\ \A a \in Accounts : Spare(s, a) = own[a] /\ own[a] \in Nat /\ Spare(s, a) >= 0
  <1>1. MaxPending \in Nat /\ Rest \in Nat /\ Rest >= MaxPending
    BY BalancesAssumption
  <1>2. c \in Nat /\ d \in Nat /\ c + d <= MaxPending /\ Gap(s) = Rest + c - d
    BY DEF Books
  <1>3. own \in [Accounts -> Nat] /\ \A a \in Accounts : Spare(s, a) = own[a]
    BY DEF Books
  <1>4. Gap(s) \in Nat /\ Gap(s) >= 0 /\ Gap(s) >= c
    BY <1>1, <1>2
  <1>5. ASSUME NEW a \in Accounts
        PROVE  Spare(s, a) = own[a] /\ own[a] \in Nat /\ Spare(s, a) >= 0
    <2>1. own[a] \in Nat /\ Spare(s, a) = own[a]
      BY <1>3
    <2> QED BY <2>1
  <1>6. QED
    BY <1>2, <1>3, <1>4, <1>5

(* The change of the books between two steps.                                  *)
Settles(s, t, c, d, own, c1, d1, own1) ==
  /\ c1 \in Nat /\ d1 \in Nat /\ own1 \in [Accounts -> Nat]
  /\ Gap(t) = Gap(s) + (c1 - c) - (d1 - d)
  /\ \A a \in Accounts : Spare(t, a) = Spare(s, a) + (own1[a] - own[a])

\* A call that settles what it changes.
LEMMA Calling ==
  ASSUME IInv, NEW r, NEW c, NEW d, NEW own, Call(r, c, d, own),
         Sound(r.s), FrozenAgrees(r.s),
         Settles(ledger, r.s, credit, debt, deposits, c, d, own)
  PROVE  IInv'
  <1>1. ledger' = r.s /\ credit' = c /\ debt' = d /\ deposits' = own /\ c + d <= MaxPending
    BY DEF Call
  <1>2. Books(ledger, credit, debt, deposits)
    BY DEF IInv
  <1>3. /\ c \in Nat /\ d \in Nat /\ own \in [Accounts -> Nat]
        /\ Gap(r.s) = Gap(ledger) + (c - credit) - (d - debt)
        /\ \A a \in Accounts : Spare(r.s, a) = Spare(ledger, a) + (own[a] - deposits[a])
    BY DEF Settles
  <1>4. /\ credit \in Nat /\ debt \in Nat /\ Gap(ledger) = Rest + credit - debt
        /\ deposits \in [Accounts -> Nat]
        /\ \A a \in Accounts : Spare(ledger, a) = deposits[a]
    BY <1>2 DEF Books
  <1>5. Rest \in Nat
    BY BalancesAssumption
  <1>6. Gap(r.s) = Rest + c - d
    BY <1>3, <1>4, <1>5
  <1>7. ASSUME NEW a \in Accounts PROVE Spare(r.s, a) = own[a]
    <2>1. own[a] \in Nat /\ deposits[a] \in Nat
      BY <1>3, <1>4
    <2> QED BY <1>3, <1>4, <2>1
  <1>8. Books(r.s, c, d, own)
    BY <1>1, <1>3, <1>6, <1>7 DEF Books
  <1>9. QED
    BY <1>1, <1>8 DEF IInv

\* A call of which neither the callers nor the issuance know.
LEMMA NeutralCall ==
  ASSUME IInv, NEW r, Ledger(r), Neutral(ledger, r.s)
  PROVE  IInv' /\ Covered(ledger, ledger')
  <1>1. /\ Call(r, credit, debt, deposits) /\ ledger' = r.s
        /\ Sound(ledger) /\ FrozenAgrees(ledger) /\ Books(ledger, credit, debt, deposits)
    BY DEF Ledger, Call, IInv
  <1>2. /\ Keeps(ledger, r.s) /\ Gap(r.s) = Gap(ledger) /\ Covered(ledger, r.s)
        /\ \A a \in Accounts : Spare(r.s, a) = Spare(ledger, a)
    BY DEF Neutral, SparesKept
  <1>3. /\ credit \in Nat /\ debt \in Nat /\ deposits \in [Accounts -> Nat] /\ Gap(ledger) \in Nat
        /\ \A a \in Accounts : Spare(ledger, a) = deposits[a] /\ deposits[a] \in Nat
    BY <1>1, Balanced
  <1>4. Gap(r.s) = Gap(ledger) + (credit - credit) - (debt - debt)
    BY <1>2, <1>3
  <1>5. ASSUME NEW a \in Accounts
        PROVE  Spare(r.s, a) = Spare(ledger, a) + (deposits[a] - deposits[a])
    BY <1>2, <1>3
  <1>6. Settles(ledger, r.s, credit, debt, deposits, credit, debt, deposits)
    BY <1>3, <1>4, <1>5 DEF Settles
  <1>7. Sound(r.s) /\ FrozenAgrees(r.s)
    BY <1>1, <1>2, KeepsFrozen DEF Keeps
  <1>8. IInv'
    BY <1>1, <1>6, <1>7, Calling
  <1>9. QED
    BY <1>1, <1>2, <1>8

-----------------------------------------------------------------------------
(* The steps that respect locks                                                *)

\* A transfer to oneself checks and changes nothing.
LEMMA MovingNeutral ==
  ASSUME NEW s, Sound(s), Gap(s) >= 0, NEW a \in Accounts, NEW b \in Accounts,
         NEW v \in Nat, NEW preservation \in {"Expendable", "Preserve"},
         Moved(s, a, b, v, preservation).ok
  PROVE  Neutral(s, Moved(s, a, b, v, preservation).s)
  <1>1. CASE a # b
    BY <1>1, Moving
  <1>2. CASE a = b
    <2>1. \/ Moved(s, a, b, v, preservation) = Refused(s)
          \/ Moved(s, a, b, v, preservation) = [ok |-> TRUE, s |-> s, dust |-> 0]
      BY <1>2, Zenon DEF Moved
    <2>2. Moved(s, a, b, v, preservation).s = s
      BY <2>1 DEF Refused
    <2> QED BY <2>2, NeutralStill
  <1>3. QED
    BY <1>1, <1>2

\* do_transfer and transfer_all (lib.rs:640-720).
LEMMA TransferStep ==
  ASSUME IInv, NEW a \in Accounts, NEW b \in Accounts, NEW v \in Nat,
         Transfer(a, b, v) \/ TransferAll(a, b)
  PROVE  IInv' /\ Covered(ledger, ledger')
  <1>1. Sound(ledger) /\ Gap(ledger) >= 0
    BY Balanced DEF IInv
  <1>2. PICK preservation \in {"Expendable", "Preserve"}, w \in Nat :
          Ledger(Moved(ledger, a, b, w, preservation))
    <2>1. CASE Transfer(a, b, v)
      BY <2>1 DEF Transfer
    <2>2. CASE TransferAll(a, b)
      <3>1. PICK preservation \in {"Expendable", "Preserve"} :
              Ledger(Moved(ledger, a, b, PoliteMost(ledger, a, preservation), preservation))
        BY <2>2, Zenon DEF TransferAll, PoliteMost
      <3>2. PoliteMost(ledger, a, preservation) \in Nat
        <4>1. preservation \in {"Expendable", "Protect", "Preserve"} /\ TRUE \in BOOLEAN
          OBVIOUS
        <4>2. Reducible(ledger, a, preservation, TRUE) \in Nat
          BY <1>1, <4>1, ReducibleOf, Zenon
        <4> QED BY <4>2, Zenon DEF PoliteMost
      <3> QED BY <3>1, <3>2
    <2> QED BY <2>1, <2>2
  <1>3. Moved(ledger, a, b, w, preservation).ok
    BY <1>2 DEF Ledger, Call
  <1>4. Neutral(ledger, Moved(ledger, a, b, w, preservation).s)
    BY <1>1, <1>3, MovingNeutral
  <1>5. QED
    BY <1>2, <1>4, NeutralCall

\* burn (lib.rs:721-760).
LEMMA BurnFromStep ==
  ASSUME IInv, NEW a \in Accounts, NEW v \in Nat, BurnFrom(a, v)
  PROVE  IInv' /\ Covered(ledger, ledger')
  <1>1. Sound(ledger) /\ Gap(ledger) >= 0
    BY Balanced DEF IInv
  <1>2. PICK preservation \in {"Expendable", "Preserve"} :
          Ledger(Burned(ledger, a, v, preservation))
    BY DEF BurnFrom
  <1>3. Burned(ledger, a, v, preservation).ok
    BY <1>2 DEF Ledger, Call
  <1>4. Neutral(ledger, Burned(ledger, a, v, preservation).s)
    BY <1>1, <1>3, Burning
  <1>5. QED
    BY <1>2, <1>4, NeutralCall

\* The calls on named reserves.
LEMMA NamedSteps ==
  ASSUME IInv, NEW a \in Accounts, NEW b \in Accounts, NEW v \in Nat, NEW id \in ReserveIds,
         NEW status \in {"Free", "Reserved"},
         \/ ReserveNamed(id, a, v)
         \/ UnreserveNamed(id, a, v)
         \/ RepatriateReservedNamed(id, a, b, v, status)
  PROVE  IInv' /\ Covered(ledger, ledger')
  <1>1. Sound(ledger) /\ Gap(ledger) >= 0 /\ \A x \in Accounts : Spare(ledger, x) >= 0
    BY Balanced DEF IInv
  <1>2. CASE ReserveNamed(id, a, v)
    <2>1. Ledger(NamedReserved(ledger, id, a, v)) /\ NamedReserved(ledger, id, a, v).ok
      BY <1>2 DEF ReserveNamed, Ledger, Call
    <2>2. Neutral(ledger, NamedReserved(ledger, id, a, v).s)
      BY <1>1, <2>1, NamingReserved
    <2> QED BY <2>1, <2>2, NeutralCall
  <1>3. CASE UnreserveNamed(id, a, v)
    <2>1. Ledger(NamedUnreserved(ledger, id, a, v)) /\ NamedUnreserved(ledger, id, a, v).ok
      BY <1>3 DEF UnreserveNamed, Ledger, Call
    <2>2. Neutral(ledger, NamedUnreserved(ledger, id, a, v).s)
      BY <1>1, <2>1, NamingUnreserved
    <2> QED BY <2>1, <2>2, NeutralCall
  <1>4. CASE RepatriateReservedNamed(id, a, b, v, status)
    <2> DEFINE r == NamedRepatriated(ledger, id, a, b, v, status)
    <2>1. Ledger(r) /\ r.ok
      BY <1>4 DEF RepatriateReservedNamed, Ledger, Call
    <2>2. CASE a # b
      <3>1. Neutral(ledger, r.s)
        BY <1>1, <2>1, <2>2, NamingRepatriated
      <3> HIDE DEF r
      <3> QED BY <2>1, <3>1, NeutralCall
    <2>3. CASE a = b
      <3>1. r = IF status = "Free" THEN NamedUnreserved(ledger, id, a, v)
                                   ELSE [ok |-> TRUE, s |-> ledger, dust |-> 0]
        BY <2>3 DEF NamedRepatriated
      <3> HIDE DEF r
      <3>2. CASE status = "Free"
        <4>1. r = NamedUnreserved(ledger, id, a, v)
          BY <3>1, <3>2
        <4>2. Neutral(ledger, NamedUnreserved(ledger, id, a, v).s)
          BY <1>1, <2>1, <4>1, NamingUnreserved
        <4> QED BY <2>1, <4>1, <4>2, NeutralCall
      <3>3. CASE status = "Reserved"
        <4>1. r = [ok |-> TRUE, s |-> ledger, dust |-> 0]
          BY <3>1, <3>3
        <4>2. Neutral(ledger, r.s)
          BY <1>1, <4>1, NeutralStill
        <4> QED BY <2>1, <4>2, NeutralCall
      <3> QED BY <3>2, <3>3
    <2> QED BY <2>2, <2>3
  <1>5. QED
    BY <1>2, <1>3, <1>4

\* The calls on holds.
LEMMA HoldSteps ==
  ASSUME IInv, NEW a \in Accounts, NEW v \in Nat, v > 0, NEW reason \in HoldReasons,
         Hold(reason, a, v) \/ Release(reason, a, v)
  PROVE  IInv' /\ Covered(ledger, ledger')
  <1>1. Sound(ledger) /\ Gap(ledger) >= 0 /\ \A x \in Accounts : Spare(ledger, x) >= 0
    BY Balanced DEF IInv
  <1>2. CASE Hold(reason, a, v)
    <2>1. Ledger(HeldBack(ledger, reason, a, v)) /\ HeldBack(ledger, reason, a, v).ok
      BY <1>2 DEF Hold, Ledger, Call
    <2>2. Neutral(ledger, HeldBack(ledger, reason, a, v).s)
      BY <1>1, <2>1, HoldingBack
    <2> QED BY <2>1, <2>2, NeutralCall
  <1>3. CASE Release(reason, a, v)
    <2>1. Ledger(LetGo(ledger, reason, a, v)) /\ LetGo(ledger, reason, a, v).ok
      BY <1>3 DEF Release, Ledger, Call
    <2>2. Neutral(ledger, LetGo(ledger, reason, a, v).s)
      BY <1>1, <2>1, LettingGo
    <2> QED BY <2>1, <2>2, NeutralCall
  <1>4. QED
    BY <1>2, <1>3

\* A call whose balances and reserves change with what its callers hold.
LEMMA SettledCall ==
  ASSUME IInv, NEW r, NEW c \in Nat, NEW d \in Nat, NEW own \in [Accounts -> Nat],
         Call(r, c, d, own), Keeps(ledger, r.s),
         Gap(r.s) = Gap(ledger) + (c - credit) - (d - debt),
         \A a \in Accounts : Spare(r.s, a) = Spare(ledger, a) + (own[a] - deposits[a])
  PROVE  IInv' /\ ledger' = r.s
  <1>1. Settles(ledger, r.s, credit, debt, deposits, c, d, own)
    BY DEF Settles
  <1>2. Sound(r.s) /\ FrozenAgrees(r.s)
    BY KeepsFrozen DEF IInv, Keeps
  <1>3. IInv'
    BY <1>1, <1>2, Calling
  <1>4. ledger' = r.s
    BY DEF Call
  <1>5. QED
    BY <1>3, <1>4

(* What a change of the free balance alone does.                               *)
FreeSet(s, t, a, v) ==
  /\ Keeps(s, t) /\ SparesKept(s, t) /\ SideTablesKept(s, t)
  /\ t.account = [s.account EXCEPT ![a] = Written([s.account[a] EXCEPT !.free = v])]
  /\ Gap(t) = Gap(s) + s.account[a].free - v
  /\ v >= ED \/ ~Held(s.account[a])
  /\ v + s.account[a].reserved >= Least(Total(s.account[a]), s.account[a].frozen)
       => Covered(s, t)

\* mutate_account_handling_dust with another free balance, which the issuance
\* covers where it is dust.
LEMMA FreeSetting ==
  ASSUME NEW s, Sound(s), NEW a \in Accounts, NEW v \in Nat,
         v < ED => v <= s.issuance,
         Mutate(s, a, [s.account[a] EXCEPT !.free = v]).ok
  PROVE  FreeSet(s, Mutate(s, a, [s.account[a] EXCEPT !.free = v]).s, a, v)
  <1> DEFINE old == s.account[a]
             d == [s.account[a] EXCEPT !.free = v]
             t == Mutate(s, a, d).s
  <1>1. s \in Ledgers /\ old \in Data /\ old.free \in Nat /\ old.reserved \in Nat /\ Gap(s) \in Int
    BY SoundAt, DataParts, SupplyType
  <1>2. d \in Data /\ d.free = v /\ d.reserved = old.reserved /\ d.frozen = old.frozen
    BY <1>1, DataOnce
  <1>3. Mutate(s, a, d).ok
    OBVIOUS
  <1> HIDE DEF d
  <1>4. Rewrites(s, t, a, d)
    BY <1>2, <1>3, MutateKeeps
  <1> HIDE DEF t
  <1>5. SparesKept(s, t)
    <2>1. \A x \in Accounts : Spare(s, x) \in Int
      BY <1>1, SpareType
    <2> QED BY <1>1, <1>2, <1>4, <2>1 DEF Rewrites, SpareGrows, SparesKept
  <1>6. Gap(t) = Gap(s) + old.free - v
    BY <1>1, <1>2, <1>4 DEF Rewrites, Total
  <1>7. v >= ED \/ ~Held(old)
    BY <1>2, <1>4 DEF Rewrites, Held
  <1>8. v + old.reserved >= Least(Total(old), old.frozen) => Covered(s, t)
    BY <1>2, <1>4 DEF Rewrites, Total
  <1>9. Keeps(s, t) /\ SideTablesKept(s, t) /\ t.account = [s.account EXCEPT ![a] = Written(d)]
    BY <1>4 DEF Rewrites
  <1>10. FreeSet(s, t, a, v)
    BY <1>5, <1>6, <1>7, <1>8, <1>9 DEF FreeSet, d
  <1>11. QED
    BY <1>10 DEF t, d

\* Nothing free is more than the issuance while the issuance covers all.
LEMMA FreeCovered ==
  ASSUME NEW s, Sound(s), Gap(s) >= 0, NEW a \in Accounts
  PROVE  s.account[a].free <= s.issuance /\ s.issuance \in Nat /\ s.account[a].free \in Nat
  <1>1. s \in Ledgers /\ s.account[a].free \in Nat /\ s.account[a].reserved \in Nat
    BY SoundAt, DataParts
  <1>2. s.issuance \in Nat /\ Supply(s) \in Nat /\ Total(s.account[a]) <= Supply(s)
    BY <1>1, LedgerParts, SupplyType
  <1>3. QED
    BY <1>1, <1>2 DEF Total, Gap

\* withdraw (impl_currency.rs:453-480): what is left covers what is frozen.
LEMMA WithdrawStep ==
  ASSUME IInv, NEW a \in Accounts, NEW v \in Nat, NEW keep, Withdraw(a, v, keep)
  PROVE  IInv' /\ Covered(ledger, ledger')
  <1> DEFINE old == ledger.account[a]
             free == old.free - v
             r == Mutate(ledger, a, [old EXCEPT !.free = free])
  <1>1. /\ Sound(ledger) /\ Gap(ledger) \in Nat /\ Gap(ledger) >= 0
        /\ credit \in Nat /\ debt \in Nat /\ deposits \in [Accounts -> Nat]
        /\ \A x \in Accounts : Spare(ledger, x) = deposits[x] /\ deposits[x] \in Nat
    BY Balanced DEF IInv
  <1>2. v <= old.free /\ EnsureCanWithdraw(ledger, a, free) /\ Call(r, credit + v, debt, deposits)
    BY DEF Withdraw
  <1>3. old.free <= ledger.issuance /\ ledger.issuance \in Nat /\ old.free \in Nat
    BY <1>1, FreeCovered
  <1>4. free \in Nat /\ free <= ledger.issuance
    BY <1>2, <1>3
  <1> HIDE DEF free
  <1>5. FreeSet(ledger, r.s, a, free)
    <2>1. r.ok
      BY <1>2 DEF Call
    <2> QED BY <1>1, <1>4, <2>1, FreeSetting
  <1> HIDE DEF r
  <1>6. Keeps(ledger, r.s) /\ SparesKept(ledger, r.s) /\ Gap(r.s) = Gap(ledger) + old.free - free
    BY <1>5 DEF FreeSet
  <1>7. Gap(r.s) = Gap(ledger) + ((credit + v) - credit) - (debt - debt)
    BY <1>1, <1>3, <1>6 DEF free
  <1>8. \A x \in Accounts : Spare(r.s, x) = Spare(ledger, x) + (deposits[x] - deposits[x])
    BY <1>1, <1>6 DEF SparesKept
  <1>9. IInv' /\ ledger' = r.s
    <2>1. credit + v \in Nat
      BY <1>1
    <2> QED BY <1>1, <1>2, <1>6, <1>7, <1>8, <2>1, SettledCall
  <1>10. Covered(ledger, r.s)
    <2>1. free >= old.frozen
      BY <1>2 DEF EnsureCanWithdraw
    <2>2. old.reserved \in Nat /\ old.frozen \in Nat /\ Total(old) \in Nat
      BY <1>1, SoundAt, DataParts
    <2>3. free + old.reserved >= Least(Total(old), old.frozen)
      BY <1>4, <2>1, <2>2 DEF Least
    <2> QED BY <1>5, <2>3 DEF FreeSet
  <1>11. QED
    BY <1>9, <1>10

\* reserve, for callers that account for what they reserved.
LEMMA ReserveStep ==
  ASSUME IInv, NEW a \in Accounts, NEW v \in Nat, Reserve(a, v)
  PROVE  IInv' /\ Covered(ledger, ledger')
  <1> DEFINE r == Reserved(ledger, a, v)
             own == [deposits EXCEPT ![a] = @ + v]
  <1>1. /\ Sound(ledger) /\ Gap(ledger) \in Nat /\ Gap(ledger) >= 0
        /\ credit \in Nat /\ debt \in Nat /\ deposits \in [Accounts -> Nat]
        /\ \A x \in Accounts : Spare(ledger, x) = deposits[x] /\ deposits[x] \in Nat
    BY Balanced DEF IInv
  <1>2. Call(r, credit, debt, own) /\ r.ok
    BY DEF Reserve, Call
  <1>3. /\ Keeps(ledger, r.s) /\ SpareGrows(ledger, r.s, a, v)
        /\ Gap(r.s) = Gap(ledger) /\ Covered(ledger, r.s)
    <2>1. Sound(ledger) /\ Gap(ledger) >= 0 /\ Reserved(ledger, a, v).ok
      BY <1>1, <1>2
    <2> QED BY <2>1, Reserving
  <1>4. own \in [Accounts -> Nat] /\ \A x \in Accounts : own[x] = deposits[x] + IF x = a THEN v ELSE 0
    BY <1>1
  <1> HIDE DEF r, own
  <1>5. \A x \in Accounts : Spare(r.s, x) = Spare(ledger, x) + (own[x] - deposits[x])
    BY <1>1, <1>3, <1>4 DEF SpareGrows
  <1>6. Gap(r.s) = Gap(ledger) + (credit - credit) - (debt - debt)
    BY <1>1, <1>3
  <1>7. IInv' /\ ledger' = r.s
    BY <1>1, <1>2, <1>3, <1>4, <1>5, <1>6, SettledCall
  <1>8. QED
    BY <1>3, <1>7

\* unreserve, by callers that reserved as much and by root for them.
LEMMA UnreserveStep ==
  ASSUME IInv, NEW a \in Accounts, NEW v \in Nat, Unreserve(a, v)
  PROVE  IInv' /\ Covered(ledger, ledger')
  <1> DEFINE r == Unreserved(ledger, a, v)
             n == Least(ledger.account[a].reserved, v)
             own == [deposits EXCEPT ![a] = @ - n]
  <1>1. /\ Sound(ledger) /\ Gap(ledger) \in Nat /\ Gap(ledger) >= 0
        /\ credit \in Nat /\ debt \in Nat /\ deposits \in [Accounts -> Nat]
        /\ \A x \in Accounts : Spare(ledger, x) = deposits[x] /\ deposits[x] \in Nat
    BY Balanced DEF IInv
  <1>2. v <= deposits[a] /\ Call(r, credit, debt, own)
    BY DEF Unreserve
  <1>3. /\ Keeps(ledger, r.s) /\ SpareGrows(ledger, r.s, a, - n)
        /\ Gap(r.s) = Gap(ledger) /\ Covered(ledger, r.s)
        /\ n \in Nat /\ n <= v
    <2>1. Sound(ledger) /\ Gap(ledger) >= 0 /\ a \in Accounts /\ v \in Nat
      BY <1>1
    <2>2. n \in Nat /\ n <= v /\ Unreserves(ledger, Unreserved(ledger, a, v).s, a, n)
      BY ONLY <2>1, Unreserving
    <2> QED BY <2>2 DEF Unreserves
  <1> HIDE DEF r, n
  <1>4. own \in [Accounts -> Nat] /\ \A x \in Accounts : own[x] = deposits[x] - IF x = a THEN n ELSE 0
    <2>1. deposits[a] - n \in Nat
      BY <1>1, <1>2, <1>3
    <2> QED BY <1>1, <1>3, <2>1
  <1> HIDE DEF own
  <1>5. \A x \in Accounts : Spare(r.s, x) = Spare(ledger, x) + (own[x] - deposits[x])
    BY <1>1, <1>3, <1>4 DEF SpareGrows
  <1>6. Gap(r.s) = Gap(ledger) + (credit - credit) - (debt - debt)
    BY <1>1, <1>3
  <1>7. IInv' /\ ledger' = r.s
    BY <1>1, <1>2, <1>3, <1>4, <1>5, <1>6, SettledCall
  <1>8. QED
    BY <1>3, <1>7

\* repatriate_reserved (impl_currency.rs:711-722), to another account or back to
\* the free balance of the same.
LEMMA RepatriateStep ==
  ASSUME IInv, NEW a \in Accounts, NEW b \in Accounts, NEW v \in Nat,
         NEW status \in {"Free", "Reserved"}, RepatriateReserved(a, b, v, status)
  PROVE  IInv' /\ Covered(ledger, ledger')
  <1> DEFINE r == Repatriated(ledger, a, b, v, status)
             n == Movable(ledger, a, v)
             less == [deposits EXCEPT ![a] = @ - n]
             own == IF status = "Free" THEN less ELSE [less EXCEPT ![b] = @ + n]
  <1>1. /\ Sound(ledger) /\ Gap(ledger) \in Nat /\ Gap(ledger) >= 0
        /\ credit \in Nat /\ debt \in Nat /\ deposits \in [Accounts -> Nat]
        /\ \A x \in Accounts : Spare(ledger, x) = deposits[x] /\ deposits[x] \in Nat
    BY Balanced DEF IInv
  <1>2. v <= deposits[a] /\ Call(r, credit, debt, own) /\ r.ok
    BY DEF RepatriateReserved, Call
  <1>3. n \in Nat /\ n <= v /\ n <= ledger.account[a].reserved
    <2>1. Sound(ledger)
      BY <1>1
    <2> QED BY <2>1, MovableOf
  <1>4. CASE a # b
    <2>1. Repatriates(ledger, r.s, a, b, n, status)
      <3>1. Sound(ledger) /\ Repatriated(ledger, a, b, v, status).ok
        BY <1>1, <1>2
      <3> QED BY <1>4, <3>1, Repatriating
    <2> HIDE DEF r, n
    <2>2. /\ Keeps(ledger, r.s) /\ Gap(r.s) = Gap(ledger) /\ Covered(ledger, r.s)
          /\ SpareMoves(ledger, r.s, a, n, b, IF status = "Reserved" THEN n ELSE 0)
      BY <2>1 DEF Repatriates
    <2>3. less \in [Accounts -> Nat] /\ \A x \in Accounts : less[x] = deposits[x] - IF x = a THEN n ELSE 0
      <3>1. deposits[a] - n \in Nat
        BY <1>1, <1>2, <1>3
      <3> QED BY <1>1, <1>3, <3>1
    <2> HIDE DEF less
    <2>4. /\ own \in [Accounts -> Nat]
          /\ \A x \in Accounts :
               own[x] = deposits[x] - (IF x = a THEN n ELSE 0)
                          + (IF x = b THEN IF status = "Reserved" THEN n ELSE 0 ELSE 0)
      <3>1. \A x \in Accounts : less[x] \in Nat /\ deposits[x] \in Nat
        BY <1>1, <2>3
      <3>2. CASE status = "Free"
        BY <1>3, <2>3, <3>1, <3>2
      <3>3. CASE status = "Reserved"
        <4>1. own = [less EXCEPT ![b] = less[b] + n]
          BY <3>3
        <4> HIDE DEF own
        <4>2. own \in [Accounts -> Nat] /\ \A x \in Accounts : own[x] = less[x] + IF x = b THEN n ELSE 0
          BY <1>3, <2>3, <3>1, <4>1
        <4> QED BY <1>3, <2>3, <3>1, <3>3, <4>2
      <3> QED BY <3>2, <3>3
    <2> HIDE DEF own
    <2>5. ASSUME NEW x \in Accounts PROVE Spare(r.s, x) = Spare(ledger, x) + (own[x] - deposits[x])
      <3>1. Spare(ledger, x) = deposits[x] /\ deposits[x] \in Nat
        BY <1>1
      <3>2. Spare(r.s, x) = Spare(ledger, x) - (IF x = a THEN n ELSE 0)
              + (IF x = b THEN IF status = "Reserved" THEN n ELSE 0 ELSE 0)
        BY <2>2 DEF SpareMoves
      <3> QED BY <1>3, <2>4, <3>1, <3>2
    <2>6. Gap(r.s) = Gap(ledger) + (credit - credit) - (debt - debt)
      BY <1>1, <2>2
    <2>7. IInv' /\ ledger' = r.s
      BY <1>1, <1>2, <2>2, <2>4, <2>5, <2>6, SettledCall
    <2> QED BY <2>2, <2>7
  <1>5. CASE a = b /\ status = "Free"
    <2>1. r = Unreserved(ledger, a, n) /\ own = less
      BY <1>5 DEF Repatriated
    <2> HIDE DEF n, r, own
    <2>3. /\ Keeps(ledger, r.s) /\ SpareGrows(ledger, r.s, a, - n)
          /\ Gap(r.s) = Gap(ledger) /\ Covered(ledger, r.s)
      <3>1. Sound(ledger) /\ Gap(ledger) >= 0 /\ n \in Nat
        BY <1>1, <1>3
      <3>2. Unreserves(ledger, Unreserved(ledger, a, n).s, a, n)
        BY <1>3, <3>1, UnreservingAll
      <3> QED BY <2>1, <3>2 DEF Unreserves
    <2>4. less \in [Accounts -> Nat] /\ \A x \in Accounts : less[x] = deposits[x] - IF x = a THEN n ELSE 0
      <3>1. deposits[a] - n \in Nat
        BY <1>1, <1>2, <1>3
      <3> QED BY <1>1, <1>3, <3>1
    <2> HIDE DEF less
    <2>5. \A x \in Accounts : Spare(r.s, x) = Spare(ledger, x) + (less[x] - deposits[x])
      BY <1>1, <1>3, <2>3, <2>4 DEF SpareGrows
    <2>6. Gap(r.s) = Gap(ledger) + (credit - credit) - (debt - debt)
      BY <1>1, <2>3
    <2>7. IInv' /\ ledger' = r.s
      BY <1>1, <1>2, <2>1, <2>3, <2>4, <2>5, <2>6, SettledCall
    <2> QED BY <2>3, <2>7
  <1>6. CASE a = b /\ status = "Reserved"
    <2>1. r = [ok |-> TRUE, s |-> ledger, dust |-> 0]
      BY <1>6 DEF Repatriated
    <2> HIDE DEF n, r
    <2>2. own = deposits
      <3>1. own = [less EXCEPT ![a] = less[a] + n]
        BY <1>6
      <3>2. less \in [Accounts -> Int] /\ less[a] + n = deposits[a]
            /\ \A x \in Accounts \ {a} : less[x] = deposits[x]
        BY <1>1, <1>3
      <3> HIDE DEF own, less
      <3> QED BY <1>1, <3>1, <3>2
    <2> HIDE DEF own
    <2>3. Neutral(ledger, r.s)
      BY <1>1, <2>1, NeutralStill
    <2>4. Ledger(r)
      BY <1>2, <2>2 DEF Ledger
    <2> QED BY <2>3, <2>4, NeutralCall
  <1>7. QED
    BY <1>4, <1>5, <1>6

-----------------------------------------------------------------------------
(* The steps of root, of slashing and of minting                               *)

\* A step that writes the issuance alone.
LEMMA IssuanceCall ==
  ASSUME IInv, NEW n \in Nat, NEW c \in Nat, NEW d \in Nat, Call(Issued(n), c, d, deposits),
         n - ledger.issuance = (c - credit) - (d - debt)
  PROVE  IInv'
  <1> DEFINE r == Issued(n)
  <1>1. /\ Sound(ledger) /\ Gap(ledger) \in Nat
        /\ credit \in Nat /\ debt \in Nat /\ deposits \in [Accounts -> Nat]
        /\ \A x \in Accounts : Spare(ledger, x) = deposits[x] /\ deposits[x] \in Nat
    BY Balanced DEF IInv
  <1>2. ledger.issuance \in Nat
    BY <1>1, SoundAt, LedgerParts DEF Sound
  <1>3. r.s = [ledger EXCEPT !.issuance = n]
    BY DEF Issued
  <1>4. /\ Keeps(ledger, r.s) /\ SparesKept(ledger, r.s)
        /\ Gap(r.s) = Gap(ledger) + n - ledger.issuance
    BY <1>1, <1>3, Issuing
  <1> HIDE DEF r
  <1>5. Gap(r.s) = Gap(ledger) + (c - credit) - (d - debt)
    BY <1>1, <1>2, <1>4
  <1>6. \A x \in Accounts : Spare(r.s, x) = Spare(ledger, x) + (deposits[x] - deposits[x])
    BY <1>1, <1>4 DEF SparesKept
  <1>7. Call(r, c, d, deposits)
    BY DEF r
  <1>8. QED
    BY <1>1, <1>4, <1>5, <1>6, <1>7, SettledCall

\* Dropped and merged imbalances, issue and burn (impl_currency.rs:54-240,
\* 290-330): no subtraction saturates, as the issuance covers what is pending.
LEMMA ImbalanceSteps ==
  ASSUME IInv, NEW v \in Nat, DropCredit \/ DropDebt \/ Offset \/ Issue(v) \/ Burn(v)
  PROVE  IInv'
  <1> DEFINE i == ledger.issuance
  <1>1. credit \in Nat /\ debt \in Nat /\ Gap(ledger) >= credit /\ Gap(ledger) \in Nat
    BY Balanced DEF IInv
  <1>2. i \in Nat /\ i >= credit
    <2>1. i \in Nat /\ Supply(ledger) \in Nat
      BY LedgerParts, SupplyType DEF IInv, Sound
    <2> QED BY <1>1, <2>1 DEF Gap
  <1> HIDE DEF i
  <1>3. CASE DropCredit
    <2>1. Less(i, credit) = i - credit /\ i - credit \in Nat
      BY <1>1, <1>2 DEF Less
    <2>2. Call(Issued(i - credit), 0, debt, deposits)
      BY <1>3, <2>1 DEF DropCredit, i
    <2>3. (i - credit) - ledger.issuance = (0 - credit) - (debt - debt)
      BY <1>1, <1>2 DEF i
    <2> QED BY <1>1, <2>1, <2>2, <2>3, IssuanceCall
  <1>4. CASE DropDebt
    <2>1. Call(Issued(i + debt), credit, 0, deposits) /\ i + debt \in Nat
      BY <1>1, <1>2, <1>4 DEF DropDebt, i
    <2>2. (i + debt) - ledger.issuance = (credit - credit) - (0 - debt)
      BY <1>1, <1>2 DEF i
    <2> QED BY <1>1, <2>1, <2>2, IssuanceCall
  <1>5. CASE Offset
    <2>1. /\ Less(credit, debt) \in Nat /\ Less(debt, credit) \in Nat
          /\ Less(credit, debt) - Less(debt, credit) = credit - debt
      BY <1>1 DEF Less
    <2> DEFINE c == Less(credit, debt)
               d == Less(debt, credit)
    <2>2. Call(Issued(i), c, d, deposits)
      BY <1>5 DEF Offset, i
    <2>3. c \in Nat /\ d \in Nat /\ i - ledger.issuance = (c - credit) - (d - debt)
      <3>1. c \in Nat /\ d \in Nat /\ c - d = credit - debt
        BY <2>1
      <3> HIDE DEF c, d
      <3> QED BY <1>1, <1>2, <3>1 DEF i
    <2> HIDE DEF c, d
    <2> QED BY <1>2, <2>2, <2>3, IssuanceCall
  <1>6. CASE Issue(v)
    <2>1. Call(Issued(i + v), credit + v, debt, deposits) /\ i + v \in Nat /\ credit + v \in Nat
      BY <1>1, <1>2, <1>6 DEF Issue, i
    <2>2. (i + v) - ledger.issuance = ((credit + v) - credit) - (debt - debt)
      BY <1>1, <1>2 DEF i
    <2> QED BY <1>1, <2>1, <2>2, IssuanceCall
  <1>7. CASE Burn(v)
    <2> DEFINE n == Less(i, v)
               d == debt + Least(v, i)
    <2>1. n \in Nat /\ d \in Nat /\ n - i = - (d - debt)
      BY <1>1, <1>2 DEF Less, Least
    <2>2. Call(Issued(n), credit, d, deposits)
      BY <1>7 DEF Burn, i
    <2> HIDE DEF n, d
    <2>3. n - ledger.issuance = (credit - credit) - (d - debt)
      BY <1>1, <1>2, <2>1 DEF i
    <2> QED BY <1>1, <2>1, <2>2, <2>3, IssuanceCall
  <1>8. QED
    BY <1>3, <1>4, <1>5, <1>6, <1>7

\* A step that sets a free balance, on which its caller settles the difference.
LEMMA FreeCall ==
  ASSUME IInv, NEW a \in Accounts, NEW v \in Nat, NEW c \in Nat, NEW d \in Nat,
         Call(Mutate(ledger, a, [ledger.account[a] EXCEPT !.free = v]), c, d, deposits),
         (c - credit) - (d - debt) = ledger.account[a].free - v,
         v < ED => v <= ledger.issuance
  PROVE  IInv'
  <1> DEFINE r == Mutate(ledger, a, [ledger.account[a] EXCEPT !.free = v])
             old == ledger.account[a]
  <1>1. /\ Sound(ledger) /\ Gap(ledger) \in Nat
        /\ credit \in Nat /\ debt \in Nat /\ deposits \in [Accounts -> Nat]
        /\ \A x \in Accounts : Spare(ledger, x) = deposits[x] /\ deposits[x] \in Nat
    BY Balanced DEF IInv
  <1>2. Call(r, c, d, deposits) /\ r.ok
    BY DEF Call
  <1>3. FreeSet(ledger, r.s, a, v)
    BY <1>1, <1>2, FreeSetting
  <1> HIDE DEF r
  <1>4. Keeps(ledger, r.s) /\ SparesKept(ledger, r.s) /\ Gap(r.s) = Gap(ledger) + old.free - v
    BY <1>3 DEF FreeSet
  <1>5. Gap(r.s) = Gap(ledger) + (c - credit) - (d - debt)
    <2>1. old.free \in Nat
      BY <1>1, SoundAt, DataParts
    <2> QED BY <1>1, <1>4, <2>1
  <1>6. \A x \in Accounts : Spare(r.s, x) = Spare(ledger, x) + (deposits[x] - deposits[x])
    BY <1>1, <1>4 DEF SparesKept
  <1>7. QED
    BY <1>1, <1>2, <1>4, <1>5, <1>6, SettledCall

\* slash, deposit and make_free_balance_be (impl_currency.rs:334-452, 482-531).
LEMMA FreeSteps ==
  ASSUME IInv, NEW a \in Accounts, NEW v \in Nat,
         Slash(a, v) \/ Deposit(a, v) \/ MakeFreeBalanceBe(a, v)
  PROVE  IInv'
  <1> DEFINE old == ledger.account[a]
  <1>1. /\ Sound(ledger) /\ Gap(ledger) >= 0 /\ credit \in Nat /\ debt \in Nat
    BY Balanced DEF IInv
  <1>2. /\ old.free \in Nat /\ ED \in Nat /\ ledger.issuance \in Nat
        /\ old.free <= ledger.issuance
        /\ old.free < ED => old = NoAccount /\ old.free = 0
    BY <1>1, SoundAt, DataParts, FreeCovered, BalancesAssumption
  <1>3. CASE Slash(a, v)
    <2> DEFINE n == Least(v, IF CanDecProvider(ledger, a) THEN old.free ELSE Less(old.free, ED))
               f == old.free - n
    <2>1. n \in Nat /\ n <= old.free /\ f \in Nat /\ f <= ledger.issuance
      BY <1>2 DEF Least, Less
    <2>2. Call(Mutate(ledger, a, [old EXCEPT !.free = f]), credit + n, debt, deposits)
      BY <1>3 DEF Slash
    <2> HIDE DEF n
    <2>3. /\ ((credit + n) - credit) - (debt - debt) = ledger.account[a].free - f
          /\ credit + n \in Nat
      BY <1>1, <1>2, <2>1
    <2> HIDE DEF f
    <2> QED BY <1>1, <2>1, <2>2, <2>3, FreeCall
  <1>4. CASE Deposit(a, v)
    <2> DEFINE f == old.free + v
    <2>1. f \in Nat /\ f >= ED /\ Call(Mutate(ledger, a, [old EXCEPT !.free = f]), credit, debt + v, deposits)
      BY <1>2, <1>4 DEF Deposit
    <2>2. /\ (credit - credit) - ((debt + v) - debt) = ledger.account[a].free - f
          /\ debt + v \in Nat
      BY <1>1, <1>2
    <2>3. f < ED => f <= ledger.issuance
      BY <1>2, <2>1
    <2> HIDE DEF f
    <2> QED BY <1>1, <2>1, <2>2, <2>3, FreeCall
  <1>5. CASE MakeFreeBalanceBe(a, v)
    <2> DEFINE c == credit + Less(old.free, v)
               d == debt + Less(v, old.free)
    <2>1. Call(Mutate(ledger, a, [old EXCEPT !.free = v]), c, d, deposits)
      BY <1>5 DEF MakeFreeBalanceBe
    <2>2. c \in Nat /\ d \in Nat /\ (c - credit) - (d - debt) = ledger.account[a].free - v
      BY <1>1, <1>2 DEF Less
    <2>3. v < ED => v <= ledger.issuance
      BY <1>2, <1>5 DEF MakeFreeBalanceBe
    <2> HIDE DEF c, d
    <2> QED BY <2>1, <2>2, <2>3, FreeCall
  <1>6. QED
    BY <1>3, <1>4, <1>5

\* force_set_balance (lib.rs:660-700): the issuance follows what was set.
LEMMA ForceSetStep ==
  ASSUME IInv, NEW a \in Accounts, NEW v \in Nat, ForceSetBalance(a, v)
  PROVE  IInv'
  <1> DEFINE old == ledger.account[a]
             free == IF v < ED THEN 0 ELSE v
             r == Mutate(ledger, a, [old EXCEPT !.free = free])
             n == Less(r.s.issuance + free, old.free)
             t == [r.s EXCEPT !.issuance = n]
             z == [r EXCEPT !.s.issuance = Less(@ + free, ledger.account[a].free)]
  <1>1. /\ Sound(ledger) /\ Gap(ledger) >= 0 /\ Gap(ledger) \in Nat /\ credit \in Nat /\ debt \in Nat
        /\ deposits \in [Accounts -> Nat]
        /\ \A x \in Accounts : Spare(ledger, x) = deposits[x] /\ deposits[x] \in Nat
    BY Balanced DEF IInv
  <1>2. old.free \in Nat /\ ledger.issuance \in Nat /\ old.free <= ledger.issuance
    BY <1>1, FreeCovered
  <1>3. free \in Nat /\ (free < ED => free <= ledger.issuance)
    BY <1>2
  <1>4. Call(z, credit, debt, deposits)
    BY DEF ForceSetBalance, Ledger
  <1> HIDE DEF free
  <1>5. IsResult(r)
    BY Results
  <1>6. z.s = t /\ z.ok = r.ok
    <2>1. z = [r EXCEPT !.s = t]
      OBVIOUS
    <2> HIDE DEF r, t, z
    <2> QED BY <1>5, <2>1, ResultChange
  <1>7. FreeSet(ledger, r.s, a, free)
    <2>1. r.ok
      BY <1>4, <1>6 DEF Call
    <2> QED BY <1>1, <1>3, <2>1, FreeSetting
  <1> HIDE DEF r
  <1>8. Keeps(ledger, r.s) /\ SparesKept(ledger, r.s) /\ Gap(r.s) = Gap(ledger) + old.free - free
    BY <1>7 DEF FreeSet
  <1>9. /\ Sound(r.s) /\ r.s.issuance \in Nat
        /\ n \in Nat /\ n = r.s.issuance + free - old.free
    <2>1. Sound(r.s) /\ r.s \in Ledgers
      BY <1>8 DEF Keeps, Sound
    <2>2. r.s.issuance \in Nat /\ Supply(r.s) \in Nat
      BY <2>1, LedgerParts, SupplyType
    <2>3. r.s.issuance + free >= old.free
      BY <1>1, <1>2, <1>3, <1>8, <2>2 DEF Gap
    <2> QED BY <1>2, <1>3, <2>1, <2>2, <2>3 DEF Less
  <1> HIDE DEF n
  <1>10. /\ Keeps(r.s, t) /\ SparesKept(r.s, t)
         /\ Gap(t) = Gap(r.s) + n - r.s.issuance
    BY <1>9, Issuing
  <1> HIDE DEF t, z
  <1>11. Keeps(ledger, z.s) /\ Gap(z.s) = Gap(ledger) + (credit - credit) - (debt - debt)
    BY <1>1, <1>2, <1>3, <1>6, <1>8, <1>9, <1>10 DEF Keeps
  <1>12. \A x \in Accounts : Spare(z.s, x) = Spare(ledger, x) + (deposits[x] - deposits[x])
    BY <1>1, <1>6, <1>8, <1>10 DEF SparesKept
  <1>13. QED
    BY <1>1, <1>4, <1>11, <1>12, SettledCall

\* mint_into (frame_support's Mutate): an imbalance of which nothing is left.
LEMMA MintStep ==
  ASSUME IInv, NEW a \in Accounts, NEW v \in Nat, MintInto(a, v)
  PROVE  IInv'
  <1> DEFINE r == Minted(ledger, a, v)
  <1>1. /\ Sound(ledger) /\ Gap(ledger) \in Nat /\ credit \in Nat /\ debt \in Nat
        /\ deposits \in [Accounts -> Nat]
        /\ \A x \in Accounts : Spare(ledger, x) = deposits[x] /\ deposits[x] \in Nat
    BY Balanced DEF IInv
  <1>2. Call(r, credit, debt, deposits) /\ r.ok
    BY DEF MintInto, Ledger, Call
  <1>3. Keeps(ledger, r.s) /\ SparesKept(ledger, r.s) /\ Gap(r.s) = Gap(ledger)
    BY <1>1, <1>2, Minting
  <1> HIDE DEF r
  <1>4. Gap(r.s) = Gap(ledger) + (credit - credit) - (debt - debt)
    BY <1>1, <1>3
  <1>5. \A x \in Accounts : Spare(r.s, x) = Spare(ledger, x) + (deposits[x] - deposits[x])
    BY <1>1, <1>3 DEF SparesKept
  <1>6. QED
    BY <1>1, <1>2, <1>3, <1>4, <1>5, SettledCall

\* slash_reserved, for callers that reserved as much, and slash_reserved_named.
LEMMA SlashSteps ==
  ASSUME IInv, NEW a \in Accounts, NEW v \in Nat, NEW id,
         \/ SlashReserved(a, v)
         \/ id \in ReserveIds /\ SlashReservedNamed(id, a, v)
  PROVE  IInv'
  <1>1. /\ Sound(ledger) /\ Gap(ledger) \in Nat /\ credit \in Nat /\ debt \in Nat
        /\ deposits \in [Accounts -> Nat]
        /\ \A x \in Accounts : /\ Spare(ledger, x) = deposits[x] /\ deposits[x] \in Nat
                               /\ Spare(ledger, x) >= 0
    BY Balanced DEF IInv
  <1>2. CASE SlashReserved(a, v)
    <2> DEFINE r == ReservedSlashed(ledger, a, v)
               n == Least(ledger.account[a].reserved, v)
               own == [deposits EXCEPT ![a] = @ - n]
    <2>1. v <= deposits[a] /\ Call(r, credit + n, debt, own)
      BY <1>2 DEF SlashReserved
    <2>2. /\ Keeps(ledger, r.s) /\ SpareGrows(ledger, r.s, a, - n)
          /\ Gap(r.s) = Gap(ledger) + n /\ n \in Nat /\ n <= v
      <3>1. Sound(ledger)
        BY <1>1
      <3> QED BY <3>1, SlashingReserved
    <2> HIDE DEF r, n
    <2>3. own \in [Accounts -> Nat] /\ \A x \in Accounts : own[x] = deposits[x] - IF x = a THEN n ELSE 0
      <3>1. deposits[a] - n \in Nat
        BY <1>1, <2>1, <2>2
      <3> QED BY <1>1, <2>2, <3>1
    <2> HIDE DEF own
    <2>4. \A x \in Accounts : Spare(r.s, x) = Spare(ledger, x) + (own[x] - deposits[x])
      BY <1>1, <2>2, <2>3 DEF SpareGrows
    <2>5. Gap(r.s) = Gap(ledger) + ((credit + n) - credit) - (debt - debt) /\ credit + n \in Nat
      BY <1>1, <2>2
    <2> QED BY <1>1, <2>1, <2>2, <2>3, <2>4, <2>5, SettledCall
  <1>3. CASE id \in ReserveIds /\ SlashReservedNamed(id, a, v)
    <2> DEFINE r == NamedSlashed(ledger, id, a, v)
               n == Change(ledger, id, a, v)
    <2>1. Call(r, credit + n, debt, deposits) /\ r.ok
      BY <1>3 DEF SlashReservedNamed, Call
    <2>2. /\ Keeps(ledger, r.s) /\ SparesKept(ledger, r.s)
          /\ Gap(r.s) = Gap(ledger) + n /\ n \in Nat
      <3>1. Sound(ledger) /\ Spare(ledger, a) >= 0 /\ id \in ReserveIds
        BY <1>1, <1>3
      <3> QED BY <2>1, <3>1, NamingSlashed
    <2> HIDE DEF r, n
    <2>3. Gap(r.s) = Gap(ledger) + ((credit + n) - credit) - (debt - debt) /\ credit + n \in Nat
      BY <1>1, <2>2
    <2>4. \A x \in Accounts : Spare(r.s, x) = Spare(ledger, x) + (deposits[x] - deposits[x])
      BY <1>1, <2>2 DEF SparesKept
    <2> QED BY <1>1, <2>1, <2>2, <2>3, <2>4, SettledCall
  <1>4. QED
    BY <1>2, <1>3

-----------------------------------------------------------------------------
(* The steps that change what is frozen                                        *)

\* A step that changes nothing else.
LEMMA RefrozenCall ==
  ASSUME IInv, NEW r, Ledger(r), Refrozen(ledger, r.s)
  PROVE  IInv'
  <1>1. /\ Gap(ledger) \in Nat /\ credit \in Nat /\ debt \in Nat
        /\ deposits \in [Accounts -> Nat]
        /\ \A x \in Accounts : Spare(ledger, x) = deposits[x] /\ deposits[x] \in Nat
    BY Balanced DEF IInv
  <1>2. /\ Sound(r.s) /\ FrozenAgrees(r.s) /\ Gap(r.s) = Gap(ledger)
        /\ \A x \in Accounts : Spare(r.s, x) = Spare(ledger, x)
    BY DEF Refrozen, SparesKept
  <1>3. Gap(r.s) = Gap(ledger) + (credit - credit) - (debt - debt)
    BY <1>1, <1>2
  <1>4. \A x \in Accounts : Spare(r.s, x) = Spare(ledger, x) + (deposits[x] - deposits[x])
    BY <1>1, <1>2
  <1>5. Settles(ledger, r.s, credit, debt, deposits, credit, debt, deposits)
    BY <1>1, <1>3, <1>4 DEF Settles
  <1>6. Call(r, credit, debt, deposits)
    BY DEF Ledger
  <1>7. QED
    BY <1>2, <1>5, <1>6, Calling

\* set_lock, extend_lock and remove_lock (impl_currency.rs:957-1030): a lock is
\* set where a balance is, and taken off anywhere.
LEMMA LockSteps ==
  ASSUME IInv, NEW a \in Accounts, NEW v \in Nat, NEW id \in LockIds,
         SetLock(id, a, v) \/ ExtendLock(id, a, v)
  PROVE  IInv'
  <1> DEFINE locks == ledger.locks[a]
  <1>1. Sound(ledger) /\ FrozenAgrees(ledger) /\ ledger \in Ledgers
    BY DEF IInv, Sound
  <1>2. locks \in [LockIds -> Nat] /\ ledger.freezes[a] \in [FreezeIds -> Nat] /\ locks[id] \in Nat
    BY <1>1, LedgerParts
  <1>3. CASE RemoveLock(id, a)
    <2> DEFINE m == [locks EXCEPT ![id] = 0]
    <2>1. m \in [LockIds -> Nat]
      BY <1>2
    <2>2. ledger.account[a].free >= ED \/ \A i \in LockIds : m[i] = 0
      <3> SUFFICES ASSUME ~(ledger.account[a].free >= ED) PROVE \A i \in LockIds : m[i] = 0
        OBVIOUS
      <3>1. ledger.account[a].free \in Nat /\ ED \in Nat
        BY <1>1, SoundAt, DataParts, BalancesAssumption
      <3>2. ledger.account[a] = NoAccount
        BY <1>1, <3>1, SoundAt
      <3>3. Greatest(Highest(locks), Highest(ledger.freezes[a])) = 0
        BY <1>1, <3>2, DataParts DEF FrozenAgrees
      <3>4. \A i \in LockIds : locks[i] = 0
        BY <1>2, <3>3, FrozenOf
      <3> QED BY <1>2, <3>4
    <2>3. Ledger(UpdateLocks(ledger, a, m))
      BY <1>3 DEF RemoveLock
    <2> HIDE DEF m
    <2>4. Refrozen(ledger, UpdateLocks(ledger, a, m).s)
      BY <1>1, <2>1, <2>2, LocksUpdated
    <2> QED BY <2>3, <2>4, RefrozenCall
  <1>4. CASE ~RemoveLock(id, a)
    <2>1. PICK w \in Nat : /\ Total(ledger.account[a]) # 0
                           /\ Ledger(UpdateLocks(ledger, a, [locks EXCEPT ![id] = w]))
      <3>1. CASE SetLock(id, a, v)
        BY <1>4, <3>1 DEF SetLock
      <3>2. CASE ExtendLock(id, a, v)
        <4>1. Greatest(locks[id], v) \in Nat
          BY <1>2 DEF Greatest
        <4>2. /\ Total(ledger.account[a]) # 0
              /\ Ledger(UpdateLocks(ledger, a, [locks EXCEPT ![id] = Greatest(locks[id], v)]))
          BY <3>2 DEF ExtendLock
        <4> QED BY <4>1, <4>2
      <3> QED BY <3>1, <3>2
    <2> DEFINE m == [locks EXCEPT ![id] = w]
    <2>2. m \in [LockIds -> Nat]
      BY <1>2
    <2>3. ledger.account[a].free >= ED
      <3>1. ledger.account[a].free \in Nat /\ ED \in Nat
        BY <1>1, SoundAt, DataParts, BalancesAssumption
      <3> QED BY <1>1, <2>1, <3>1, SoundAt, DataParts
    <2> HIDE DEF m
    <2>4. Refrozen(ledger, UpdateLocks(ledger, a, m).s)
      BY <1>1, <2>2, <2>3, LocksUpdated
    <2> QED BY <2>1, <2>4, RefrozenCall DEF m
  <1>5. QED
    BY <1>3, <1>4

\* set_freeze, extend_freeze and thaw (impl_fungible.rs:318-365).
LEMMA FreezeSteps ==
  ASSUME IInv, NEW a \in Accounts, NEW v \in Nat, NEW id \in FreezeIds,
         SetFreeze(id, a, v) \/ ExtendFreeze(id, a, v)
  PROVE  IInv'
  <1> DEFINE freezes == ledger.freezes[a]
  <1>1. Sound(ledger) /\ FrozenAgrees(ledger) /\ ledger \in Ledgers
    BY DEF IInv, Sound
  <1>2. freezes \in [FreezeIds -> Nat] /\ freezes[id] \in Nat
    BY <1>1, LedgerParts
  <1>3. PICK w \in Nat : Ledger(UpdateFreezes(ledger, a, [freezes EXCEPT ![id] = w]))
    <2>1. CASE SetFreeze(id, a, v)
      BY <2>1 DEF SetFreeze, Thaw
    <2>2. CASE ExtendFreeze(id, a, v)
      <3>1. Greatest(freezes[id], v) \in Nat
        BY <1>2 DEF Greatest
      <3>2. Ledger(UpdateFreezes(ledger, a, [freezes EXCEPT ![id] = Greatest(freezes[id], v)]))
        BY <2>2 DEF ExtendFreeze
      <3> QED BY <3>1, <3>2
    <2> QED BY <2>1, <2>2
  <1> DEFINE m == [freezes EXCEPT ![id] = w]
  <1>4. m \in [FreezeIds -> Nat]
    BY <1>2
  <1>5. Ledger(UpdateFreezes(ledger, a, m)) /\ UpdateFreezes(ledger, a, m).ok
    BY <1>3 DEF Ledger, Call
  <1> HIDE DEF m
  <1>6. Refrozen(ledger, UpdateFreezes(ledger, a, m).s)
    BY <1>1, <1>4, <1>5, FreezesUpdated
  <1>7. QED
    BY <1>5, <1>6, RefrozenCall

-----------------------------------------------------------------------------
(* All steps                                                                   *)

\* One rich account and nothing pending.
LEMMA Initially == Init => IInv
  <1> SUFFICES ASSUME Init PROVE IInv
    OBVIOUS
  <1>1. PICK rich \in Accounts, v \in ED .. MaxSupply :
          ledger = [account   |-> [a \in Accounts |-> IF a = rich THEN [NoAccount EXCEPT !.free = v]
                                                                  ELSE NoAccount],
                    providers |-> [a \in Accounts |-> IF a = rich THEN 1 ELSE 0],
                    consumers |-> [a \in Accounts |-> 0],
                    locks     |-> [a \in Accounts |-> [i \in LockIds |-> 0]],
                    freezes   |-> [a \in Accounts |-> [i \in FreezeIds |-> 0]],
                    holds     |-> [a \in Accounts |-> [i \in HoldReasons |-> 0]],
                    reserves  |-> [a \in Accounts |-> NoReserve],
                    issuance  |-> v + Rest]
    BY DEF Init
  <1> DEFINE d == [NoAccount EXCEPT !.free = v]
             account == [a \in Accounts |-> IF a = rich THEN d ELSE NoAccount]
  <1>2. v \in Nat /\ v >= ED /\ ED \in Nat \ {0} /\ Rest \in Nat /\ MaxPending \in Nat
    BY BalancesAssumption
  <1>3. d \in Data /\ d.free = v /\ d.reserved = 0 /\ d.frozen = 0
    BY <1>2, DataParts, DataOnce
  <1>4. NoReserve \in Entries /\ Sum(NoReserve) = 0
    <2>1. {} \in NameSets
      BY FS_EmptySet, BalancesAssumption DEF NameSets
    <2>2. NoReserve \in [{} -> Nat]
      BY DEF NoReserve
    <2> QED BY <2>1, <2>2, SumZero DEF Entries
  <1> HIDE DEF d
  <1>5. account \in [Accounts -> Data] /\ \A a \in Accounts \ {rich} : account[a] = NoAccount
    BY <1>3, DataParts
  <1>6. account[rich] = d
    OBVIOUS
  <1>7. ledger.account = account
    BY <1>1 DEF d
  <1> HIDE DEF account
  <1>8. ledger \in Ledgers
    <2> DEFINE providers == [a \in Accounts |-> IF a = rich THEN 1 ELSE 0]
               consumers == [a \in Accounts |-> 0]
               locks     == [a \in Accounts |-> [i \in LockIds |-> 0]]
               freezes   == [a \in Accounts |-> [i \in FreezeIds |-> 0]]
               holds     == [a \in Accounts |-> [i \in HoldReasons |-> 0]]
               reserves  == [a \in Accounts |-> NoReserve]
    <2>1. ledger = [account |-> account, providers |-> providers, consumers |-> consumers,
                    locks |-> locks, freezes |-> freezes, holds |-> holds,
                    reserves |-> reserves, issuance |-> v + Rest]
      <3>1. \A e : (\E x : ledger = [account |-> x, providers |-> providers, consumers |-> consumers,
                    locks |-> locks, freezes |-> freezes, holds |-> holds,
                    reserves |-> reserves, issuance |-> v + Rest]) /\ ledger.account = e
              => ledger = [account |-> e, providers |-> providers, consumers |-> consumers,
                    locks |-> locks, freezes |-> freezes, holds |-> holds,
                    reserves |-> reserves, issuance |-> v + Rest]
        <4> HIDE DEF providers, consumers, locks, freezes, holds, reserves
        <4> QED OBVIOUS
      <3> QED BY <1>1, <1>7, <3>1
    <2>2. /\ providers \in [Accounts -> Nat] /\ consumers \in [Accounts -> Nat]
          /\ locks \in [Accounts -> [LockIds -> Nat]]
          /\ freezes \in [Accounts -> [FreezeIds -> Nat]]
          /\ holds \in [Accounts -> [HoldReasons -> Nat]]
      OBVIOUS
    <2>3. reserves \in [Accounts -> Entries] /\ v + Rest \in Nat
      BY <1>2, <1>4
    <2> HIDE DEF providers, consumers, locks, freezes, holds, reserves
    <2> QED BY <1>5, <2>1, <2>2, <2>3 DEF Ledgers
  <1>9. Sound(ledger)
    <2> SUFFICES ASSUME NEW a \in Accounts
                 PROVE  /\ ledger.account[a] = NoAccount \/ ledger.account[a].free >= ED
                        /\ ledger.providers[a] = IF ledger.account[a].free >= ED THEN 1 ELSE 0
                        /\ ledger.consumers[a] = IF Held(ledger.account[a]) THEN 1 ELSE 0
      BY <1>8 DEF Sound
    <2>1. ledger.providers[a] = (IF a = rich THEN 1 ELSE 0) /\ ledger.consumers[a] = 0
      BY <1>1
    <2>2. CASE a = rich
      BY <1>2, <1>3, <1>6, <1>7, <2>1, <2>2 DEF Held
    <2>3. CASE a # rich
      BY <1>2, <1>5, <1>7, <2>1, <2>3, DataParts
    <2> QED BY <2>2, <2>3
  <1>10. \A a \in Accounts : ledger.account[a].frozen = 0 /\ ledger.account[a].reserved = 0
    BY <1>3, <1>5, <1>6, <1>7, DataParts
  <1>11. FrozenAgrees(ledger)
    <2> SUFFICES ASSUME NEW a \in Accounts
                 PROVE  Greatest(Highest(ledger.locks[a]), Highest(ledger.freezes[a])) = 0
      BY <1>10 DEF FrozenAgrees
    <2>1. /\ ledger.locks[a] \in [LockIds -> Nat] /\ \A i \in LockIds : ledger.locks[a][i] = 0
          /\ ledger.freezes[a] \in [FreezeIds -> Nat] /\ \A i \in FreezeIds : ledger.freezes[a][i] = 0
      BY <1>1
    <2> QED BY <2>1, FrozenOf
  <1>12. Supply(ledger) = v
    <2> DEFINE f == [a \in Accounts |-> Total(ledger.account[a])]
               g == [a \in Accounts |-> 0]
    <2>1. /\ f \in [Accounts -> Nat] /\ f[rich] = v
          /\ \A a \in Accounts \ {rich} : f[a] = g[a]
      <3>1. Total(d) = v
        BY <1>2, <1>3 DEF Total
      <3> QED BY <1>2, <1>5, <1>6, <1>7, <3>1, DataParts
    <2>2. g \in [Accounts -> Nat] /\ Sum(g) = 0 /\ g[rich] = 0
      BY SumZero
    <2>3. IsFiniteSet(Accounts)
      BY BalancesAssumption
    <2> HIDE DEF f, g
    <2>4. Sum(f) = Sum(g) - g[rich] + f[rich]
      BY <2>1, <2>2, <2>3, SumChange
    <2>5. Supply(ledger) = Sum(f)
      BY DEF Supply, f
    <2> QED BY <1>2, <2>1, <2>2, <2>4, <2>5
  <1>13. Gap(ledger) = Rest
    BY <1>1, <1>2, <1>12 DEF Gap
  <1>14. \A a \in Accounts : Spare(ledger, a) = 0
    <2> SUFFICES ASSUME NEW a \in Accounts PROVE Spare(ledger, a) = 0
      OBVIOUS
    <2>1. Sum(ledger.reserves[a]) = 0
      BY <1>1, <1>4
    <2>2. Sum(ledger.holds[a]) = 0
      <3>1. ledger.holds[a] \in [HoldReasons -> Nat] /\ \A i \in HoldReasons : ledger.holds[a][i] = 0
        BY <1>1
      <3> QED BY <3>1, SumZero
    <2> QED BY <1>10, <2>1, <2>2 DEF Spare
  <1>15. credit = 0 /\ debt = 0 /\ deposits = [a \in Accounts |-> 0]
    BY DEF Init
  <1>16. Books(ledger, credit, debt, deposits)
    BY <1>2, <1>13, <1>14, <1>15 DEF Books
  <1>17. QED
    BY <1>9, <1>11, <1>16 DEF IInv

-----------------------------------------------------------------------------
(* The invariant is inductive. *)

\* The values of the steps are natural numbers, those of transfers positive.
LEMMA ValueTypes ==
  /\ \A v \in Values : v \in Nat /\ v > 0
  /\ \A v \in 0 .. MaxSupply : v \in Nat
  /\ \A v \in LockAmounts \cup {0} : v \in Nat
  <1>1. MaxSupply \in Nat /\ \A v \in LockAmounts : v \in Nat
    BY BalancesAssumption
  <1> QED BY <1>1 DEF Values

\* A step that respects locks keeps the invariant and covers what is frozen.
LEMMA PoliteStep ==
  ASSUME IInv, Polite
  PROVE  IInv' /\ Covered(ledger, ledger')
  <1>1. CASE \E a, b \in Accounts : TransferAll(a, b)
    <2>1. PICK a \in Accounts, b \in Accounts : TransferAll(a, b)
      BY <1>1
    <2>2. 0 \in Nat
      OBVIOUS
    <2> QED BY <2>1, <2>2, TransferStep
  <1>2. CASE \E a, b \in Accounts, v \in Values : Transfer(a, b, v)
    <2>1. PICK a \in Accounts, b \in Accounts, v \in Values : Transfer(a, b, v)
      BY <1>2
    <2> QED BY <2>1, ValueTypes, TransferStep
  <1>3. CASE \E a \in Accounts, v \in Values : BurnFrom(a, v)
    <2>1. PICK a \in Accounts, v \in Values : BurnFrom(a, v)
      BY <1>3
    <2> QED BY <2>1, ValueTypes, BurnFromStep
  <1>4. CASE \E a \in Accounts, v \in Values, keep \in BOOLEAN : Withdraw(a, v, keep)
    <2>1. PICK a \in Accounts, v \in Values, keep \in BOOLEAN : Withdraw(a, v, keep)
      BY <1>4
    <2> QED BY <2>1, ValueTypes, WithdrawStep
  <1>5. CASE \E a \in Accounts, v \in Values : Reserve(a, v) \/ Unreserve(a, v)
    <2>1. PICK a \in Accounts, v \in Values : Reserve(a, v) \/ Unreserve(a, v)
      BY <1>5
    <2>2. CASE Reserve(a, v)
      BY <2>2, ValueTypes, ReserveStep
    <2>3. CASE Unreserve(a, v)
      BY <2>3, ValueTypes, UnreserveStep
    <2> QED BY <2>1, <2>2, <2>3
  <1>6. CASE \E a, b \in Accounts, v \in Values, status \in Statuses :
               \/ RepatriateReserved(a, b, v, status)
               \/ \E id \in ReserveIds : RepatriateReservedNamed(id, a, b, v, status)
    <2>1. PICK a \in Accounts, b \in Accounts, v \in Values, status \in Statuses :
               \/ RepatriateReserved(a, b, v, status)
               \/ \E id \in ReserveIds : RepatriateReservedNamed(id, a, b, v, status)
      BY <1>6
    <2>2. v \in Nat /\ status \in {"Free", "Reserved"}
      BY ValueTypes DEF Statuses
    <2>3. CASE RepatriateReserved(a, b, v, status)
      BY <2>2, <2>3, RepatriateStep
    <2>4. CASE \E id \in ReserveIds : RepatriateReservedNamed(id, a, b, v, status)
      <3>1. PICK id \in ReserveIds : RepatriateReservedNamed(id, a, b, v, status)
        BY <2>4
      <3> QED BY <2>2, <3>1, NamedSteps
    <2> QED BY <2>1, <2>3, <2>4
  <1>7. CASE \E a \in Accounts, v \in Values, id \in ReserveIds :
               ReserveNamed(id, a, v) \/ UnreserveNamed(id, a, v)
    <2>1. PICK a \in Accounts, v \in Values, id \in ReserveIds :
               ReserveNamed(id, a, v) \/ UnreserveNamed(id, a, v)
      BY <1>7
    <2>2. v \in Nat /\ "Free" \in {"Free", "Reserved"}
      BY ValueTypes
    <2> QED BY <2>1, <2>2, NamedSteps
  <1>8. CASE \E a \in Accounts, v \in Values, reason \in HoldReasons :
               Hold(reason, a, v) \/ Release(reason, a, v)
    <2>1. PICK a \in Accounts, v \in Values, reason \in HoldReasons :
               Hold(reason, a, v) \/ Release(reason, a, v)
      BY <1>8
    <2> QED BY <2>1, ValueTypes, HoldSteps
  <1>9. QED
    BY <1>1, <1>2, <1>3, <1>4, <1>5, <1>6, <1>7, <1>8 DEF Polite

\* So does a step of root, of slashing and of minting.
LEMMA ForcedStep ==
  ASSUME IInv, Forced
  PROVE  IInv'
  <1>1. CASE DropCredit \/ DropDebt \/ Offset
    <2>1. 0 \in Nat
      OBVIOUS
    <2> QED BY <1>1, <2>1, ImbalanceSteps
  <1>2. CASE \E v \in Values : Issue(v) \/ Burn(v)
    <2>1. PICK v \in Values : Issue(v) \/ Burn(v)
      BY <1>2
    <2> QED BY <2>1, ValueTypes, ImbalanceSteps
  <1>3. CASE \E a \in Accounts, v \in 0 .. MaxSupply :
               ForceSetBalance(a, v) \/ MakeFreeBalanceBe(a, v)
    <2>1. PICK a \in Accounts, v \in 0 .. MaxSupply :
               ForceSetBalance(a, v) \/ MakeFreeBalanceBe(a, v)
      BY <1>3
    <2>2. CASE ForceSetBalance(a, v)
      BY <2>2, ValueTypes, ForceSetStep
    <2>3. CASE MakeFreeBalanceBe(a, v)
      BY <2>3, ValueTypes, FreeSteps
    <2> QED BY <2>1, <2>2, <2>3
  <1>4. CASE \E a \in Accounts, v \in Values :
               MintInto(a, v) \/ Slash(a, v) \/ Deposit(a, v) \/ SlashReserved(a, v)
    <2>1. PICK a \in Accounts, v \in Values :
               MintInto(a, v) \/ Slash(a, v) \/ Deposit(a, v) \/ SlashReserved(a, v)
      BY <1>4
    <2>2. CASE MintInto(a, v)
      BY <2>2, ValueTypes, MintStep
    <2>3. CASE Slash(a, v) \/ Deposit(a, v)
      BY <2>3, ValueTypes, FreeSteps
    <2>4. CASE SlashReserved(a, v)
      BY <2>4, ValueTypes, SlashSteps
    <2> QED BY <2>1, <2>2, <2>3, <2>4
  <1>5. CASE \E a \in Accounts, v \in Values, id \in ReserveIds : SlashReservedNamed(id, a, v)
    <2>1. PICK a \in Accounts, v \in Values, id \in ReserveIds : SlashReservedNamed(id, a, v)
      BY <1>5
    <2> QED BY <2>1, ValueTypes, SlashSteps
  <1>6. QED
    BY <1>1, <1>2, <1>3, <1>4, <1>5 DEF Forced

\* So does a change of locks and freezes.
LEMMA LockingStep ==
  ASSUME IInv, Locking
  PROVE  IInv'
  <1>1. PICK a \in Accounts, v \in LockAmounts \cup {0} :
          \/ \E id \in LockIds : SetLock(id, a, v) \/ ExtendLock(id, a, v)
          \/ \E id \in FreezeIds : SetFreeze(id, a, v) \/ ExtendFreeze(id, a, v)
    BY DEF Locking
  <1>2. v \in Nat
    BY ValueTypes
  <1>3. CASE \E id \in LockIds : SetLock(id, a, v) \/ ExtendLock(id, a, v)
    <2>1. PICK id \in LockIds : SetLock(id, a, v) \/ ExtendLock(id, a, v)
      BY <1>3
    <2> QED BY <1>2, <2>1, LockSteps
  <1>4. CASE \E id \in FreezeIds : SetFreeze(id, a, v) \/ ExtendFreeze(id, a, v)
    <2>1. PICK id \in FreezeIds : SetFreeze(id, a, v) \/ ExtendFreeze(id, a, v)
      BY <1>4
    <2> QED BY <1>2, <2>1, FreezeSteps
  <1>5. QED
    BY <1>1, <1>3, <1>4

\* The invariant says the same of equal ledgers and books.
LEMMA Stuttering ==
  ASSUME IInv, UNCHANGED vars
  PROVE  IInv'
  <1>1. ledger' = ledger /\ credit' = credit /\ debt' = debt /\ deposits' = deposits
    BY DEF vars
  <1> QED
    BY <1>1 DEF IInv

\* Every step keeps the invariant.
LEMMA Stepping == IInv /\ [Next]_vars => IInv'
  <1> SUFFICES ASSUME IInv, [Next]_vars
               PROVE  IInv'
    OBVIOUS
  <1>1. CASE Polite
    BY <1>1, PoliteStep
  <1>2. CASE Forced
    BY <1>2, ForcedStep
  <1>3. CASE Locking
    BY <1>3, LockingStep
  <1>4. CASE UNCHANGED vars
    BY <1>4, Stuttering
  <1>5. QED
    BY <1>1, <1>2, <1>3, <1>4 DEF Next

-----------------------------------------------------------------------------
(* What the invariant says. *)

\* References and frozen amounts agree with the data.
LEMMA SaysReferences == IInv => ReferencesAgree
  BY DEF IInv, Sound, FrozenAgrees, ReferencesAgree

\* The issuance is the supply and what is pending.
LEMMA SaysIssuance == IInv => IssuanceAgrees
  <1> SUFFICES ASSUME IInv PROVE IssuanceAgrees
    OBVIOUS
  <1>1. ledger.issuance \in Nat /\ Supply(ledger) \in Nat
    BY LedgerParts, SupplyType DEF IInv, Sound
  <1>2. credit \in Nat /\ debt \in Nat /\ Gap(ledger) = Rest + credit - debt
    BY DEF IInv, Books
  <1>3. Rest \in Nat
    BY BalancesAssumption
  <1> QED BY <1>1, <1>2, <1>3 DEF Gap, IssuanceAgrees

\* Every part of a reserved balance has its taker.
LEMMA SaysReserves == IInv => ReservesBacked
  <1> SUFFICES ASSUME IInv, NEW a \in Accounts
               PROVE  ledger.account[a].reserved
                        = deposits[a] + Sum(ledger.holds[a]) + Sum(ledger.reserves[a])
    BY DEF ReservesBacked
  <1>1. /\ Sum(ledger.holds[a]) \in Nat /\ Sum(ledger.reserves[a]) \in Nat
        /\ ledger.account[a].reserved \in Nat
    BY SpareType DEF IInv, Sound
  <1>2. Spare(ledger, a) = deposits[a] /\ deposits[a] \in Nat
    BY Balanced DEF IInv
  <1> QED BY <1>1, <1>2 DEF Spare

-----------------------------------------------------------------------------
(* The theorems. *)

\* After any sequence of calls the ledger is sound, what is frozen follows the
\* locks and freezes, and issuance and reserves agree with the callers' books.
THEOREM Invariance == Spec => []IInv
  <1>1. Init => IInv
    BY Initially
  <1>2. IInv /\ [Next]_vars => IInv'
    BY Stepping
  <1>3. QED
    BY <1>1, <1>2, PTL DEF Spec

\* Every field stays in range, and try_mutate_account leaves no account between
\* nothing and the existential deposit.
THEOREM TypeCorrect == Spec => []TypeOK
  <1>1. IInv => TypeOK
    <2> SUFFICES ASSUME IInv PROVE TypeOK
      OBVIOUS
    <2>1. Sound(ledger) /\ ledger \in Ledgers /\ Books(ledger, credit, debt, deposits)
      BY DEF IInv, Sound
    <2>2. credit \in 0 .. MaxPending /\ debt \in 0 .. MaxPending /\ deposits \in [Accounts -> Nat]
      BY <2>1, BalancesAssumption DEF Books
    <2>3. ledger.issuance \in Nat /\ ledger.account \in [Accounts -> Data]
      BY <2>1, LedgerParts
    <2>4. ASSUME NEW a \in Accounts
          PROVE  LET d == ledger.account[a]
                 IN  /\ d.free = 0 \/ d.free >= ED \/ d.reserved # 0
                     /\ DOMAIN ledger.reserves[a] \subseteq ReserveIds
                     /\ Cardinality(DOMAIN ledger.reserves[a]) <= MaxReserves
                     /\ \A id \in DOMAIN ledger.reserves[a] : ledger.reserves[a][id] \in Nat
      <3>1. ledger.account[a].free = 0 \/ ledger.account[a].free >= ED
        BY <2>1, DataParts DEF Sound
      <3>2. ledger.reserves[a] \in Entries
        BY <2>1, LedgerParts
      <3>3. PICK S \in NameSets : ledger.reserves[a] \in [S -> Nat]
        BY <3>2 DEF Entries
      <3> QED BY <3>1, <3>3 DEF NameSets
    <2> QED BY <2>2, <2>3, <2>4 DEF TypeOK, Data
  <1>2. QED
    BY <1>1, Invariance, PTL

\* Providers, consumers and frozen amounts agree with the data of the account:
\* no call leaks or loses a reference, so an account is reaped exactly when
\* nothing depends on it.
THEOREM ReferencesStayRight == Spec => []ReferencesAgree
  BY SaysReferences, Invariance, PTL

\* The issuance is what the accounts hold and the callers still have to settle,
\* in whatever order imbalances are dropped and dust is removed.
THEOREM IssuanceConserved == Spec => []IssuanceAgrees
  BY SaysIssuance, Invariance, PTL

\* What an account has reserved is what its holds, its named reserves and the
\* callers of the anonymous interface have taken, no more and no less.
THEOREM ReservesStayBacked == Spec => []ReservesBacked
  BY SaysReserves, Invariance, PTL

\* No call that respects locks, whatever it moves, reserves or withdraws, brings
\* the total of any account below what was frozen of it.
THEOREM LocksRespected == Spec => LocksHold
  <1>1. IInv =>
          [(\E a \in Accounts :
               Total(ledger'.account[a]) < Least(Total(ledger.account[a]), ledger.account[a].frozen))
             => ~Polite]_vars
    <2> SUFFICES ASSUME IInv, Polite, NEW a \in Accounts,
                        Total(ledger'.account[a])
                          < Least(Total(ledger.account[a]), ledger.account[a].frozen)
                 PROVE  FALSE
      OBVIOUS
    <2>1. Total(ledger'.account[a]) >= Least(Total(ledger.account[a]), ledger.account[a].frozen)
      BY PoliteStep DEF Covered
    <2>2. ledger.account[a] \in Data /\ ledger'.account[a] \in Data
      BY SoundAt, PoliteStep DEF IInv
    <2>3. /\ Total(ledger.account[a]) \in Nat /\ Total(ledger'.account[a]) \in Nat
          /\ ledger.account[a].frozen \in Nat
      BY <2>2, DataParts
    <2> QED BY <2>1, <2>3 DEF Least
  <1>2. QED
    BY <1>1, Invariance, PTL DEF LocksHold

(* An account with anything reserved or frozen keeps the existential deposit   *)
(* free, although the invariant of the pallet does not ask for it.             *)
HeldIsAlive ==
  \A a \in Accounts : Held(ledger.account[a]) => ledger.account[a].free >= ED

\* Nothing is reserved or frozen in an account whose free balance is below the
\* existential deposit: no slash, transfer or burn removes the last provider of
\* an account that something still depends on.
THEOREM HeldStaysAlive == Spec => []HeldIsAlive
  <1>1. IInv => HeldIsAlive
    <2> SUFFICES ASSUME IInv, NEW a \in Accounts, Held(ledger.account[a])
                 PROVE  ledger.account[a].free >= ED
      BY DEF HeldIsAlive
    <2>1. ledger.account[a] = NoAccount \/ ledger.account[a].free >= ED
      BY DEF IInv, Sound
    <2> QED BY <2>1, DataParts
  <1>2. QED
    BY <1>1, Invariance, PTL

(* The guard of DropDebt and the saturating subtractions: what callers hold as  *)
(* credit is never more than the issuance, nor is any balance.                 *)
NeverSaturates ==
  /\ credit <= ledger.issuance
  /\ \A a \in Accounts : Total(ledger.account[a]) + credit <= ledger.issuance

\* Neither dropping a negative imbalance nor burning a balance ever saturates the
\* issuance at zero: saturating_sub there loses nothing.
THEOREM SubtractionsExact == Spec => []NeverSaturates
  <1>1. IInv => NeverSaturates
    <2> SUFFICES ASSUME IInv PROVE NeverSaturates
      OBVIOUS
    <2>1. /\ Gap(ledger) \in Nat /\ Gap(ledger) >= credit /\ credit \in Nat
      BY Balanced DEF IInv
    <2>2. ledger.issuance \in Nat /\ Supply(ledger) \in Nat
      BY LedgerParts, SupplyType DEF IInv, Sound
    <2>3. \A a \in Accounts : Total(ledger.account[a]) <= Supply(ledger)
                              /\ Total(ledger.account[a]) \in Nat
      BY SupplyType, SoundAt, DataParts DEF IInv, Sound
    <2> QED BY <2>1, <2>2, <2>3 DEF Gap, NeverSaturates
  <1>2. QED
    BY <1>1, Invariance, PTL

=============================================================================
