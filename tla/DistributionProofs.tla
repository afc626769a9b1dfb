------------------------- MODULE DistributionProofs -------------------------
(* The pallets that pay tokens out never promise more than the pot holds, every *)
(* unit is accounted for, and nobody pays for another.  The ledger's part of    *)
(* each step comes from the lemmas of BalancesProofs; what is added is how a    *)
(* step shifts the sum of all balances, the free balance of the pot and those   *)
(* of the users, and the pallets' own books.                                    *)
EXTENDS Distribution, BalancesProofs

-----------------------------------------------------------------------------
(* The ledger under these pallets: nobody holds, names reserves or leaves an    *)
(* imbalance, and the pot is neither locked nor reserved from.                  *)

Unheld(s) == \A a \in Accounts : Sum(s.holds[a]) = 0 /\ Sum(s.reserves[a]) = 0

PotUnlocked(s) ==
  /\ \A i \in LockIds : s.locks[Pot][i] = 0
  /\ \A i \in FreezeIds : s.freezes[Pot][i] = 0

LedgerInv ==
  /\ IInv /\ credit = 0 /\ debt = 0
  /\ Unheld(ledger) /\ PotUnlocked(ledger) /\ deposits[Pot] = 0

(* No user has less than before, but for those who pay.                        *)
Spares(s, t, payers) ==
  \A a \in Users \ payers : Total(t.account[a]) >= Total(s.account[a])

(* What a step does to the sum of all balances and to the pot, and who pays.   *)
Shifts(total, pot, payers) ==
  /\ LedgerInv'
  /\ Supply(ledger') = Supply(ledger) + total
  /\ ledger'.account[Pot].free = ledger.account[Pot].free + pot
  /\ Spares(ledger, ledger', payers)

\* The constants, one by one.
LEMMA ConstantTypes ==
  /\ Pot \in Accounts /\ Users \subseteq Accounts /\ Pot \notin Users
  /\ Founders \subseteq Users /\ Depositors \subseteq Users
  /\ Endowed \in Nat /\ BlockReward \in Nat /\ Fee \in Nat /\ DefaultMintAmount \in Nat
  /\ BaseDeposit \in Nat /\ ByteDeposit \in Nat
  /\ MinVestedTransfer \in Nat /\ MinVestedTransfer > 0
  /\ \A v \in Amounts : v \in Nat
  /\ \A v \in Sizes : v \in Nat
  /\ "vesting" \in LockIds
  /\ ED \in Nat /\ ED > 0 /\ Endowed >= ED /\ BlockReward >= ED
  /\ IsFiniteSet(Accounts) /\ Rest \in Nat /\ MaxPending \in Nat
  BY DistributionAssumption, BalancesAssumption DEF Users

\* What the invariant says of the ledger.
LEMMA LedgerFacts ==
  ASSUME LedgerInv
  PROVE  /\ Sound(ledger) /\ FrozenAgrees(ledger) /\ ledger \in Ledgers
         /\ Gap(ledger) = Rest /\ Gap(ledger) \in Nat /\ Gap(ledger) >= 0
         /\ Supply(ledger) \in Nat
         /\ credit = 0 /\ debt = 0 /\ deposits \in [Accounts -> Nat]
         /\ \A a \in Accounts : /\ Spare(ledger, a) = deposits[a] /\ deposits[a] \in Nat
                                /\ ledger.account[a].reserved = deposits[a]
                                /\ ledger.account[a].free \in Nat
  <1>1. Sound(ledger) /\ FrozenAgrees(ledger) /\ ledger \in Ledgers
    BY DEF LedgerInv, IInv, Sound
  <1>2. Books(ledger, credit, debt, deposits) /\ credit = 0 /\ debt = 0
    BY DEF LedgerInv, IInv
  <1>3. Supply(ledger) \in Nat
    BY <1>1, SupplyType
  <1>4. Gap(ledger) = Rest /\ Gap(ledger) \in Nat
    BY <1>2, ConstantTypes DEF Books
  <1>5. deposits \in [Accounts -> Nat]
    BY <1>2 DEF Books
  <1>6. ASSUME NEW a \in Accounts
        PROVE  /\ Spare(ledger, a) = deposits[a] /\ deposits[a] \in Nat
               /\ ledger.account[a].reserved = deposits[a]
               /\ ledger.account[a].free \in Nat
    <2>1. Spare(ledger, a) = deposits[a] /\ deposits[a] \in Nat
      BY <1>2, <1>5 DEF Books
    <2>2. Sum(ledger.holds[a]) = 0 /\ Sum(ledger.reserves[a]) = 0
      BY DEF LedgerInv, Unheld
    <2>3. ledger.account[a].reserved \in Nat /\ ledger.account[a].free \in Nat
      BY <1>1, LedgerParts, DataParts
    <2> QED BY <2>1, <2>2, <2>3 DEF Spare
  <1>7. QED
    BY <1>1, <1>2, <1>3, <1>4, <1>5, <1>6

\* The pot is free of anything that would keep it alive.
LEMMA PotFacts ==
  ASSUME LedgerInv
  PROVE  /\ ledger.account[Pot] \in Data
         /\ ledger.account[Pot].reserved = 0 /\ ledger.account[Pot].frozen = 0
         /\ Total(ledger.account[Pot]) = ledger.account[Pot].free
  <1>1. Sound(ledger) /\ FrozenAgrees(ledger) /\ ledger \in Ledgers
    BY LedgerFacts
  <1>2. ledger.account[Pot] \in Data
    BY <1>1, ConstantTypes, LedgerParts
  <1>3. ledger.account[Pot].reserved = 0
    BY ConstantTypes, LedgerFacts DEF LedgerInv
  <1>4. ledger.account[Pot].frozen = 0
    <2>1. ledger.locks[Pot] \in [LockIds -> Nat] /\ ledger.freezes[Pot] \in [FreezeIds -> Nat]
      BY <1>1, ConstantTypes, LedgerParts
    <2>2. PotUnlocked(ledger)
      BY DEF LedgerInv
    <2>3. Greatest(Highest(ledger.locks[Pot]), Highest(ledger.freezes[Pot])) = 0
      BY <2>1, <2>2, FrozenOf DEF PotUnlocked
    <2> QED BY <1>1, <2>3, ConstantTypes DEF FrozenAgrees
  <1>5. QED
    BY <1>2, <1>3, <1>4, DataParts DEF Total

-----------------------------------------------------------------------------
(* How the ledger's operations shift the sum of all balances. *)

\* Two accounts written at once.
LEMMA SupplyTwice ==
  ASSUME NEW s \in Ledgers, NEW t \in Ledgers, NEW a \in Accounts, NEW b \in Accounts, a # b,
         NEW d \in Data, NEW e \in Data,
         t.account = [s.account EXCEPT ![a] = d, ![b] = e]
  PROVE  Supply(t) = Supply(s) - Total(s.account[a]) - Total(s.account[b]) + Total(d) + Total(e)
  <1> DEFINE u == [t EXCEPT !.account = [s.account EXCEPT ![a] = d]]
  <1>1. s.account \in [Accounts -> Data] /\ [s.account EXCEPT ![a] = d] \in [Accounts -> Data]
    BY LedgerParts
  <1>2. u \in Ledgers /\ u.account = [s.account EXCEPT ![a] = d]
    BY <1>1 DEF Ledgers
  <1> HIDE DEF u
  <1>3. u.account[b] = s.account[b]
    BY <1>1, <1>2
  <1>4. t.account = [u.account EXCEPT ![b] = e]
    BY <1>1, <1>2
  <1>5. Supply(u) = Supply(s) - Total(s.account[a]) + Total(d)
    BY <1>2, SupplyChange
  <1>6. Supply(t) = Supply(u) - Total(u.account[b]) + Total(e)
    <2>1. u \in Ledgers
      BY <1>2
    <2> QED BY <1>4, <2>1, SupplyChange
  <1>7. /\ Supply(s) \in Nat /\ Total(s.account[a]) \in Nat /\ Total(s.account[b]) \in Nat
        /\ Total(d) \in Nat /\ Total(e) \in Nat
    BY SupplyType, DataParts
  <1>8. QED
    BY <1>3, <1>5, <1>6, <1>7

\* A debit that leaves the deposit is what is written.
LEMMA DebitWritten ==
  ASSUME NEW s, Sound(s), NEW a \in Accounts, NEW v \in Nat, v <= s.account[a].free,
         v > 0 => Debited(s, a, v).free >= ED
  PROVE  /\ Written(Debited(s, a, v)) \in Data
         /\ Written(Debited(s, a, v)).free = s.account[a].free - v
         /\ Total(Written(Debited(s, a, v))) = Total(s.account[a]) - v
  <1> DEFINE d == Debited(s, a, v)
             old == s.account[a]
  <1>1. /\ old \in Data /\ old.free \in Nat /\ Total(old) \in Nat /\ ED \in Nat
        /\ old.free < ED => old = NoAccount
        /\ NoAccount \in Data /\ NoAccount.free = 0 /\ Total(NoAccount) = 0
    BY SoundAt, DataParts, ConstantTypes
  <1>2. d \in Data /\ d.free = old.free - v /\ Total(d) = Total(old) - v
    BY MovedParts DEF Sound
  <1> HIDE DEF d, old
  <1>3. CASE d.free >= ED
    <2>1. Written(d) = d
      BY <1>3 DEF Written
    <2> QED BY <1>2, <2>1 DEF d, old
  <1>4. CASE ~(d.free >= ED)
    <2>1. Written(d) = NoAccount
      BY <1>4 DEF Written
    <2>2. v = 0
      BY <1>4 DEF d
    <2>3. old = NoAccount
      BY <1>1, <1>2, <1>4, <2>2
    <2> QED BY <1>1, <2>1, <2>2, <2>3 DEF d, old
  <1>5. QED
    BY <1>3, <1>4

\* So is a credit that reaches the deposit.
LEMMA CreditWritten ==
  ASSUME NEW s, Sound(s), NEW a \in Accounts, NEW v \in Nat,
         v > 0 => Credited(s, a, v).free >= ED
  PROVE  /\ Written(Credited(s, a, v)) \in Data
         /\ Written(Credited(s, a, v)).free = s.account[a].free + v
         /\ Total(Written(Credited(s, a, v))) = Total(s.account[a]) + v
  <1> DEFINE d == Credited(s, a, v)
             old == s.account[a]
  <1>1. /\ old \in Data /\ old.free \in Nat /\ Total(old) \in Nat /\ ED \in Nat
        /\ old.free < ED => old = NoAccount
        /\ NoAccount \in Data /\ NoAccount.free = 0 /\ Total(NoAccount) = 0
    BY SoundAt, DataParts, ConstantTypes
  <1>2. d \in Data /\ d.free = old.free + v /\ Total(d) = Total(old) + v
    BY MovedParts DEF Sound
  <1> HIDE DEF d, old
  <1>3. CASE d.free >= ED
    <2>1. Written(d) = d
      BY <1>3 DEF Written
    <2> QED BY <1>2, <2>1 DEF d, old
  <1>4. CASE ~(d.free >= ED)
    <2>1. Written(d) = NoAccount
      BY <1>4 DEF Written
    <2>2. v = 0
      BY <1>4 DEF d
    <2>3. old = NoAccount
      BY <1>1, <1>2, <1>4, <2>2
    <2> QED BY <1>1, <2>1, <2>2, <2>3 DEF d, old
  <1>5. QED
    BY <1>3, <1>4

\* Accounts that are written as they were spare everybody.
LEMMA SparesSame ==
  ASSUME NEW s \in Ledgers, NEW t, \A x \in Accounts : Total(t.account[x]) = Total(s.account[x]),
         NEW P
  PROVE  Spares(s, t, P)
  BY SupplyType, ConstantTypes DEF Spares

\* One account written: the others are spared.
LEMMA SparesOthers ==
  ASSUME NEW s \in Ledgers, NEW t, NEW a \in Accounts, NEW d,
         t.account = [s.account EXCEPT ![a] = d]
  PROVE  Spares(s, t, {a})
  <1>1. s.account \in [Accounts -> Data] /\ \A x \in Accounts : Total(s.account[x]) \in Nat
    BY LedgerParts, SupplyType
  <1>2. \A x \in Accounts \ {a} : t.account[x] = s.account[x]
    BY <1>1
  <1>3. QED
    BY <1>1, <1>2, ConstantTypes DEF Spares

\* And if it has no less than before, all are.
LEMMA SparesReceiver ==
  ASSUME NEW s \in Ledgers, NEW t, NEW a \in Accounts, NEW d,
         t.account = [s.account EXCEPT ![a] = d], Total(d) >= Total(s.account[a]), NEW P
  PROVE  Spares(s, t, P)
  <1>1. s.account \in [Accounts -> Data] /\ \A x \in Accounts : Total(s.account[x]) \in Nat
    BY LedgerParts, SupplyType
  <1>2. t.account[a] = d /\ \A x \in Accounts \ {a} : t.account[x] = s.account[x]
    BY <1>1
  <1>3. QED
    BY <1>1, <1>2, ConstantTypes DEF Spares

\* Of two accounts written, the one that receives is spared.
LEMMA SparesTwice ==
  ASSUME NEW s \in Ledgers, NEW t, NEW a \in Accounts, NEW b \in Accounts, a # b,
         NEW d, NEW e, t.account = [s.account EXCEPT ![a] = d, ![b] = e],
         Total(e) >= Total(s.account[b])
  PROVE  Spares(s, t, {a})
  <1>1. s.account \in [Accounts -> Data] /\ \A x \in Accounts : Total(s.account[x]) \in Nat
    BY LedgerParts, SupplyType
  <1>2. t.account[b] = e /\ \A x \in Accounts \ {a, b} : t.account[x] = s.account[x]
    BY <1>1
  <1>3. QED
    BY <1>1, <1>2, ConstantTypes DEF Spares

\* A step that leaves the tables alone keeps the pallets' part of the invariant.
LEMMA TablesLeft ==
  ASSUME LedgerInv, IInv', credit' = 0, debt' = 0, deposits'[Pot] = 0,
         SideTablesKept(ledger, ledger')
  PROVE  LedgerInv'
  BY DEF LedgerInv, Unheld, PotUnlocked, SideTablesKept

\* A neutral call leaves the imbalances and the deposits.
LEMMA NeutralLeft ==
  ASSUME LedgerInv, NEW r, Ledger(r), Neutral(ledger, r.s), SideTablesKept(ledger, r.s)
  PROVE  LedgerInv' /\ ledger' = r.s /\ r.ok
  <1>1. IInv' /\ ledger' = r.s /\ r.ok
    BY NeutralCall DEF LedgerInv, Ledger, Call
  <1>2. credit' = 0 /\ debt' = 0 /\ deposits'[Pot] = 0
    BY DEF LedgerInv, Ledger, Call
  <1>3. LedgerInv'
    BY <1>1, <1>2, TablesLeft
  <1>4. QED
    BY <1>1, <1>3

\* An account other than the pot leaves the pot's entry as it is.
LEMMA PotApart ==
  ASSUME NEW s \in Ledgers, NEW a \in Accounts, a # Pot, NEW d
  PROVE  [s.account EXCEPT ![a] = d][Pot] = s.account[Pot]
  BY LedgerParts, ConstantTypes

\* A fee that is collected from an account is gone from the sum of all balances.
LEMMA FeeShift ==
  ASSUME LedgerInv, NEW a \in Users, Ledger(Burned(ledger, a, Fee, "Preserve"))
  PROVE  Shifts(- Fee, 0, {a})
  <1> DEFINE r == Burned(ledger, a, Fee, "Preserve")
             d == Written(Debited(ledger, a, Fee))
  <1>1. /\ Sound(ledger) /\ ledger \in Ledgers /\ Gap(ledger) >= 0 /\ Fee \in Nat
        /\ a \in Accounts /\ a # Pot /\ Supply(ledger) \in Nat /\ Pot \in Accounts
        /\ ledger.account[Pot].free \in Nat
    BY LedgerFacts, ConstantTypes
  <1>2. r.ok /\ Ledger(r)
    BY DEF Ledger, Call
  <1>3. Burns(ledger, r.s, a, Fee, "Preserve") /\ Neutral(ledger, r.s)
    BY <1>1, <1>2, Burning
  <1> HIDE DEF r
  <1>4. SideTablesKept(ledger, r.s) /\ r.s.account = [ledger.account EXCEPT ![a] = d]
    BY <1>3 DEF Burns
  <1>5. LedgerInv' /\ ledger' = r.s
    BY <1>2, <1>3, <1>4, NeutralLeft
  <1>6. d \in Data /\ Total(d) = Total(ledger.account[a]) - Fee
    BY <1>1, <1>3, DebitWritten DEF Burns
  <1> HIDE DEF d
  <1>7. r.s \in Ledgers
    BY <1>3 DEF Neutral, Keeps, Sound
  <1>8. Supply(r.s) = Supply(ledger) - Total(ledger.account[a]) + Total(d)
    BY <1>1, <1>4, <1>6, <1>7, SupplyChange
  <1>9. Total(ledger.account[a]) \in Nat
    BY <1>1, SupplyType
  <1>10. r.s.account[Pot] = ledger.account[Pot]
    BY <1>1, <1>4, PotApart
  <1>11. Spares(ledger, r.s, {a})
    BY <1>1, <1>4, SparesOthers
  <1>12. QED
    BY <1>1, <1>5, <1>6, <1>8, <1>9, <1>10, <1>11 DEF Shifts

\* The deposit of an amount and the issuance that goes with it.
LEMMA CreatedShift ==
  ASSUME LedgerInv, NEW a \in Accounts, NEW v \in Nat, Ledger(Created(a, v))
  PROVE  Shifts(IF Lands(a, v) THEN v ELSE 0, IF Lands(a, v) /\ a = Pot THEN v ELSE 0, {})
  <1>1. /\ Sound(ledger) /\ ledger \in Ledgers /\ Gap(ledger) \in Nat /\ Gap(ledger) >= 0
        /\ Supply(ledger) \in Nat /\ Pot \in Accounts /\ deposits \in [Accounts -> Nat]
        /\ ledger.account[Pot].free \in Nat
        /\ \A x \in Accounts : Spare(ledger, x) = deposits[x] /\ deposits[x] \in Nat
    BY LedgerFacts, ConstantTypes
  <1>2. CASE ~Lands(a, v)
    <2> DEFINE r == [ok |-> TRUE, s |-> ledger, dust |-> 0]
    <2>1. Ledger(r) /\ r.s = ledger
      BY <1>2 DEF Created
    <2>2. Neutral(ledger, r.s) /\ SideTablesKept(ledger, r.s)
      BY <1>1, NeutralStill DEF SideTablesKept
    <2> HIDE DEF r
    <2>3. LedgerInv' /\ ledger' = ledger
      BY <2>1, <2>2, NeutralLeft
    <2>4. Spares(ledger, ledger, {})
      BY <1>1, SparesSame
    <2> QED BY <1>1, <1>2, <2>3, <2>4 DEF Shifts
  <1>3. CASE Lands(a, v)
    <2> DEFINE old == ledger.account[a]
               m == Mutate(ledger, a, [old EXCEPT !.free = @ + v])
               n == m.s.issuance + v
               t == [m.s EXCEPT !.issuance = n]
               r == [m EXCEPT !.s.issuance = @ + v]
               d == Credited(ledger, a, v)
    <2>1. Call(r, credit, debt, deposits) /\ r.ok
      BY <1>3 DEF Created, Ledger, Call
    <2>2. IsResult(m)
      BY Results
    <2>3. d = [old EXCEPT !.free = @ + v]
      BY DEF Credited
    <2>4. /\ d \in Data /\ old \in Data /\ old.free \in Nat /\ d.free = old.free + v
          /\ d.reserved = old.reserved /\ d.frozen = old.frozen
          /\ Total(d) = Total(old) + v /\ Total(old) \in Nat
      BY <1>1, MovedParts, DataParts
    <2>5. d.free >= ED
      <3>1. old # NoAccount => old.free >= ED
        BY <1>1 DEF Sound
      <3> QED BY <1>3, <2>4, <3>1, ConstantTypes DEF Lands
    <2>6. d.free < ED => d.free <= ledger.issuance
      BY <2>4, <2>5, ConstantTypes
    <2>7. m = Mutate(ledger, a, d)
      BY <2>3
    <2> HIDE DEF m
    <2>8. r = [m EXCEPT !.s = t]
      BY <2>2 DEF IsResult
    <2>9. r.s = t /\ r.ok = m.ok
      BY <2>2, <2>8, ResultChange
    <2> HIDE DEF r, d, old
    <2>10. m.ok /\ Writes(ledger, m.s, a, d)
      BY <1>1, <2>1, <2>4, <2>6, <2>7, <2>9, MutateWrites
    <2>11. Sound(m.s) /\ m.s.issuance \in Nat /\ n \in Nat
      <3>1. Sound(m.s) /\ m.s \in Ledgers
        BY <2>10 DEF Writes, Sound
      <3> QED BY <3>1, LedgerParts
    <2> HIDE DEF n
    <2>12. /\ Keeps(m.s, t) /\ SparesKept(m.s, t) /\ SideTablesKept(m.s, t)
           /\ t.account = m.s.account /\ Gap(t) = Gap(m.s) + n - m.s.issuance
      BY <2>11, Issuing
    <2>13. /\ Keeps(ledger, m.s) /\ SparesKept(ledger, m.s)
           /\ Gap(m.s) = Gap(ledger) + old.free - d.free
      <3>1. d.frozen = ledger.account[a].frozen /\ d.reserved = ledger.account[a].reserved
        BY <2>4 DEF old
      <3> QED BY <1>1, <2>4, <2>10, <3>1, FreeWrite DEF old
    <2> HIDE DEF t
    <2>14. /\ Keeps(ledger, t) /\ SideTablesKept(ledger, t) /\ t \in Ledgers
           /\ \A x \in Accounts : Spare(t, x) = Spare(ledger, x)
      BY <2>10, <2>12, <2>13 DEF Keeps, SparesKept, SideTablesKept, Writes, Sound
    <2>15. Gap(t) = Gap(ledger)
      BY <1>1, <2>4, <2>11, <2>12, <2>13 DEF n
    <2>16. IInv' /\ ledger' = t
      <3>1. Keeps(ledger, r.s) /\ credit \in Nat /\ debt \in Nat
        BY <2>9, <2>14 DEF LedgerInv
      <3>2. Gap(r.s) = Gap(ledger) + (credit - credit) - (debt - debt)
        BY <1>1, <2>9, <2>15, <3>1
      <3>3. \A x \in Accounts : Spare(r.s, x) = Spare(ledger, x) + (deposits[x] - deposits[x])
        BY <1>1, <2>9, <2>14
      <3>4. IInv
        BY DEF LedgerInv
      <3>5. IInv' /\ ledger' = r.s
        BY <1>1, <2>1, <3>1, <3>2, <3>3, <3>4, SettledCall
      <3> QED BY <2>9, <3>5
    <2>17. LedgerInv'
      <3>1. credit' = 0 /\ debt' = 0 /\ deposits'[Pot] = 0
        BY <2>1 DEF Call, LedgerInv
      <3> QED BY <2>14, <2>16, <3>1, TablesLeft
    <2>18. t.account = [ledger.account EXCEPT ![a] = d]
      BY <2>5, <2>10, <2>12 DEF Writes, Written
    <2>19. Supply(t) = Supply(ledger) - Total(old) + Total(d)
      BY <1>1, <2>4, <2>14, <2>18, SupplyChange DEF old
    <2>20. t.account[Pot].free = ledger.account[Pot].free + IF a = Pot THEN v ELSE 0
      <3>1. CASE a = Pot
        <4>1. t.account[Pot] = d
          BY <1>1, <2>18, <3>1, LedgerParts
        <4> QED BY <2>4, <3>1, <4>1 DEF old
      <3>2. CASE a # Pot
        <4>1. t.account[Pot] = ledger.account[Pot]
          BY <1>1, <2>18, <3>2, PotApart
        <4> QED BY <1>1, <3>2, <4>1
      <3> QED BY <3>1, <3>2
    <2>21. Spares(ledger, t, {})
      <3>1. Total(d) >= Total(ledger.account[a])
        BY <2>4 DEF old
      <3> QED BY <1>1, <2>18, <3>1, SparesReceiver
    <2> QED BY <1>1, <1>3, <2>4, <2>16, <2>17, <2>19, <2>20, <2>21 DEF Shifts
  <1>4. QED
    BY <1>2, <1>3

(* What a transfer does to the pot. *)
PotGain(a, b, v) == (IF b = Pot THEN v ELSE 0) - (IF a = Pot THEN v ELSE 0)

\* A transfer that keeps the sender alive moves the amount and no more.
LEMMA MovedShift ==
  ASSUME LedgerInv, NEW a \in Accounts, NEW b \in Accounts, a # b, NEW v \in Nat,
         Ledger(Moved(ledger, a, b, v, "Preserve"))
  PROVE  Shifts(0, PotGain(a, b, v), {a})
  <1> DEFINE r == Moved(ledger, a, b, v, "Preserve")
             d == Written(Debited(ledger, a, v))
             e == Written(Credited(ledger, b, v))
  <1>1. /\ Sound(ledger) /\ ledger \in Ledgers /\ Gap(ledger) >= 0
        /\ Supply(ledger) \in Nat /\ Pot \in Accounts
        /\ ledger.account[Pot].free \in Nat
    BY LedgerFacts, ConstantTypes
  <1>2. r.ok /\ Ledger(r)
    BY DEF Ledger, Call
  <1>3. Transfers(ledger, r.s, a, b, v, "Preserve") /\ Neutral(ledger, r.s)
    BY <1>1, <1>2, Moving
  <1> HIDE DEF r
  <1>4. /\ SideTablesKept(ledger, r.s) /\ v <= ledger.account[a].free
        /\ r.s.account = [ledger.account EXCEPT ![a] = d, ![b] = e]
        /\ v > 0 => Debited(ledger, a, v).free >= ED
        /\ v > 0 => Credited(ledger, b, v).free >= ED
    BY <1>3 DEF Transfers
  <1>5. LedgerInv' /\ ledger' = r.s
    BY <1>2, <1>3, <1>4, NeutralLeft
  <1>6. /\ d \in Data /\ Total(d) = Total(ledger.account[a]) - v
        /\ d.free = ledger.account[a].free - v
    BY <1>1, <1>4, DebitWritten
  <1>7. /\ e \in Data /\ Total(e) = Total(ledger.account[b]) + v
        /\ e.free = ledger.account[b].free + v
    BY <1>1, <1>4, CreditWritten
  <1> HIDE DEF d, e
  <1>8. r.s \in Ledgers
    BY <1>3 DEF Neutral, Keeps, Sound
  <1>9. Supply(r.s) = Supply(ledger) - Total(ledger.account[a]) - Total(ledger.account[b])
                        + Total(d) + Total(e)
    <2>1. r.s.account = [ledger.account EXCEPT ![a] = d, ![b] = e]
      BY <1>4
    <2> QED BY <1>1, <1>6, <1>7, <1>8, <2>1, SupplyTwice
  <1>10. Total(ledger.account[a]) \in Nat /\ Total(ledger.account[b]) \in Nat
    BY <1>1, SupplyType
  <1>11. r.s.account[Pot].free = ledger.account[Pot].free + PotGain(a, b, v)
    <2>1. ledger.account \in [Accounts -> Data]
      BY <1>1, LedgerParts
    <2>2. CASE a = Pot
      <3>1. r.s.account[Pot] = d
        BY <1>1, <1>4, <2>1, <2>2
      <3> QED BY <1>1, <1>6, <2>2, <3>1 DEF PotGain
    <2>3. CASE b = Pot
      <3>1. r.s.account[Pot] = e
        BY <1>1, <1>4, <2>1, <2>3
      <3> QED BY <1>1, <1>7, <2>3, <3>1 DEF PotGain
    <2>4. CASE a # Pot /\ b # Pot
      <3>1. r.s.account[Pot] = ledger.account[Pot]
        BY <1>1, <1>4, <2>1, <2>4
      <3> QED BY <1>1, <2>4, <3>1 DEF PotGain
    <2> QED BY <2>2, <2>3, <2>4
  <1>12. Supply(r.s) = Supply(ledger) + 0
    BY <1>1, <1>6, <1>7, <1>9, <1>10
  <1>13. Spares(ledger, r.s, {a})
    <2>1. Total(e) >= Total(ledger.account[b])
      BY <1>7, <1>10
    <2>2. r.s.account = [ledger.account EXCEPT ![a] = d, ![b] = e]
      BY <1>4
    <2> QED BY <1>1, <2>1, <2>2, SparesTwice
  <1>14. QED
    BY <1>5, <1>11, <1>12, <1>13 DEF Shifts

\* A ledger that stays as it is.
LEMMA SameShift ==
  ASSUME LedgerInv, NEW r, Ledger(r), r.s = ledger, NEW P
  PROVE  Shifts(0, 0, P)
  <1>1. /\ Sound(ledger) /\ Supply(ledger) \in Nat /\ ledger.account[Pot].free \in Nat
        /\ ledger \in Ledgers
    BY LedgerFacts, ConstantTypes
  <1>2. Neutral(ledger, r.s) /\ SideTablesKept(ledger, r.s)
    BY <1>1, NeutralStill DEF SideTablesKept
  <1>3. LedgerInv' /\ ledger' = ledger
    BY <1>2, NeutralLeft
  <1>4. Spares(ledger, ledger, P)
    BY <1>1, SparesSame
  <1>5. QED
    BY <1>1, <1>3, <1>4 DEF Shifts

\* Currency::transfer between two accounts, nothing included.
LEMMA PaidShift ==
  ASSUME LedgerInv, NEW a \in Accounts, NEW b \in Accounts, a # b, NEW v \in Nat,
         Ledger(Paid(a, b, v, "Preserve"))
  PROVE  Shifts(0, PotGain(a, b, v), {a})
  <1>1. CASE v = 0
    <2> DEFINE r == [ok |-> TRUE, s |-> ledger, dust |-> 0]
    <2>1. Ledger(r) /\ r.s = ledger
      BY <1>1 DEF Paid
    <2> HIDE DEF r
    <2>2. Shifts(0, 0, {a})
      BY <2>1, SameShift
    <2>3. PotGain(a, b, v) = 0
      BY <1>1 DEF PotGain
    <2> QED BY <2>2, <2>3
  <1>2. CASE v # 0
    <2>1. Ledger(Moved(ledger, a, b, v, "Preserve"))
      BY <1>2 DEF Paid
    <2> QED BY <2>1, MovedShift
  <1>3. QED
    BY <1>1, <1>2

(* The effect of a new set of locks on a sound ledger. *)
LocksApart(s, t) ==
  /\ Supply(t) = Supply(s)
  /\ \A x \in Accounts : /\ t.account[x].free = s.account[x].free
                         /\ Total(t.account[x]) = Total(s.account[x])
  /\ t.holds = s.holds /\ t.reserves = s.reserves /\ t.freezes = s.freezes

\* New locks change no balance.
LEMMA LocksLeave ==
  ASSUME NEW s, Sound(s), NEW t, Sound(t), NEW a \in Accounts, NEW locks, Relocks(s, t, a, locks)
  PROVE  LocksApart(s, t)
  <1>1. s \in Ledgers /\ t \in Ledgers /\ s.account \in [Accounts -> Data]
    BY LedgerParts DEF Sound
  <1>2. PICK m \in Nat : t.account = [s.account EXCEPT ![a] = [s.account[a] EXCEPT !.frozen = m]]
    BY DEF Relocks
  <1> DEFINE d == [s.account[a] EXCEPT !.frozen = m]
  <1>3. /\ d \in Data /\ d.free = s.account[a].free /\ d.reserved = s.account[a].reserved
        /\ s.account[a] \in Data
    BY <1>1, DataOnce
  <1> HIDE DEF d
  <1>4. t.account = [s.account EXCEPT ![a] = d]
    BY <1>2 DEF d
  <1>5. Supply(t) = Supply(s) - Total(s.account[a]) + Total(d)
    BY <1>1, <1>3, <1>4, SupplyChange
  <1>6. Total(d) = Total(s.account[a]) /\ Total(d) \in Nat /\ Supply(s) \in Nat
    <2>1. Total(d) = Total(s.account[a])
      BY <1>3 DEF Total
    <2> QED BY <1>1, <1>3, <2>1, DataParts, SupplyType
  <1>7. \A x \in Accounts : /\ t.account[x].free = s.account[x].free
                            /\ Total(t.account[x]) = Total(s.account[x])
    BY <1>1, <1>3, <1>4, <1>6
  <1>8. Supply(t) = Supply(s)
    BY <1>5, <1>6
  <1>9. QED
    BY <1>7, <1>8 DEF LocksApart, Relocks

\* A call that ends with new locks of a user keeps the invariant.
LEMMA RelockedCall ==
  ASSUME LedgerInv, NEW s, Sound(s), NEW a \in Users, NEW locks, NEW r, Ledger(r),
         SparesKept(ledger, s), Gap(s) = Gap(ledger), SideTablesKept(ledger, s),
         Refrozen(s, r.s), Relocks(s, r.s, a, locks)
  PROVE  LedgerInv' /\ ledger' = r.s /\ LocksApart(s, r.s)
  <1>1. Sound(ledger) /\ a \in Accounts /\ a # Pot /\ Pot \in Accounts
    BY LedgerFacts, ConstantTypes
  <1>2. Refrozen(ledger, r.s)
    BY DEF Refrozen, SparesKept
  <1>3. IInv' /\ ledger' = r.s
    BY <1>2, RefrozenCall DEF LedgerInv, Ledger, Call
  <1>4. credit' = 0 /\ debt' = 0 /\ deposits'[Pot] = 0
    BY DEF LedgerInv, Ledger, Call
  <1>5. LocksApart(s, r.s)
    BY <1>1, LocksLeave DEF Refrozen
  <1>6. Unheld(r.s)
    BY <1>5 DEF LocksApart, LedgerInv, Unheld, SideTablesKept
  <1>7. PotUnlocked(r.s)
    <2>1. s.locks \in [Accounts -> [LockIds -> Nat]]
      BY LedgerParts DEF Sound
    <2>2. r.s.locks[Pot] = s.locks[Pot]
      BY <1>1, <2>1 DEF Relocks
    <2> QED BY <1>5, <2>2 DEF LocksApart, LedgerInv, PotUnlocked, SideTablesKept
  <1>8. QED
    BY <1>3, <1>4, <1>5, <1>6, <1>7 DEF LedgerInv

\* A schedule that has run out is unlocked, and no balance changes.
LEMMA VestShift ==
  ASSUME LedgerInv, NEW a \in Users, ledger.locks[a]["vesting"] # 0,
         Ledger(UpdateLocks(ledger, a, [ledger.locks[a] EXCEPT !["vesting"] = 0]))
  PROVE  Shifts(0, 0, {})
  <1> DEFINE old == ledger.locks[a]
             locks == [old EXCEPT !["vesting"] = 0]
             r == UpdateLocks(ledger, a, locks)
  <1>1. /\ Sound(ledger) /\ FrozenAgrees(ledger) /\ ledger \in Ledgers /\ a \in Accounts
        /\ Supply(ledger) \in Nat /\ ledger.account[Pot].free \in Nat /\ Pot \in Accounts
    BY LedgerFacts, ConstantTypes
  <1>2. /\ old \in [LockIds -> Nat] /\ ledger.freezes[a] \in [FreezeIds -> Nat]
        /\ ledger.account[a] \in Data
    BY <1>1, LedgerParts
  <1>3. locks \in [LockIds -> Nat]
    BY <1>2
  <1>4. ledger.account[a].free >= ED
    <2>1. Greatest(Highest(old), Highest(ledger.freezes[a])) # 0
      <3>1. ~(\A i \in LockIds : old[i] = 0)
        BY ConstantTypes
      <3> HIDE DEF old
      <3> QED BY <1>2, <3>1, FrozenOf
    <2>2. ledger.account[a].frozen # 0
      BY <1>1, <2>1 DEF FrozenAgrees
    <2>3. ledger.account[a] # NoAccount
      BY <2>2, DataParts
    <2> QED BY <1>1, <2>3 DEF Sound
  <1> HIDE DEF locks, old
  <1>5. Refrozen(ledger, r.s) /\ Relocks(ledger, r.s, a, locks)
    BY <1>1, <1>3, <1>4, LocksUpdated
  <1>6. Ledger(r)
    BY DEF old, locks
  <1> HIDE DEF r
  <1>7. SparesKept(ledger, ledger) /\ SideTablesKept(ledger, ledger)
    BY DEF SparesKept, SideTablesKept
  <1>8. LedgerInv' /\ ledger' = r.s /\ LocksApart(ledger, r.s)
    BY <1>1, <1>5, <1>6, <1>7, RelockedCall
  <1>9. Spares(ledger, r.s, {})
    BY <1>1, <1>8, SparesSame DEF LocksApart
  <1>10. QED
    BY <1>1, <1>8, <1>9 DEF Shifts, LocksApart

(* What a claim of v leaves in the pot below the deposit is gone. *)
PotDust(v) == IF Free(Pot) - v < ED THEN Free(Pot) - v ELSE 0

\* What the pot's entry is after a claim.
LEMMA PotPays ==
  ASSUME LedgerInv, NEW v \in Nat, v <= Free(Pot)
  PROVE  LET d == Written(Debited(ledger, Pot, v))
         IN  /\ d \in Data /\ PotDust(v) \in Nat
             /\ d.free = Free(Pot) - v - PotDust(v)
             /\ Total(d) = Total(ledger.account[Pot]) - v - PotDust(v)
             /\ Total(ledger.account[Pot]) = Free(Pot) /\ Free(Pot) \in Nat
  <1> DEFINE e == Debited(ledger, Pot, v)
             old == ledger.account[Pot]
  <1>1. /\ ledger \in Ledgers /\ Pot \in Accounts /\ old.free \in Nat
        /\ ED \in Nat /\ Free(Pot) = old.free
    BY LedgerFacts, ConstantTypes DEF Free
  <1>2. Total(old) = old.free
    BY PotFacts
  <1>3. e \in Data /\ e.free = old.free - v /\ Total(e) = Total(old) - v
    <2>1. v <= ledger.account[Pot].free
      BY DEF Free
    <2> QED BY <1>1, <2>1, MovedParts
  <1> HIDE DEF e, old
  <1>4. CASE e.free >= ED
    <2>1. Written(e) = e /\ PotDust(v) = 0
      BY <1>1, <1>3, <1>4 DEF Written, PotDust
    <2> QED BY <1>1, <1>2, <1>3, <2>1 DEF e, old
  <1>5. CASE ~(e.free >= ED)
    <2>1. Written(e) = NoAccount /\ PotDust(v) = old.free - v
      BY <1>1, <1>3, <1>5 DEF Written, PotDust
    <2>2. old.free - v \in Nat
      BY <1>1
    <2> QED BY <1>1, <1>2, <1>3, <2>1, <2>2, DataParts DEF e, old
  <1>6. QED
    BY <1>4, <1>5

\* A vested transfer out of the pot, which may end it.
LEMMA ClaimShift ==
  ASSUME LedgerInv, NEW a \in Users, NEW v \in Nat, NEW perBlock,
         Ledger(VestedTransfer(a, v, perBlock))
  PROVE  /\ v <= Free(Pot) /\ PotDust(v) \in Nat /\ Free(Pot) \in Nat
         /\ Shifts(- PotDust(v), - (v + PotDust(v)), {Pot})
  <1> DEFINE m == Moved(ledger, Pot, a, v, "Expendable")
             d == Written(Debited(ledger, Pot, v))
             e == Written(Credited(ledger, a, v))
  <1>1. /\ Sound(ledger) /\ FrozenAgrees(ledger) /\ ledger \in Ledgers /\ Gap(ledger) >= 0
        /\ Supply(ledger) \in Nat /\ Pot \in Accounts /\ a \in Accounts /\ a # Pot
        /\ ledger.account[Pot].free \in Nat
    BY LedgerFacts, ConstantTypes
  <1>2. v > 0 /\ m.ok
    <2>1. VestedTransfer(a, v, perBlock).ok
      BY DEF Ledger, Call
    <2>2. ~(v < MinVestedTransfer) /\ Paid(Pot, a, v, "Expendable").ok
      BY <2>1 DEF VestedTransfer, Refused
    <2>3. v > 0
      BY <2>2, ConstantTypes
    <2> QED BY <1>1, <2>2, <2>3 DEF Paid
  <1> DEFINE locks == [m.s.locks[a] EXCEPT !["vesting"] = @ + v]
             r == UpdateLocks(m.s, a, locks)
  <1>3. Ledger(r)
    <2>1. VestedTransfer(a, v, perBlock).ok
      BY DEF Ledger, Call
    <2>2. Paid(Pot, a, v, "Expendable") = m
      BY <1>1, <1>2 DEF Paid
    <2> HIDE DEF m
    <2>3. VestedTransfer(a, v, perBlock) = r
      BY <2>1, <2>2 DEF VestedTransfer, Refused
    <2> HIDE DEF r
    <2> QED BY <2>3
  <1>4. Transfers(ledger, m.s, Pot, a, v, "Expendable") /\ Neutral(ledger, m.s)
    BY <1>1, <1>2, Moving
  <1> HIDE DEF m
  <1>5. /\ SideTablesKept(ledger, m.s) /\ v <= ledger.account[Pot].free
        /\ m.s.account = [ledger.account EXCEPT ![Pot] = d, ![a] = e]
        /\ Credited(ledger, a, v).free >= ED
    BY <1>2, <1>4 DEF Transfers
  <1>6. /\ d \in Data /\ PotDust(v) \in Nat
        /\ d.free = Free(Pot) - v - PotDust(v)
        /\ Total(d) = Total(ledger.account[Pot]) - v - PotDust(v)
        /\ Total(ledger.account[Pot]) = Free(Pot) /\ Free(Pot) \in Nat /\ v <= Free(Pot)
    <2>1. v <= Free(Pot)
      BY <1>5 DEF Free
    <2> QED BY <2>1, PotPays
  <1>7. /\ e \in Data /\ Total(e) = Total(ledger.account[a]) + v
        /\ e.free = ledger.account[a].free + v
    BY <1>1, <1>5, CreditWritten
  <1>8. e.free >= ED
    BY <1>5 DEF Written
  <1> HIDE DEF d, e
  <1>9. /\ Sound(m.s) /\ m.s \in Ledgers /\ FrozenAgrees(m.s)
        /\ SparesKept(ledger, m.s) /\ Gap(m.s) = Gap(ledger)
    <2>1. Sound(m.s) /\ Keeps(ledger, m.s) /\ SparesKept(ledger, m.s) /\ Gap(m.s) = Gap(ledger)
      BY <1>4 DEF Neutral, Keeps
    <2> QED BY <1>1, <2>1, KeepsFrozen DEF Sound
  <1>10. /\ ledger.account \in [Accounts -> Data]
         /\ m.s.account[a] = e /\ m.s.account[Pot] = d
    BY <1>1, <1>5, LedgerParts
  <1>11. Supply(m.s) = Supply(ledger) - PotDust(v)
    <2>1. m.s.account = [ledger.account EXCEPT ![Pot] = d, ![a] = e]
      BY <1>5
    <2>2. Supply(m.s) = Supply(ledger) - Total(ledger.account[Pot]) - Total(ledger.account[a])
                          + Total(d) + Total(e)
      BY <1>1, <1>6, <1>7, <1>9, <2>1, SupplyTwice
    <2>3. Total(ledger.account[a]) \in Nat
      BY <1>1, SupplyType
    <2> QED BY <1>1, <1>6, <1>7, <2>2, <2>3
  <1>12. locks \in [LockIds -> Nat]
    <2>1. m.s.locks[a] \in [LockIds -> Nat]
      BY <1>1, <1>9, LedgerParts
    <2> QED BY <2>1, ConstantTypes
  <1> HIDE DEF locks
  <1>13. Refrozen(m.s, r.s) /\ Relocks(m.s, r.s, a, locks)
    <2>1. m.s.account[a].free >= ED
      BY <1>8, <1>10
    <2> QED BY <1>1, <1>9, <1>12, <2>1, LocksUpdated
  <1> HIDE DEF r
  <1>14. LedgerInv' /\ ledger' = r.s /\ LocksApart(m.s, r.s)
    BY <1>3, <1>5, <1>9, <1>13, RelockedCall
  <1>15. /\ Supply(ledger') = Supply(ledger) + (- PotDust(v))
         /\ ledger'.account[Pot].free = ledger.account[Pot].free + (- (v + PotDust(v)))
    <2>1. Supply(ledger') = Supply(m.s) /\ ledger'.account[Pot].free = d.free
      BY <1>1, <1>10, <1>14 DEF LocksApart
    <2>2. Free(Pot) = ledger.account[Pot].free
      BY DEF Free
    <2> QED BY <1>1, <1>6, <1>11, <2>1, <2>2
  <1>16. Spares(ledger, ledger', {Pot})
    <2>1. Total(e) >= Total(ledger.account[a])
      <3>1. Total(ledger.account[a]) \in Nat
        BY <1>1, SupplyType
      <3> QED BY <1>7, <3>1
    <2>2. m.s.account = [ledger.account EXCEPT ![Pot] = d, ![a] = e]
      BY <1>5
    <2>3. Spares(ledger, m.s, {Pot})
      BY <1>1, <2>1, <2>2, SparesTwice
    <2>4. \A x \in Users : Total(r.s.account[x]) = Total(m.s.account[x])
      BY <1>14, ConstantTypes DEF LocksApart
    <2> QED BY <1>14, <2>3, <2>4 DEF Spares
  <1>17. QED
    BY <1>6, <1>14, <1>15, <1>16 DEF Shifts

(* What reserving and unreserving do: they shift between the two balances.     *)
Aside(s, t, a, n) ==
  /\ Keeps(s, t) /\ SideTablesKept(s, t) /\ SpareGrows(s, t, a, n)
  /\ Gap(t) = Gap(s) /\ Supply(t) = Supply(s)
  /\ \A x \in Accounts \ {a} : t.account[x] = s.account[x]
  /\ \A x \in Accounts : Total(t.account[x]) = Total(s.account[x])

\* An account written with the same total.
LEMMA TotalWritten ==
  ASSUME NEW s, Sound(s), NEW t, Sound(t), NEW a \in Accounts, NEW d \in Data,
         t.account = [s.account EXCEPT ![a] = Written(d)],
         Total(d) = Total(s.account[a]), d.free >= ED \/ Total(d) = 0
  PROVE  /\ Supply(t) = Supply(s)
         /\ \A x \in Accounts \ {a} : t.account[x] = s.account[x]
         /\ \A x \in Accounts : Total(t.account[x]) = Total(s.account[x])
  <1> DEFINE w == Written(d)
  <1>1. s \in Ledgers /\ t \in Ledgers /\ s.account \in [Accounts -> Data]
    BY LedgerParts DEF Sound
  <1>2. w \in Data /\ Total(w) = Total(s.account[a]) /\ Total(w) \in Nat
    BY DataParts DEF Written
  <1> HIDE DEF w
  <1>3. t.account = [s.account EXCEPT ![a] = w]
    BY DEF w
  <1>4. Supply(t) = Supply(s) - Total(s.account[a]) + Total(w)
    BY <1>1, <1>2, <1>3, SupplyChange
  <1>5. Supply(s) \in Nat
    BY <1>1, SupplyType
  <1>6. /\ \A x \in Accounts \ {a} : t.account[x] = s.account[x]
        /\ \A x \in Accounts : Total(t.account[x]) = Total(s.account[x])
    BY <1>1, <1>2, <1>3
  <1>7. QED
    BY <1>2, <1>4, <1>5, <1>6

\* reserve, which never leaves the account below the deposit.
LEMMA ReservedAside ==
  ASSUME NEW s, Sound(s), Gap(s) >= 0, NEW a \in Accounts, NEW v \in Nat, Reserved(s, a, v).ok
  PROVE  Aside(s, Reserved(s, a, v).s, a, v)
  <1> DEFINE t == Reserved(s, a, v).s
             d == SetAside(s, a, v)
             old == s.account[a]
  <1>1. /\ Keeps(s, t) /\ SideTablesKept(s, t) /\ v <= old.free
        /\ t.account = [s.account EXCEPT ![a] = Written(d)]
        /\ d.free >= ED \/ ~Held(d)
        /\ SpareGrows(s, t, a, v) /\ Gap(t) = Gap(s)
    BY Reserving
  <1>2. /\ old \in Data /\ old.free \in Nat /\ old.reserved \in Nat /\ ED \in Nat
        /\ old.free < ED => old = NoAccount
        /\ NoAccount.free = 0 /\ NoAccount.reserved = 0
    BY SoundAt, DataParts, ConstantTypes
  <1>3. d \in Data /\ d.free = old.free - v /\ d.reserved = old.reserved + v
    BY <1>1, <1>2, DataAside DEF SetAside
  <1> HIDE DEF d, old, t
  <1>4. Total(d) = Total(old) /\ (d.free >= ED \/ Total(d) = 0)
    <2>1. Total(d) = Total(old)
      BY <1>2, <1>3 DEF Total
    <2>2. CASE ~(d.free >= ED)
      <3>1. d.reserved = 0
        BY <1>1, <2>2 DEF Held
      <3>2. v = 0 /\ old.reserved = 0
        BY <1>2, <1>3, <3>1
      <3>3. old = NoAccount
        BY <1>2, <1>3, <2>2, <3>2
      <3> QED BY <1>2, <2>1, <3>3, DataParts
    <2> QED BY <2>1, <2>2
  <1>5. Sound(t)
    BY <1>1 DEF Keeps
  <1>6. /\ Supply(t) = Supply(s)
        /\ \A x \in Accounts \ {a} : t.account[x] = s.account[x]
        /\ \A x \in Accounts : Total(t.account[x]) = Total(s.account[x])
    <2>1. Total(d) = Total(s.account[a])
      BY <1>4 DEF old
    <2> QED BY <1>1, <1>3, <1>4, <1>5, <2>1, TotalWritten
  <1>7. QED
    BY <1>1, <1>6 DEF Aside, t

\* unreserve of what is reserved.
LEMMA UnreservedAside ==
  ASSUME NEW s, Sound(s), Gap(s) >= 0, NEW a \in Accounts, NEW v \in Nat,
         v = s.account[a].reserved
  PROVE  Unreserved(s, a, v).ok /\ Aside(s, Unreserved(s, a, v).s, a, - v)
  <1> DEFINE t == Unreserved(s, a, v).s
             n == Least(s.account[a].reserved, v)
             d == GivenBack(s, a, n)
             old == s.account[a]
  <1>1. /\ Unreserved(s, a, v).ok
        /\ Keeps(s, t) /\ SideTablesKept(s, t) /\ n \in Nat /\ n <= old.reserved
        /\ t.account = [s.account EXCEPT ![a] = Written(d)]
        /\ SpareGrows(s, t, a, - n) /\ Gap(t) = Gap(s)
    <2>1. Sound(s) /\ Gap(s) >= 0 /\ a \in Accounts /\ v \in Nat
      OBVIOUS
    <2>2. /\ n \in Nat /\ n <= s.account[a].reserved
          /\ GivesBack(s, Unreserved(s, a, v), a, n) /\ Unreserves(s, t, a, n)
      BY ONLY <2>1, Unreserving
    <2> QED BY <2>2 DEF GivesBack, Unreserves
  <1>2. /\ old \in Data /\ old.free \in Nat /\ old.reserved \in Nat /\ ED \in Nat
        /\ old.free < ED => old = NoAccount
        /\ Total(NoAccount) = 0
    BY SoundAt, DataParts, ConstantTypes
  <1>3. d \in Data /\ d.free = old.free + n /\ d.reserved = old.reserved - n
    BY <1>1, <1>2, DataBack DEF GivenBack
  <1>4. n = v
    BY <1>2 DEF Least
  <1> HIDE DEF d, old, t, n
  <1>5. Total(d) = Total(old) /\ (d.free >= ED \/ Total(d) = 0)
    <2>1. Total(d) = Total(old)
      BY <1>1, <1>2, <1>3 DEF Total
    <2>2. CASE ~(d.free >= ED)
      <3>1. old = NoAccount
        BY <1>1, <1>2, <1>3, <2>2
      <3> QED BY <1>2, <2>1, <3>1
    <2> QED BY <2>1, <2>2
  <1>6. Sound(t)
    BY <1>1 DEF Keeps
  <1>7. /\ Supply(t) = Supply(s)
        /\ \A x \in Accounts \ {a} : t.account[x] = s.account[x]
        /\ \A x \in Accounts : Total(t.account[x]) = Total(s.account[x])
    <2>1. Total(d) = Total(s.account[a])
      BY <1>5 DEF old
    <2> QED BY <1>1, <1>3, <1>5, <1>6, <2>1, TotalWritten
  <1>8. QED
    BY <1>1, <1>4, <1>7 DEF Aside, t

\* One after the other.
LEMMA AsideTwice ==
  ASSUME NEW s, Sound(s), NEW t, NEW u, NEW a \in Accounts, NEW n \in Int, NEW m \in Int,
         Aside(s, t, a, n), Aside(t, u, a, m)
  PROVE  Aside(s, u, a, n + m)
  <1>1. Keeps(s, u) /\ SideTablesKept(s, u)
    BY DEF Aside, Keeps, SideTablesKept
  <1>2. ASSUME NEW x \in Accounts
        PROVE  Spare(u, x) = Spare(s, x) + IF x = a THEN n + m ELSE 0
    <2>1. Spare(s, x) \in Int
      BY SpareType DEF Sound
    <2>2. Spare(t, x) = Spare(s, x) + IF x = a THEN n ELSE 0
      BY DEF Aside, SpareGrows
    <2>3. Spare(u, x) = Spare(t, x) + IF x = a THEN m ELSE 0
      BY DEF Aside, SpareGrows
    <2> QED BY <2>1, <2>2, <2>3
  <1>3. QED
    BY <1>1, <1>2 DEF Aside, SpareGrows

\* A call that shifts the deposit of a user.
LEMMA AsideShift ==
  ASSUME LedgerInv, NEW a \in Users, NEW n \in Int, NEW v \in Nat, v = deposits[a] + n,
         NEW r, Call(r, credit, debt, [deposits EXCEPT ![a] = v]), Aside(ledger, r.s, a, n)
  PROVE  Shifts(0, 0, {})
  <1> DEFINE own == [deposits EXCEPT ![a] = v]
  <1>1. /\ Gap(ledger) \in Nat /\ deposits \in [Accounts -> Nat]
        /\ Supply(ledger) \in Nat /\ ledger.account[Pot].free \in Nat
        /\ Pot \in Accounts /\ a \in Accounts /\ a # Pot /\ ledger \in Ledgers
        /\ credit \in Nat /\ debt \in Nat /\ IInv
        /\ \A x \in Accounts : Spare(ledger, x) = deposits[x] /\ deposits[x] \in Nat
    BY LedgerFacts, ConstantTypes DEF LedgerInv
  <1>2. own \in [Accounts -> Nat] /\ own[Pot] = deposits[Pot] /\ own[a] = v
        /\ \A x \in Accounts \ {a} : own[x] = deposits[x]
    BY <1>1
  <1>3. Call(r, credit, debt, own)
    OBVIOUS
  <1> HIDE DEF own
  <1>4. Keeps(ledger, r.s)
    BY DEF Aside
  <1>5. Gap(r.s) = Gap(ledger) + (credit - credit) - (debt - debt)
    BY <1>1 DEF Aside
  <1>6. ASSUME NEW x \in Accounts
        PROVE  Spare(r.s, x) = Spare(ledger, x) + (own[x] - deposits[x])
    <2>1. Spare(r.s, x) = Spare(ledger, x) + IF x = a THEN n ELSE 0
      BY DEF Aside, SpareGrows
    <2> QED BY <1>1, <1>2, <2>1
  <1>7. IInv' /\ ledger' = r.s
    BY <1>1, <1>2, <1>3, <1>4, <1>5, <1>6, SettledCall
  <1>8. credit' = 0 /\ debt' = 0 /\ deposits'[Pot] = 0
    BY <1>2, <1>3 DEF Call, LedgerInv
  <1>9. LedgerInv'
    BY <1>7, <1>8, TablesLeft DEF Aside
  <1>10. Spares(ledger, r.s, {})
    BY <1>1, SparesSame DEF Aside
  <1>11. QED
    BY <1>1, <1>7, <1>9, <1>10 DEF Shifts, Aside

-----------------------------------------------------------------------------
(* The pallets' own books. *)

Airdrop == [root : Roots, creator : Users, balance : Nat, period : Periods]

(* Airdrops have distinct, finitely many identifiers below the next one.       *)
AirdropsOK ==
  /\ nextAirdrop \in Nat
  /\ IsFiniteSet(DOMAIN airdrops)
  /\ airdrops \in [DOMAIN airdrops -> Airdrop]
  /\ \A id \in DOMAIN airdrops : id \in Nat /\ id < nextAirdrop

(* What all airdrops together promise. *)
BalanceOf(f) == [id \in DOMAIN f |-> f[id].balance]
Promised(f) == Sum(BalanceOf(f))

Publics == {FromFields(fields) : fields \in PublicInputs}

Exits(P) == Sum([p \in P |-> p.exit_amount])

(* Every nullifier is that of one proof, which paid its exit or was too small. *)
Spent(ns, e) ==
  \E used \in SUBSET Publics :
     /\ IsFiniteSet(used)
     /\ \A p, q \in used : p.nullifier = q.nullifier => p = q
     /\ {p.nullifier : p \in used} = ns
     /\ \E paid \in SUBSET used :
           /\ e = Exits(paid)
           /\ \A p \in used \ paid : p.exit_amount < ED

HistoryOK == fees \in Nat /\ minted \in Nat /\ exited \in Nat /\ lost \in Nat

SupplyAccounted ==
  Supply(ledger) + fees + lost = Cardinality(Founders) * Endowed + minted + exited

(* The inductive invariant. *)
DistributionInv ==
  /\ LedgerInv
  /\ AirdropsOK /\ PotCovers
  /\ HistoryOK /\ SupplyAccounted
  /\ Spent(nullifiers, exited)

\* Airdrops have numbers as balances, and a sum.
LEMMA BalancesType ==
  ASSUME NEW f, f \in [DOMAIN f -> Airdrop], IsFiniteSet(DOMAIN f)
  PROVE  /\ BalanceOf(f) \in [DOMAIN f -> Nat] /\ Promised(f) \in Nat
         /\ \A id \in DOMAIN f : f[id].balance \in Nat /\ f[id].balance <= Promised(f)
  <1>1. \A id \in DOMAIN f : f[id] \in Airdrop
    OBVIOUS
  <1>2. BalanceOf(f) \in [DOMAIN f -> Nat] /\ \A id \in DOMAIN f : BalanceOf(f)[id] = f[id].balance
    BY <1>1 DEF BalanceOf, Airdrop
  <1> DEFINE g == BalanceOf(f)
             S == DOMAIN f
  <1>3. g \in [S -> Nat] /\ IsFiniteSet(S)
    BY <1>2
  <1> HIDE DEF g, S
  <1>4. Sum(g) \in Nat /\ \A id \in S : g[id] <= Sum(g)
    BY <1>3, SumType, SumCovers
  <1>5. QED
    BY <1>1, <1>2, <1>4 DEF g, S, Promised, Airdrop

\* A new airdrop promises nothing.
LEMMA PromisedNew ==
  ASSUME NEW f, f \in [DOMAIN f -> Airdrop], IsFiniteSet(DOMAIN f), NEW id, id \notin DOMAIN f,
         NEW d \in Airdrop, d.balance = 0
  PROVE  /\ DOMAIN With(f, id, d) = DOMAIN f \cup {id}
         /\ With(f, id, d) \in [DOMAIN f \cup {id} -> Airdrop]
         /\ IsFiniteSet(DOMAIN f \cup {id})
         /\ Promised(With(f, id, d)) = Promised(f)
  <1> DEFINE g == With(f, id, d)
             S == DOMAIN f \cup {id}
  <1>1. DOMAIN g = S /\ g \in [S -> Airdrop] /\ \A i \in S : g[i] = IF i = id THEN d ELSE f[i]
    BY DEF With
  <1>2. IsFiniteSet(S)
    BY FS_AddElement
  <1> HIDE DEF g
  <1>3. BalanceOf(g) \in [S -> Nat] /\ BalanceOf(g)[id] = 0
    <2>1. BalanceOf(g) \in [DOMAIN g -> Nat]
      BY <1>1, <1>2, BalancesType
    <2>2. BalanceOf(g)[id] = g[id].balance
      BY <1>1 DEF BalanceOf
    <2> QED BY <1>1, <2>1, <2>2
  <1>4. [j \in S \ {id} |-> BalanceOf(g)[j]] = BalanceOf(f)
    <2>1. S \ {id} = DOMAIN f
      OBVIOUS
    <2>2. \A j \in DOMAIN f : BalanceOf(g)[j] = f[j].balance
      BY <1>1 DEF BalanceOf
    <2> QED BY <2>1, <2>2 DEF BalanceOf
  <1>5. Promised(g) = Promised(f)
    <2> DEFINE h == BalanceOf(g)
    <2>1. h \in [S -> Nat] /\ h[id] = 0 /\ id \in S
      BY <1>3
    <2> HIDE DEF h, S
    <2>2. Sum(h) = Sum([j \in S \ {id} |-> h[j]]) + h[id]
      BY <1>2, <2>1, SumSplit
    <2>3. [j \in S \ {id} |-> h[j]] = BalanceOf(f)
      BY <1>4 DEF h
    <2>4. Sum(BalanceOf(f)) \in Nat
      BY BalancesType DEF Promised
    <2> QED BY <2>1, <2>2, <2>3, <2>4 DEF Promised, h
  <1>6. QED
    BY <1>1, <1>2, <1>5 DEF g

\* An airdrop with another balance.
LEMMA PromisedChange ==
  ASSUME NEW f, f \in [DOMAIN f -> Airdrop], IsFiniteSet(DOMAIN f), NEW id \in DOMAIN f,
         NEW n \in Nat
  PROVE  LET g == [f EXCEPT ![id].balance = n]
         IN  /\ DOMAIN g = DOMAIN f /\ g \in [DOMAIN f -> Airdrop]
             /\ Promised(g) = Promised(f) - f[id].balance + n
  <1> DEFINE g == [f EXCEPT ![id].balance = n]
             S == DOMAIN f
  <1>1. f[id] \in Airdrop /\ [f[id] EXCEPT !.balance = n] \in Airdrop
        /\ [f[id] EXCEPT !.balance = n].balance = n
    BY DEF Airdrop
  <1>2. /\ DOMAIN g = S /\ g \in [S -> Airdrop]
        /\ g[id] = [f[id] EXCEPT !.balance = n] /\ \A j \in S \ {id} : g[j] = f[j]
    BY <1>1
  <1> HIDE DEF g
  <1>3. BalanceOf(g) \in [S -> Nat] /\ BalanceOf(f) \in [S -> Nat]
    <2>1. BalanceOf(g) \in [DOMAIN g -> Nat]
      BY <1>2, BalancesType
    <2> QED BY <1>2, <2>1, BalancesType
  <1>4. /\ BalanceOf(g)[id] = n /\ BalanceOf(f)[id] = f[id].balance
        /\ \A j \in S \ {id} : BalanceOf(g)[j] = BalanceOf(f)[j]
    BY <1>1, <1>2 DEF BalanceOf
  <1>5. Promised(g) = Promised(f) - f[id].balance + n
    <2> DEFINE h == BalanceOf(g)
               k == BalanceOf(f)
    <2>1. /\ h \in [S -> Nat] /\ k \in [S -> Nat] /\ id \in S /\ IsFiniteSet(S)
          /\ \A j \in S \ {id} : h[j] = k[j]
      BY <1>3, <1>4
    <2> HIDE DEF h, k, S
    <2>2. Sum(h) = Sum(k) - k[id] + h[id]
      BY <2>1, SumChange
    <2> QED BY <1>4, <2>2 DEF Promised, h, k
  <1>6. QED
    BY <1>2, <1>5 DEF g

\* An airdrop less.
LEMMA PromisedWithout ==
  ASSUME NEW f, f \in [DOMAIN f -> Airdrop], IsFiniteSet(DOMAIN f), NEW id \in DOMAIN f
  PROVE  /\ DOMAIN Without(f, id) = DOMAIN f \ {id}
         /\ Without(f, id) \in [DOMAIN f \ {id} -> Airdrop]
         /\ IsFiniteSet(DOMAIN f \ {id})
         /\ Promised(Without(f, id)) = Promised(f) - f[id].balance
  <1> DEFINE g == Without(f, id)
             S == DOMAIN f
  <1>1. DOMAIN g = S \ {id} /\ g \in [S \ {id} -> Airdrop] /\ \A j \in S \ {id} : g[j] = f[j]
    BY DEF Without
  <1>2. IsFiniteSet(S \ {id})
    BY FS_RemoveElement
  <1> HIDE DEF g
  <1>3. [j \in S \ {id} |-> BalanceOf(f)[j]] = BalanceOf(g) /\ BalanceOf(f)[id] = f[id].balance
    BY <1>1 DEF BalanceOf
  <1>4. BalanceOf(f) \in [S -> Nat] /\ Promised(g) \in Nat
    <2>1. Promised(g) \in Nat
      BY <1>1, <1>2, BalancesType
    <2> QED BY <2>1, BalancesType
  <1>5. Promised(g) = Promised(f) - f[id].balance
    <2> DEFINE k == BalanceOf(f)
    <2>1. k \in [S -> Nat] /\ id \in S /\ IsFiniteSet(S)
      BY <1>4
    <2> HIDE DEF k, S
    <2>2. Sum(k) = Sum([j \in S \ {id} |-> k[j]]) + k[id]
      BY <2>1, SumSplit
    <2>3. k[id] \in Nat
      BY <2>1
    <2> QED BY <1>3, <1>4, <2>2, <2>3 DEF Promised, k
  <1>6. QED
    BY <1>1, <1>2, <1>5 DEF g

\* Public inputs name an existing account and an amount.
LEMMA PublicTypes ==
  /\ \A p \in Publics : p.exit_amount \in Nat
  /\ \A fields \in PublicInputs :
        FromFields(fields) \in Publics /\ AccountOf[FromFields(fields).exit_account] \in Accounts
  <1>1. ASSUME NEW fields \in PublicInputs
        PROVE  /\ FromFields(fields).exit_amount \in Nat
               /\ AccountOf[FromFields(fields).exit_account] \in Accounts
    <2>1. /\ FromFields(fields).exit_amount = fields[13]
          /\ FromFields(fields).exit_account = SubSeq(fields, 9, 12)
      BY DEF FromFields
    <2>2. fields[13] \in Nat /\ AccountOf[SubSeq(fields, 9, 12)] \in Accounts
      BY DistributionAssumption
    <2> QED BY <2>1, <2>2
  <1>2. QED
    BY <1>1 DEF Publics

\* An exit more.
LEMMA ExitsMore ==
  ASSUME NEW P \in SUBSET Publics, IsFiniteSet(P), NEW p \in Publics, p \notin P
  PROVE  Exits(P \cup {p}) = Exits(P) + p.exit_amount
  <1> DEFINE S == P \cup {p}
             f == [q \in S |-> q.exit_amount]
  <1>1. IsFiniteSet(S) /\ f \in [S -> Nat] /\ p \in S /\ f[p] = p.exit_amount
    BY PublicTypes, FS_AddElement
  <1>2. [q \in S \ {p} |-> f[q]] = [q \in P |-> q.exit_amount]
    <2>1. S \ {p} = P
      OBVIOUS
    <2> QED BY <2>1
  <1>3. Sum(f) = Exits(S)
    BY DEF Exits
  <1> HIDE DEF f, S
  <1>4. Sum(f) = Sum([q \in S \ {p} |-> f[q]]) + f[p]
    BY <1>1, SumSplit
  <1>5. QED
    BY <1>1, <1>2, <1>3, <1>4 DEF Exits, S

\* A nullifier is spent for the first time, with its exit or without.
LEMMA SpentOnce ==
  ASSUME NEW ns, NEW e, e \in Nat, Spent(ns, e), NEW p \in Publics, p.nullifier \notin ns,
         NEW lands \in BOOLEAN, lands \/ p.exit_amount < ED
  PROVE  Spent(ns \cup {p.nullifier}, e + IF lands THEN p.exit_amount ELSE 0)
  <1>1. PICK used \in SUBSET Publics :
           /\ IsFiniteSet(used)
           /\ \A q, r \in used : q.nullifier = r.nullifier => q = r
           /\ {q.nullifier : q \in used} = ns
           /\ \E paid \in SUBSET used :
                 /\ e = Exits(paid)
                 /\ \A q \in used \ paid : q.exit_amount < ED
    BY DEF Spent
  <1>2. PICK paid \in SUBSET used :
           e = Exits(paid) /\ \A q \in used \ paid : q.exit_amount < ED
    BY <1>1
  <1> DEFINE more == used \cup {p}
             pays == IF lands THEN paid \cup {p} ELSE paid
             sum  == e + IF lands THEN p.exit_amount ELSE 0
  <1>3. p \notin used
    BY <1>1
  <1>4. more \in SUBSET Publics /\ IsFiniteSet(more)
    BY <1>1, FS_AddElement
  <1>5. \A q, r \in more : q.nullifier = r.nullifier => q = r
    BY <1>1
  <1>6. {q.nullifier : q \in more} = ns \cup {p.nullifier}
    BY <1>1
  <1>7. pays \in SUBSET more /\ \A q \in more \ pays : q.exit_amount < ED
    BY <1>2
  <1>8. sum = Exits(pays)
    <2>1. CASE lands
      <3>1. IsFiniteSet(paid) /\ paid \in SUBSET Publics /\ p \notin paid
        BY <1>1, <1>3, FS_Subset
      <3>2. Exits(paid \cup {p}) = Exits(paid) + p.exit_amount
        BY <3>1, ExitsMore
      <3> QED BY <1>2, <2>1, <3>2
    <2>2. CASE ~lands
      BY <1>2, <2>2
    <2> QED BY <2>1, <2>2
  <1> HIDE DEF more, pays, sum
  <1>9. Spent(ns \cup {p.nullifier}, sum)
    <2>1. \E P \in SUBSET more : sum = Exits(P) /\ \A q \in more \ P : q.exit_amount < ED
      BY <1>7, <1>8
    <2> QED BY <1>4, <1>5, <1>6, <2>1 DEF Spent
  <1>10. QED
    BY <1>9 DEF sum

-----------------------------------------------------------------------------
(* The steps. *)

(* The change of the books that a change of the ledger asks for.               *)
Matched(total, pot) ==
  /\ total + (fees' - fees) + (lost' - lost) = (minted' - minted) + (exited' - exited)
  /\ Promised(airdrops') <= Promised(airdrops) + pot + (lost' - lost)

(* Only the payers pay, and nothing in the pot that is not promised does.      *)
Fair(payers) == Spares(ledger, ledger', payers) /\ Surplus' >= Surplus

\* A step keeps the invariant, and is fair, if the changes of the ledger are
\* those of the books.
LEMMA Accounting ==
  ASSUME DistributionInv, NEW total \in Int, NEW pot \in Int, NEW P, Shifts(total, pot, P),
         HistoryOK', AirdropsOK', Spent(nullifiers', exited'),
         Matched(total, pot)
  PROVE  DistributionInv' /\ Fair(P)
  <1>1. /\ LedgerInv' /\ Supply(ledger') = Supply(ledger) + total
        /\ ledger'.account[Pot].free = ledger.account[Pot].free + pot
        /\ Spares(ledger, ledger', P)
    BY DEF Shifts
  <1>2. /\ Supply(ledger) \in Nat /\ ledger.account[Pot].free \in Nat
        /\ Promised(airdrops) \in Nat /\ Promised(airdrops') \in Nat
    <2>1. Promised(airdrops) \in Nat
      BY BalancesType DEF DistributionInv, AirdropsOK
    <2>2. Promised(airdrops') \in Nat
      BY BalancesType DEF AirdropsOK
    <2> QED BY <2>1, <2>2, LedgerFacts, ConstantTypes DEF DistributionInv
  <1>3. /\ fees \in Nat /\ minted \in Nat /\ exited \in Nat /\ lost \in Nat
        /\ fees' \in Nat /\ minted' \in Nat /\ exited' \in Nat /\ lost' \in Nat
    BY DEF DistributionInv, HistoryOK
  <1>4. PotCovers'
    <2>1. ledger.account[Pot].free + lost >= Promised(airdrops)
      BY DEF DistributionInv, PotCovers, Promised, BalanceOf, Free
    <2>2. ledger'.account[Pot].free + lost' >= Promised(airdrops')
      BY <1>1, <1>2, <1>3, <2>1 DEF Matched
    <2> QED BY <2>2 DEF PotCovers, Promised, BalanceOf, Free
  <1>5. SupplyAccounted'
    <2> DEFINE n == Cardinality(Founders) * Endowed
    <2>1. n \in Nat
      <3>1. IsFiniteSet(Founders)
        BY ConstantTypes, FS_Subset
      <3> QED BY <3>1, ConstantTypes, FS_CardinalityType
    <2> HIDE DEF n
    <2>2. Supply(ledger) + fees + lost = n + minted + exited
      BY DEF DistributionInv, SupplyAccounted, n
    <2>3. Supply(ledger') + fees' + lost' = n + minted' + exited'
      BY <1>1, <1>2, <1>3, <2>1, <2>2 DEF Matched
    <2> QED BY <2>3 DEF SupplyAccounted, n
  <1>6. Surplus' >= Surplus
    <2>1. /\ Surplus = ledger.account[Pot].free + lost - Promised(airdrops)
          /\ Surplus' = ledger'.account[Pot].free + lost' - Promised(airdrops')
      BY DEF Surplus, Promised, BalanceOf, Free
    <2>2. Promised(airdrops') <= Promised(airdrops) + pot + (lost' - lost)
      BY DEF Matched
    <2>3. Surplus' >= Surplus
      BY <1>1, <1>2, <1>3, <2>1, <2>2
    <2> QED BY <2>3
  <1>7. QED
    BY <1>1, <1>4, <1>5, <1>6 DEF DistributionInv, Fair

\* The books are of numbers.
LEMMA BookTypes ==
  ASSUME DistributionInv
  PROVE  /\ LedgerInv /\ fees \in Nat /\ minted \in Nat /\ exited \in Nat /\ lost \in Nat
         /\ Promised(airdrops) \in Nat /\ nextAirdrop \in Nat
         /\ airdrops \in [DOMAIN airdrops -> Airdrop] /\ IsFiniteSet(DOMAIN airdrops)
         /\ \A id \in DOMAIN airdrops : id \in Nat /\ id < nextAirdrop
         /\ Spent(nullifiers, exited)
  BY BalancesType DEF DistributionInv, AirdropsOK, HistoryOK

\* A step that leaves the airdrops alone.
LEMMA AirdropsLeft ==
  ASSUME DistributionInv, UNCHANGED pots
  PROVE  AirdropsOK' /\ airdrops' = airdrops
  BY DEF DistributionInv, AirdropsOK, pots

\* collect_transaction_fees (mining-rewards, lib.rs:151-176): what is burned is noted.
LEMMA FeeStep ==
  ASSUME DistributionInv, NEW a \in Users, CollectFee(a)
  PROVE  DistributionInv' /\ Fair({a})
  <1>1. Ledger(Burned(ledger, a, Fee, "Preserve")) /\ fees' = fees + Fee
        /\ UNCHANGED <<nullifiers, pots, minted, exited, lost>>
    BY DEF CollectFee, history
  <1>2. Shifts(- Fee, 0, {a})
    BY <1>1, FeeShift DEF DistributionInv
  <1>3. AirdropsOK' /\ airdrops' = airdrops
    BY <1>1, AirdropsLeft
  <1>4. Fee \in Nat /\ - Fee \in Int
    BY ConstantTypes
  <1>5. HistoryOK' /\ Spent(nullifiers', exited')
    BY <1>1, <1>4, BookTypes DEF HistoryOK
  <1>6. Matched(- Fee, 0)
    BY <1>1, <1>3, <1>4, BookTypes DEF Matched
  <1>7. QED
    BY <1>2, <1>3, <1>4, <1>5, <1>6, Accounting

\* on_finalize (mining-rewards, lib.rs:87-149): the fees come back with the
\* reward, and are forgotten.
LEMMA RewardStep ==
  ASSUME DistributionInv, NEW a \in Users, Reward(a)
  PROVE  DistributionInv' /\ Fair({})
  <1> DEFINE v == BlockReward + fees
  <1>1. Ledger(Created(a, v)) /\ fees' = 0 /\ minted' = minted + BlockReward
        /\ UNCHANGED <<nullifiers, pots, exited, lost>>
    BY DEF Reward
  <1>2. /\ v \in Nat /\ v >= ED /\ BlockReward \in Nat /\ fees \in Nat
        /\ a \in Accounts /\ a # Pot
    BY ConstantTypes, BookTypes
  <1>3. v = BlockReward + fees
    OBVIOUS
  <1> HIDE DEF v
  <1>4. Lands(a, v)
    BY <1>2 DEF Lands
  <1>5. Shifts(IF Lands(a, v) THEN v ELSE 0, IF Lands(a, v) /\ a = Pot THEN v ELSE 0, {})
    BY <1>1, <1>2, CreatedShift DEF DistributionInv
  <1>6. Shifts(v, 0, {})
    BY <1>2, <1>4, <1>5
  <1>7. AirdropsOK' /\ airdrops' = airdrops
    BY <1>1, AirdropsLeft
  <1>8. HistoryOK' /\ Spent(nullifiers', exited')
    BY <1>1, <1>2, BookTypes DEF HistoryOK
  <1>9. Matched(v, 0)
    BY <1>1, <1>2, <1>3, <1>7, BookTypes DEF Matched
  <1>10. v \in Int
    BY <1>2
  <1>11. QED
    BY <1>6, <1>7, <1>8, <1>9, <1>10, Accounting

\* mint_new_tokens (faucet, lib.rs:59-85).
LEMMA FaucetStep ==
  ASSUME DistributionInv, NEW a \in Users, MintNewTokens(a)
  PROVE  DistributionInv' /\ Fair({})
  <1> DEFINE v == IF Lands(a, DefaultMintAmount) THEN DefaultMintAmount ELSE 0
  <1>1. Ledger(Created(a, DefaultMintAmount)) /\ minted' = minted + v
        /\ UNCHANGED <<fees, nullifiers, pots, exited, lost>>
    BY DEF MintNewTokens
  <1>2. DefaultMintAmount \in Nat /\ v \in Nat /\ v \in Int /\ a \in Accounts /\ a # Pot
    BY ConstantTypes
  <1>3. Shifts(v, 0, {})
    <2>1. Shifts(v, IF Lands(a, DefaultMintAmount) /\ a = Pot THEN DefaultMintAmount ELSE 0, {})
      BY <1>1, <1>2, CreatedShift DEF DistributionInv
    <2> HIDE DEF v
    <2> QED BY <1>2, <2>1
  <1> HIDE DEF v
  <1>4. AirdropsOK' /\ airdrops' = airdrops
    BY <1>1, AirdropsLeft
  <1>5. HistoryOK' /\ Spent(nullifiers', exited')
    BY <1>1, <1>2, BookTypes DEF HistoryOK
  <1>6. Matched(v, 0)
    BY <1>1, <1>2, <1>4, BookTypes DEF Matched
  <1>7. QED
    BY <1>2, <1>3, <1>4, <1>5, <1>6, Accounting

\* verify_wormhole_proof (wormhole, lib.rs:158-204): the exit is paid with the
\* nullifier, or lost with it.
LEMMA WormholeStep ==
  ASSUME DistributionInv, NEW fields \in PublicInputs, VerifyWormholeProof(fields)
  PROVE  DistributionInv' /\ Fair({})
  <1> DEFINE p == FromFields(fields)
             to == AccountOf[p.exit_account]
             lands == Lands(to, p.exit_amount)
             v == IF lands THEN p.exit_amount ELSE 0
             w == IF lands /\ to = Pot THEN p.exit_amount ELSE 0
  <1>1. /\ p.nullifier \notin nullifiers /\ nullifiers' = nullifiers \cup {p.nullifier}
        /\ Ledger(Created(to, p.exit_amount)) /\ exited' = exited + v
        /\ UNCHANGED <<fees, pots, minted, lost>>
    BY DEF VerifyWormholeProof
  <1>2. p \in Publics /\ p.exit_amount \in Nat /\ to \in Accounts
    BY PublicTypes
  <1>3. lands \in BOOLEAN /\ (lands \/ p.exit_amount < ED)
    BY <1>2, ConstantTypes DEF Lands
  <1> HIDE DEF p, to
  <1>4. Shifts(v, w, {})
    BY <1>1, <1>2, CreatedShift DEF DistributionInv
  <1> HIDE DEF lands
  <1>5. v \in Nat /\ w \in Nat /\ v \in Int /\ w \in Int
    BY <1>2
  <1>6. Spent(nullifiers', exited')
    <2>1. Spent(nullifiers \cup {p.nullifier}, exited + v)
      BY <1>1, <1>2, <1>3, SpentOnce, BookTypes
    <2> QED BY <1>1, <2>1
  <1> HIDE DEF v, w
  <1>7. AirdropsOK' /\ airdrops' = airdrops
    BY <1>1, AirdropsLeft
  <1>8. HistoryOK'
    BY <1>1, <1>5, BookTypes DEF HistoryOK
  <1>9. Matched(v, w)
    BY <1>1, <1>5, <1>7, BookTypes DEF Matched
  <1>10. QED
    BY <1>4, <1>5, <1>6, <1>7, <1>8, <1>9, Accounting

\* A step that moves balances and leaves the books.
LEMMA MoveStep ==
  ASSUME DistributionInv, NEW pot \in Nat, NEW P, Shifts(0, pot, P),
         UNCHANGED <<fees, nullifiers, pots, history>>
  PROVE  DistributionInv' /\ Fair(P)
  <1>1. UNCHANGED <<fees, nullifiers, pots, minted, exited, lost>> /\ pot \in Int /\ 0 \in Int
    BY DEF history
  <1>2. AirdropsOK' /\ airdrops' = airdrops
    BY <1>1, AirdropsLeft
  <1>3. HistoryOK' /\ Spent(nullifiers', exited')
    BY <1>1, BookTypes DEF HistoryOK
  <1>4. Matched(0, pot)
    BY <1>1, <1>2, BookTypes DEF Matched
  <1>5. QED
    BY <1>1, <1>2, <1>3, <1>4, Accounting

\* transfer_keep_alive between accounts, the pot as receiver included.
LEMMA TransferKeepAliveStep ==
  ASSUME DistributionInv, NEW a \in Users, NEW b \in Accounts, NEW v \in Amounts,
         TransferKeepAlive(a, b, v)
  PROVE  DistributionInv' /\ Fair({a})
  <1>1. /\ a # b /\ Ledger(Moved(ledger, a, b, v, "Preserve"))
        /\ UNCHANGED <<fees, nullifiers, pots, history>>
    BY DEF TransferKeepAlive
  <1>2. a \in Accounts /\ a # Pot /\ v \in Nat
    BY ConstantTypes
  <1>3. Shifts(0, PotGain(a, b, v), {a})
    BY <1>1, <1>2, MovedShift DEF DistributionInv
  <1>4. PotGain(a, b, v) \in Nat
    BY <1>2 DEF PotGain
  <1>5. QED
    BY <1>1, <1>3, <1>4, MoveStep

\* A vesting schedule that has run out.
LEMMA VestStep ==
  ASSUME DistributionInv, NEW a \in Users, Vest(a)
  PROVE  DistributionInv' /\ Fair({})
  <1>1. /\ ledger.locks[a]["vesting"] # 0
        /\ Ledger(UpdateLocks(ledger, a, [ledger.locks[a] EXCEPT !["vesting"] = 0]))
        /\ UNCHANGED <<fees, nullifiers, pots, history>>
    BY DEF Vest
  <1>2. Shifts(0, 0, {})
    BY <1>1, VestShift DEF DistributionInv
  <1>3. 0 \in Nat
    OBVIOUS
  <1>4. QED
    BY <1>1, <1>2, <1>3, MoveStep

\* PreimageDeposit (runtime, governance.rs:27-53): what is noted is what is
\* reserved, whether taken or changed.
LEMMA PreimageSteps ==
  ASSUME DistributionInv, NEW who \in Depositors, NEW size \in Sizes,
         NewDeposit(who, size) \/ UpdateDeposit(who, size)
  PROVE  DistributionInv' /\ Fair({})
  <1> DEFINE v == DepositFor(size)
             old == deposits[who]
  <1>1. LedgerInv /\ who \in Users /\ who \in Accounts
    BY ConstantTypes DEF DistributionInv
  <1>2. /\ Sound(ledger) /\ Gap(ledger) \in Nat /\ Gap(ledger) >= 0 /\ old \in Nat /\ - old \in Int
        /\ ledger.account[who].reserved = old
    BY <1>1, LedgerFacts
  <1>3. v \in Nat /\ v \in Int
    <2>1. size \in Nat /\ BaseDeposit \in Nat /\ ByteDeposit \in Nat
      BY ConstantTypes
    <2> QED BY <2>1 DEF DepositFor
  <1>4. Unreserved(ledger, who, old).ok
        /\ Aside(ledger, Unreserved(ledger, who, old).s, who, - old)
    BY <1>1, <1>2, UnreservedAside
  <1>5. CASE NewDeposit(who, size)
    <2>1. /\ old = 0 /\ UNCHANGED <<fees, nullifiers, pots, history>>
          /\ Call(Reserved(ledger, who, v), credit, debt, [deposits EXCEPT ![who] = v])
      BY <1>5 DEF NewDeposit
    <2>2. Reserved(ledger, who, v).ok
      BY <2>1 DEF Call
    <2> HIDE DEF v
    <2>3. Aside(ledger, Reserved(ledger, who, v).s, who, v)
      BY <1>1, <1>2, <1>3, <2>2, ReservedAside
    <2>4. v = deposits[who] + v
      BY <1>3, <2>1
    <2>5. Shifts(0, 0, {})
      BY <1>1, <1>3, <2>1, <2>3, <2>4, AsideShift
    <2> QED BY <2>1, <2>5, MoveStep
  <1>6. CASE UpdateDeposit(who, size)
    <2> DEFINE back == Unreserved(ledger, who, old)
               again == Reserved(back.s, who, v)
    <2>1. /\ UNCHANGED <<fees, nullifiers, pots, history>>
          /\ Call(again, credit, debt, [deposits EXCEPT ![who] = v])
      BY <1>6 DEF UpdateDeposit
    <2>2. again.ok
      BY <2>1 DEF Call
    <2> HIDE DEF v, old
    <2> DEFINE n == - old
    <2>3. Aside(ledger, back.s, who, n)
      BY <1>4
    <2> HIDE DEF back
    <2>4. Sound(back.s) /\ Gap(back.s) >= 0
      BY <1>2, <2>3 DEF Aside, Keeps
    <2>5. Aside(back.s, again.s, who, v)
      BY <1>1, <1>3, <2>2, <2>4, ReservedAside
    <2> HIDE DEF again
    <2>6. v = deposits[who] + (n + v) /\ n \in Int /\ n + v \in Int
      BY <1>2, <1>3 DEF old
    <2> HIDE DEF n
    <2>7. /\ Sound(ledger) /\ who \in Accounts /\ n \in Int /\ v \in Int
          /\ Aside(ledger, back.s, who, n) /\ Aside(back.s, again.s, who, v)
      BY <1>1, <1>2, <1>3, <2>3, <2>5, <2>6
    <2>8. Aside(ledger, again.s, who, n + v)
      BY <2>7, AsideTwice
    <2> DEFINE m == n + v
    <2>9. v = deposits[who] + m /\ m \in Int /\ Aside(ledger, again.s, who, m)
      BY <2>6, <2>8
    <2> HIDE DEF m
    <2>10. Shifts(0, 0, {})
      BY <1>1, <1>3, <2>1, <2>9, AsideShift
    <2> QED BY <2>1, <2>10, MoveStep
  <1>7. QED
    BY <1>5, <1>6

\* PreimageDeposit::drop (runtime, governance.rs:55-58): all of it is given back.
LEMMA DropStep ==
  ASSUME DistributionInv, NEW who \in Depositors, DropDeposit(who)
  PROVE  DistributionInv' /\ Fair({})
  <1> DEFINE old == deposits[who]
             n   == - old
             r   == Unreserved(ledger, who, old)
  <1>1. LedgerInv /\ who \in Users /\ who \in Accounts
    BY ConstantTypes DEF DistributionInv
  <1>2. /\ Sound(ledger) /\ Gap(ledger) \in Nat /\ Gap(ledger) >= 0 /\ old \in Nat /\ n \in Int
        /\ ledger.account[who].reserved = old
    BY <1>1, LedgerFacts
  <1>3. Aside(ledger, r.s, who, n)
    BY <1>1, <1>2, UnreservedAside
  <1>4. /\ UNCHANGED <<fees, nullifiers, pots, history>>
        /\ Call(r, credit, debt, [deposits EXCEPT ![who] = 0])
    BY DEF DropDeposit
  <1>5. 0 = deposits[who] + n /\ 0 \in Nat
    BY <1>2
  <1> HIDE DEF n, r
  <1>6. Shifts(0, 0, {})
    BY <1>1, <1>2, <1>3, <1>4, <1>5, AsideShift
  <1>7. QED
    BY <1>4, <1>5, <1>6, MoveStep

\* create_airdrop (merkle-airdrop, lib.rs:350-376): the new airdrop promises nothing.
LEMMA CreateStep ==
  ASSUME DistributionInv, NEW who \in Users, NEW root \in Roots, NEW period \in Periods,
         CreateAirdrop(who, root, period)
  PROVE  DistributionInv' /\ Fair({})
  <1> DEFINE d == [root |-> root, creator |-> who, balance |-> 0, period |-> period]
  <1>1. /\ airdrops' = With(airdrops, nextAirdrop, d) /\ nextAirdrop' = nextAirdrop + 1
        /\ UNCHANGED <<ledger, credit, debt, deposits, fees, nullifiers, minted, exited, lost>>
    BY DEF CreateAirdrop, vars, history
  <1>2. d \in Airdrop /\ d.balance = 0
    BY DEF Airdrop
  <1> HIDE DEF d
  <1>3. nextAirdrop \notin DOMAIN airdrops /\ nextAirdrop \in Nat
    BY BookTypes
  <1>4. /\ DOMAIN airdrops' = DOMAIN airdrops \cup {nextAirdrop}
        /\ airdrops' \in [DOMAIN airdrops \cup {nextAirdrop} -> Airdrop]
        /\ IsFiniteSet(DOMAIN airdrops \cup {nextAirdrop})
        /\ Promised(airdrops') = Promised(airdrops)
    BY <1>1, <1>2, <1>3, BookTypes, PromisedNew
  <1>5. AirdropsOK'
    <2>1. \A id \in DOMAIN airdrops' : id \in Nat /\ id < nextAirdrop'
      BY <1>1, <1>3, <1>4, BookTypes
    <2> QED BY <1>1, <1>3, <1>4, <2>1 DEF AirdropsOK
  <1>6. Shifts(0, 0, {})
    <2>1. LedgerInv' /\ Supply(ledger) \in Nat /\ ledger.account[Pot].free \in Nat
      <3>1. UNCHANGED vars
        BY <1>1 DEF vars
      <3>2. IInv'
        BY <3>1, Stuttering DEF DistributionInv, LedgerInv
      <3> QED BY <1>1, <3>2, LedgerFacts, ConstantTypes DEF DistributionInv, LedgerInv
    <2>2. Spares(ledger, ledger, {})
      <3>1. ledger \in Ledgers
        BY LedgerFacts DEF DistributionInv
      <3> QED BY <3>1, SparesSame
    <2> QED BY <1>1, <2>1, <2>2 DEF Shifts
  <1>7. HistoryOK' /\ Spent(nullifiers', exited')
    BY <1>1, BookTypes DEF HistoryOK
  <1>8. Matched(0, 0)
    BY <1>1, <1>4, BookTypes DEF Matched
  <1>9. QED
    BY <1>5, <1>6, <1>7, <1>8, Accounting

\* An airdrop whose balance has changed.
LEMMA BalanceChanged ==
  ASSUME DistributionInv, NEW id \in DOMAIN airdrops, NEW n \in Nat,
         airdrops' = [airdrops EXCEPT ![id].balance = n], nextAirdrop' = nextAirdrop
  PROVE  /\ AirdropsOK' /\ airdrops[id].balance \in Nat
         /\ Promised(airdrops') = Promised(airdrops) - airdrops[id].balance + n
         /\ Promised(airdrops) >= airdrops[id].balance
  <1>1. /\ airdrops \in [DOMAIN airdrops -> Airdrop] /\ IsFiniteSet(DOMAIN airdrops)
        /\ nextAirdrop \in Nat /\ \A i \in DOMAIN airdrops : i \in Nat /\ i < nextAirdrop
    BY BookTypes
  <1>2. /\ DOMAIN airdrops' = DOMAIN airdrops /\ airdrops' \in [DOMAIN airdrops -> Airdrop]
        /\ Promised(airdrops') = Promised(airdrops) - airdrops[id].balance + n
    BY <1>1, PromisedChange
  <1>3. AirdropsOK'
    BY <1>1, <1>2 DEF AirdropsOK
  <1>4. /\ airdrops[id].balance \in Nat /\ airdrops[id].balance <= Promised(airdrops)
        /\ Promised(airdrops) \in Nat
    BY <1>1, BalancesType
  <1>5. QED
    BY <1>2, <1>3, <1>4
\* The steps that touch one airdrop leave the fees and the nullifiers.
LEMMA AirdropStep ==
  ASSUME DistributionInv, NEW n \in Nat, NEW pot \in Int, NEW P, AirdropsOK',
         Shifts(- n, pot, P), lost' = lost + n,
         Promised(airdrops') <= Promised(airdrops) + pot + n,
         UNCHANGED <<fees, nullifiers, minted, exited>>
  PROVE  DistributionInv' /\ Fair(P)
  <1>1. /\ fees' = fees /\ nullifiers' = nullifiers /\ minted' = minted /\ exited' = exited
        /\ lost' \in Nat /\ - n \in Int
    BY BookTypes
  <1>2. HistoryOK' /\ Spent(nullifiers', exited')
    BY <1>1, BookTypes DEF HistoryOK
  <1>3. Matched(- n, pot)
    <2>1. lost \in Nat /\ fees \in Nat /\ minted \in Nat /\ exited \in Nat
      BY BookTypes
    <2>2. lost' - lost = n
      BY <2>1
    <2>3. - n + (fees' - fees) + (lost' - lost) = (minted' - minted) + (exited' - exited)
      BY <1>1, <2>1, <2>2
    <2> QED BY <2>2, <2>3 DEF Matched
  <1> DEFINE total == - n
  <1>4. total \in Int /\ Shifts(total, pot, P) /\ Matched(total, pot)
    BY <1>1, <1>3
  <1> HIDE DEF total
  <1>5. QED
    BY <1>2, <1>4, Accounting

\* fund_airdrop (merkle-airdrop, lib.rs:395-423): what the pot receives is promised.
LEMMA FundStep ==
  ASSUME DistributionInv, NEW who \in Users, NEW id \in DOMAIN airdrops, NEW v \in Amounts,
         FundAirdrop(who, id, v)
  PROVE  DistributionInv' /\ Fair({who})
  <1> DEFINE n == airdrops[id].balance + v
  <1>1. /\ Ledger(Paid(who, Pot, v, "Preserve"))
        /\ airdrops' = [airdrops EXCEPT ![id].balance = n] /\ nextAirdrop' = nextAirdrop
        /\ UNCHANGED <<fees, nullifiers, minted, exited, lost>>
    BY DEF FundAirdrop, history
  <1>2. v \in Nat /\ who \in Accounts /\ Pot \in Accounts /\ who # Pot
    BY ConstantTypes
  <1>3. Shifts(0, v, {who})
    <2>1. Shifts(0, PotGain(who, Pot, v), {who})
      BY <1>1, <1>2, PaidShift DEF DistributionInv
    <2>2. PotGain(who, Pot, v) = v
      BY <1>2 DEF PotGain
    <2> QED BY <2>1, <2>2
  <1>4. airdrops[id].balance \in Nat /\ n \in Nat
    <2>1. airdrops[id].balance \in Nat
      BY BookTypes DEF Airdrop
    <2> QED BY <1>2, <2>1
  <1> HIDE DEF n
  <1>5. AirdropsOK' /\ Promised(airdrops') = Promised(airdrops) - airdrops[id].balance + n
    BY <1>1, <1>4, BalanceChanged
  <1>6. Promised(airdrops') <= Promised(airdrops) + v + 0
    <2>1. Promised(airdrops) \in Nat
      BY BookTypes
    <2> QED BY <1>2, <1>4, <1>5, <2>1 DEF n
  <1>7. lost' = lost + 0
    BY <1>1, BookTypes
  <1> DEFINE z == 0
  <1>8. /\ z \in Nat /\ v \in Int /\ Shifts(- z, v, {who}) /\ lost' = lost + z
        /\ Promised(airdrops') <= Promised(airdrops) + v + z
        /\ UNCHANGED <<fees, nullifiers, minted, exited>>
    BY <1>1, <1>2, <1>3, <1>6, <1>7
  <1> HIDE DEF z
  <1>9. QED
    BY <1>5, <1>8, AirdropStep

\* claim (merkle-airdrop, lib.rs:446-514): what the pot loses is no longer promised,
\* or was removed with a pot below the deposit.
LEMMA ClaimStep ==
  ASSUME DistributionInv, NEW a \in Users, NEW id \in DOMAIN airdrops, NEW v \in Amounts,
         NEW proof, Claim(id, a, v, proof)
  PROVE  DistributionInv' /\ Fair({Pot})
  <1> DEFINE dust == PotDust(v)
             n    == airdrops[id].balance - v
  <1>1. /\ Ledger(VestedTransfer(a, v, v \div airdrops[id].period))
        /\ airdrops' = [airdrops EXCEPT ![id].balance = Less(airdrops[id].balance, v)]
        /\ nextAirdrop' = nextAirdrop /\ airdrops[id].balance >= v
        /\ lost' = lost + dust
        /\ UNCHANGED <<fees, nullifiers, minted, exited>>
    BY DEF Claim, Covers, PotDust
  <1>2. v \in Nat /\ airdrops[id].balance \in Nat
    <2>1. airdrops[id].balance \in Nat
      BY BookTypes DEF Airdrop
    <2> QED BY <2>1, ConstantTypes
  <1>3. n \in Nat /\ Less(airdrops[id].balance, v) = n
    BY <1>1, <1>2 DEF Less
  <1>4. /\ dust \in Nat
        /\ Shifts(- dust, - (v + dust), {Pot})
    BY <1>1, <1>2, ClaimShift DEF DistributionInv
  <1> HIDE DEF n, dust
  <1>5. AirdropsOK' /\ Promised(airdrops') = Promised(airdrops) - airdrops[id].balance + n
    <2>1. airdrops' = [airdrops EXCEPT ![id].balance = n]
      BY <1>1, <1>3
    <2> QED BY <1>1, <1>3, <2>1, BalanceChanged
  <1>6. Promised(airdrops') <= Promised(airdrops) + (- (v + dust)) + dust
    <2>1. Promised(airdrops) \in Nat
      BY BookTypes
    <2> QED BY <1>2, <1>4, <1>5, <2>1 DEF n
  <1> DEFINE pot == - (v + dust)
  <1>7. /\ dust \in Nat /\ pot \in Int /\ Shifts(- dust, pot, {Pot}) /\ lost' = lost + dust
        /\ Promised(airdrops') <= Promised(airdrops) + pot + dust
        /\ UNCHANGED <<fees, nullifiers, minted, exited>>
    BY <1>1, <1>2, <1>4, <1>6
  <1> HIDE DEF pot
  <1>8. QED
    BY <1>5, <1>7, AirdropStep

\* delete_airdrop (merkle-airdrop, lib.rs:532-553): what was promised is paid back.
LEMMA DeleteStep ==
  ASSUME DistributionInv, NEW who \in Users, NEW id \in DOMAIN airdrops,
         DeleteAirdrop(who, id)
  PROVE  DistributionInv' /\ Fair({Pot})
  <1> DEFINE b == airdrops[id].balance
  <1>1. /\ Ledger(Paid(Pot, who, b, "Preserve"))
        /\ airdrops' = Without(airdrops, id) /\ nextAirdrop' = nextAirdrop
        /\ UNCHANGED <<fees, nullifiers, minted, exited, lost>>
    BY DEF DeleteAirdrop, history
  <1>2. b \in Nat /\ who \in Accounts /\ Pot \in Accounts /\ who # Pot
    <2>1. b \in Nat
      BY BookTypes DEF Airdrop
    <2> QED BY <2>1, ConstantTypes
  <1>3. Shifts(0, - b, {Pot})
    <2>1. Shifts(0, PotGain(Pot, who, b), {Pot})
      BY <1>1, <1>2, PaidShift DEF DistributionInv
    <2>2. PotGain(Pot, who, b) = - b
      BY <1>2 DEF PotGain
    <2> QED BY <2>1, <2>2
  <1>4. /\ DOMAIN airdrops' = DOMAIN airdrops \ {id}
        /\ airdrops' \in [DOMAIN airdrops \ {id} -> Airdrop]
        /\ IsFiniteSet(DOMAIN airdrops \ {id})
        /\ Promised(airdrops') = Promised(airdrops) - b
    BY <1>1, BookTypes, PromisedWithout
  <1> HIDE DEF b
  <1>5. AirdropsOK'
    BY <1>1, <1>4, BookTypes DEF AirdropsOK
  <1> DEFINE z   == 0
             pot == - b
  <1>6. /\ z \in Nat /\ pot \in Int /\ Shifts(- z, pot, {Pot}) /\ lost' = lost + z
        /\ Promised(airdrops') <= Promised(airdrops) + pot + z
        /\ UNCHANGED <<fees, nullifiers, minted, exited>>
    BY <1>1, <1>2, <1>3, <1>4, BookTypes
  <1> HIDE DEF z, pot
  <1>7. QED
    BY <1>5, <1>6, AirdropStep

-----------------------------------------------------------------------------
(* Genesis. *)

\* A sum in which some entries have one value and the others none.
LEMMA SumFlat ==
  ASSUME NEW S, IsFiniteSet(S), NEW T \in SUBSET S, NEW n \in Nat, NEW f \in [S -> Nat],
         \A i \in S : f[i] = IF i \in T THEN n ELSE 0
  PROVE  Sum(f) = Cardinality(T) * n
  <1>1. Units(f) = T \X (1 .. n)
    <2>1. \A i \in S : {i} \X (1 .. f[i]) = IF i \in T THEN {i} \X (1 .. n) ELSE {}
      <3>1. 1 .. 0 = {}
        OBVIOUS
      <3> QED BY <3>1
    <2>2. Units(f) = UNION {{i} \X (1 .. f[i]) : i \in S}
      BY DEF Units
    <2> QED BY <2>1, <2>2
  <1>2. IsFiniteSet(T)
    BY FS_Subset
  <1>3. IsFiniteSet(1 .. n) /\ Cardinality(1 .. n) = n
    BY IntervalSize
  <1>4. Cardinality(T \X (1 .. n)) = Cardinality(T) * Cardinality(1 .. n)
    BY <1>2, <1>3, FS_Product
  <1>5. QED
    BY <1>1, <1>3, <1>4 DEF Sum, Units

\* The ledger of genesis: the founders are endowed, and nobody else exists.
LEMMA GenesisLedger ==
  ASSUME DistributionInit
  PROVE  LedgerInv /\ Supply(ledger) = Cardinality(Founders) * Endowed
  <1> DEFINE account   == [a \in Accounts |->
                             [NoAccount EXCEPT !.free = IF a \in Founders THEN Endowed ELSE 0]]
             providers == [a \in Accounts |-> IF a \in Founders THEN 1 ELSE 0]
             consumers == [a \in Accounts |-> 0]
             locks     == [a \in Accounts |-> [i \in LockIds |-> 0]]
             freezes   == [a \in Accounts |-> [i \in FreezeIds |-> 0]]
             holds     == [a \in Accounts |-> [i \in HoldReasons |-> 0]]
             reserves  == [a \in Accounts |-> NoReserve]
             n         == Cardinality(Founders) * Endowed
  <1>1. /\ ledger = [account |-> account, providers |-> providers, consumers |-> consumers,
                     locks |-> locks, freezes |-> freezes, holds |-> holds,
                     reserves |-> reserves, issuance |-> n + Rest]
        /\ credit = 0 /\ debt = 0 /\ deposits = [a \in Accounts |-> 0]
    BY DEF DistributionInit
  <1>2. /\ Endowed \in Nat /\ Endowed >= ED /\ ED \in Nat /\ ED > 0 /\ Rest \in Nat
        /\ MaxPending \in Nat /\ Pot \in Accounts /\ IsFiniteSet(Accounts)
        /\ Founders \in SUBSET Accounts
    BY ConstantTypes
  <1>3. n \in Nat
    <2>1. Cardinality(Founders) \in Nat
      BY <1>2, FS_Subset, FS_CardinalityType
    <2> QED BY <1>2, <2>1
  <1>4. NoReserve \in Entries /\ Sum(NoReserve) = 0
    <2>1. {} \in NameSets
      BY FS_EmptySet, BalancesAssumption DEF NameSets
    <2>2. NoReserve \in [{} -> Nat]
      BY DEF NoReserve
    <2> QED BY <2>1, <2>2, SumZero DEF Entries
  <1>5. \A a \in Accounts : /\ account[a] \in Data
                            /\ account[a].free = IF a \in Founders THEN Endowed ELSE 0
                            /\ account[a].reserved = 0 /\ account[a].frozen = 0
                            /\ account[a] = NoAccount \/ account[a].free >= ED
                            /\ Total(account[a]) = IF a \in Founders THEN Endowed ELSE 0
    <2> SUFFICES ASSUME NEW a \in Accounts
                 PROVE  /\ account[a] \in Data
                        /\ account[a].free = IF a \in Founders THEN Endowed ELSE 0
                        /\ account[a].reserved = 0 /\ account[a].frozen = 0
                        /\ account[a] = NoAccount \/ account[a].free >= ED
                        /\ Total(account[a]) = IF a \in Founders THEN Endowed ELSE 0
      OBVIOUS
    <2> DEFINE m == IF a \in Founders THEN Endowed ELSE 0
               d == [NoAccount EXCEPT !.free = m]
    <2>1. m \in Nat
      BY <1>2
    <2>2. account[a] = d
      OBVIOUS
    <2> HIDE DEF m
    <2>3. /\ d \in Data /\ d.free = m /\ d.reserved = 0 /\ d.frozen = 0
          /\ m = 0 => d = NoAccount
      BY <2>1 DEF Data, NoAccount
    <2> HIDE DEF d, account
    <2>4. Total(d) = m
      BY <2>1, <2>3 DEF Total
    <2>5. m = 0 \/ m >= ED
      BY <1>2 DEF m
    <2> QED BY <2>2, <2>3, <2>4, <2>5 DEF m
  <1>6. account \in [Accounts -> Data]
    BY <1>5
  <1>7. /\ providers \in [Accounts -> Nat] /\ consumers \in [Accounts -> Nat]
        /\ locks \in [Accounts -> [LockIds -> Nat]]
        /\ freezes \in [Accounts -> [FreezeIds -> Nat]]
        /\ holds \in [Accounts -> [HoldReasons -> Nat]]
        /\ reserves \in [Accounts -> Entries] /\ n + Rest \in Nat
    BY <1>2, <1>3, <1>4
  <1>8. \A a \in Accounts : /\ providers[a] = (IF a \in Founders THEN 1 ELSE 0)
                            /\ consumers[a] = 0 /\ reserves[a] = NoReserve
                            /\ locks[a] \in [LockIds -> Nat]
                            /\ \A i \in LockIds : locks[a][i] = 0
                            /\ freezes[a] \in [FreezeIds -> Nat]
                            /\ \A i \in FreezeIds : freezes[a][i] = 0
                            /\ holds[a] \in [HoldReasons -> Nat]
                            /\ \A i \in HoldReasons : holds[a][i] = 0
    OBVIOUS
  <1> HIDE DEF account, providers, consumers, locks, freezes, holds, reserves, n
  <1>9. /\ ledger.account = account /\ ledger.providers = providers
        /\ ledger.consumers = consumers /\ ledger.locks = locks /\ ledger.freezes = freezes
        /\ ledger.holds = holds /\ ledger.reserves = reserves /\ ledger.issuance = n + Rest
    BY <1>1
  <1>10. ledger \in Ledgers
    BY <1>1, <1>6, <1>7 DEF Ledgers
  <1>11. Sound(ledger)
    <2> SUFFICES ASSUME NEW a \in Accounts
                 PROVE  /\ account[a] = NoAccount \/ account[a].free >= ED
                        /\ providers[a] = IF account[a].free >= ED THEN 1 ELSE 0
                        /\ consumers[a] = IF Held(account[a]) THEN 1 ELSE 0
      BY <1>9, <1>10 DEF Sound
    <2>1. ~Held(account[a])
      BY <1>5 DEF Held
    <2>2. account[a].free >= ED <=> a \in Founders
      BY <1>2, <1>5
    <2> QED BY <1>5, <1>8, <2>1, <2>2
  <1>12. FrozenAgrees(ledger)
    <2> SUFFICES ASSUME NEW a \in Accounts
                 PROVE  Greatest(Highest(locks[a]), Highest(freezes[a])) = 0
      BY <1>5, <1>9 DEF FrozenAgrees
    <2> QED BY <1>8, FrozenOf
  <1>13. Supply(ledger) = n
    <2> DEFINE f == [a \in Accounts |-> Total(account[a])]
    <2>1. f \in [Accounts -> Nat] /\ \A a \in Accounts : f[a] = IF a \in Founders THEN Endowed ELSE 0
      BY <1>2, <1>5
    <2>2. Supply(ledger) = Sum(f)
      BY <1>9 DEF Supply
    <2> HIDE DEF f
    <2>3. Sum(f) = Cardinality(Founders) * Endowed
      BY <1>2, <2>1, SumFlat
    <2> QED BY <2>2, <2>3 DEF n
  <1>14. Gap(ledger) = Rest
    BY <1>2, <1>3, <1>9, <1>13 DEF Gap
  <1>15. \A a \in Accounts : Sum(holds[a]) = 0 /\ Sum(reserves[a]) = 0
    BY <1>4, <1>8, SumZero
  <1>16. \A a \in Accounts : Spare(ledger, a) = 0
    BY <1>5, <1>9, <1>15 DEF Spare
  <1>17. IInv
    <2>1. Books(ledger, credit, debt, deposits)
      BY <1>1, <1>2, <1>14, <1>16 DEF Books
    <2> QED BY <1>11, <1>12, <2>1 DEF IInv
  <1>18. Unheld(ledger) /\ PotUnlocked(ledger)
    BY <1>2, <1>8, <1>9, <1>15 DEF Unheld, PotUnlocked
  <1>19. QED
    BY <1>1, <1>2, <1>13, <1>17, <1>18 DEF LedgerInv, n

\* Nothing is spent, promised or collected at genesis.
LEMMA DistributionStart == DistributionInit => DistributionInv
  <1> SUFFICES ASSUME DistributionInit PROVE DistributionInv
    OBVIOUS
  <1>1. LedgerInv /\ Supply(ledger) = Cardinality(Founders) * Endowed
    BY GenesisLedger
  <1>2. /\ fees = 0 /\ nullifiers = {} /\ airdrops = [i \in {} |-> 0] /\ nextAirdrop = 0
        /\ minted = 0 /\ exited = 0 /\ lost = 0
    BY DEF DistributionInit
  <1>3. DOMAIN airdrops = {} /\ airdrops \in [{} -> Airdrop] /\ IsFiniteSet({})
    BY <1>2, FS_EmptySet
  <1>4. AirdropsOK
    BY <1>2, <1>3 DEF AirdropsOK
  <1>5. PotCovers
    <2> DEFINE f == [id \in DOMAIN airdrops |-> airdrops[id].balance]
    <2>1. f \in [{} -> Nat]
      BY <1>3
    <2> HIDE DEF f
    <2>2. Sum(f) = 0
      BY <2>1, SumZero
    <2>3. Free(Pot) \in Nat
      BY <1>1, LedgerFacts, ConstantTypes DEF Free
    <2> QED BY <1>2, <2>2, <2>3 DEF PotCovers, f
  <1>6. HistoryOK
    BY <1>2 DEF HistoryOK
  <1>7. SupplyAccounted
    <2>1. Supply(ledger) \in Nat
      BY <1>1, LedgerFacts
    <2> QED BY <1>1, <1>2, <2>1 DEF SupplyAccounted
  <1>8. Spent(nullifiers, exited)
    <2> DEFINE none == {}
    <2>1. Exits(none) = 0
      <3> DEFINE f == [p \in none |-> p.exit_amount]
      <3>1. f \in [none -> Nat] /\ \A p \in none : f[p] = 0
        OBVIOUS
      <3> HIDE DEF f
      <3>2. Sum(f) = 0
        BY <3>1, SumZero
      <3> QED BY <3>2 DEF Exits, f
    <2>2. {p.nullifier : p \in none} = {}
      OBVIOUS
    <2>3. \E paid \in SUBSET none :
             /\ exited = Exits(paid)
             /\ \A p \in none \ paid : p.exit_amount < ED
      BY <1>2, <2>1
    <2> QED BY <1>2, <2>2, <2>3, FS_EmptySet DEF Spent
  <1>9. QED
    BY <1>1, <1>4, <1>5, <1>6, <1>7, <1>8 DEF DistributionInv

-----------------------------------------------------------------------------
(* The invariant is inductive, and every step is fair. *)

\* A fair step whose payers pay for themselves makes nobody else pay.
LEMMA FairSays ==
  ASSUME DistributionInv, DistributionInv', NEW P, Fair(P),
         \A a \in P \cap Users : PaysItself(a)
  PROVE  NobodyElse
  <1>1. ASSUME NEW a \in Users, a \notin P
        PROVE  ~(Total(ledger'.account[a]) < Total(ledger.account[a]))
    <2>1. ledger \in Ledgers /\ a \in Accounts
      BY LedgerFacts, ConstantTypes DEF DistributionInv
    <2>2. ledger' \in Ledgers
      BY DEF DistributionInv, LedgerInv, IInv, Sound
    <2>3. Total(ledger.account[a]) \in Nat /\ Total(ledger'.account[a]) \in Nat
      BY <2>1, <2>2, SupplyType
    <2> QED BY <1>1, <2>3 DEF Fair, Spares
  <1>2. QED
    BY <1>1 DEF NobodyElse, Fair

\* A step of the mining rewards, the wormhole, the faucet or pallet_vesting.
LEMMA MintingSteps ==
  ASSUME DistributionInv,
         \/ \E a \in Users : CollectFee(a) \/ Reward(a) \/ MintNewTokens(a) \/ Vest(a)
         \/ \E fields \in PublicInputs : VerifyWormholeProof(fields)
  PROVE  DistributionInv' /\ NobodyElse
  <1>1. CASE \E a \in Users : CollectFee(a) \/ Reward(a) \/ MintNewTokens(a) \/ Vest(a)
    <2>1. PICK a \in Users : CollectFee(a) \/ Reward(a) \/ MintNewTokens(a) \/ Vest(a)
      BY <1>1
    <2>2. CASE CollectFee(a)
      <3>1. DistributionInv' /\ Fair({a}) /\ PaysItself(a)
        BY <2>2, FeeStep DEF PaysItself
      <3> QED BY <3>1, FairSays
    <2>3. CASE Reward(a)
      BY <2>3, RewardStep, FairSays
    <2>4. CASE MintNewTokens(a)
      BY <2>4, FaucetStep, FairSays
    <2>5. CASE Vest(a)
      BY <2>5, VestStep, FairSays
    <2> QED BY <2>1, <2>2, <2>3, <2>4, <2>5
  <1>2. CASE \E fields \in PublicInputs : VerifyWormholeProof(fields)
    BY <1>2, WormholeStep, FairSays
  <1>3. QED
    BY <1>1, <1>2

\* A step of the Merkle airdrops.
LEMMA AirdropSteps ==
  ASSUME DistributionInv,
         \/ \E who \in Users, root \in Roots, period \in Periods : CreateAirdrop(who, root, period)
         \/ \E who \in Users, id \in DOMAIN airdrops, v \in Amounts : FundAirdrop(who, id, v)
         \/ \E a \in Users, id \in DOMAIN airdrops, v \in Amounts, proof \in Proofs :
               Claim(id, a, v, proof)
         \/ \E who \in Users, id \in DOMAIN airdrops : DeleteAirdrop(who, id)
  PROVE  DistributionInv' /\ NobodyElse
  <1>1. CASE \E who \in Users, root \in Roots, period \in Periods : CreateAirdrop(who, root, period)
    BY <1>1, CreateStep, FairSays
  <1>2. CASE \E who \in Users, id \in DOMAIN airdrops, v \in Amounts : FundAirdrop(who, id, v)
    <2>1. PICK who \in Users, id \in DOMAIN airdrops, v \in Amounts : FundAirdrop(who, id, v)
      BY <1>2
    <2>2. DistributionInv' /\ Fair({who}) /\ PaysItself(who)
      BY <2>1, FundStep DEF PaysItself
    <2> QED BY <2>2, FairSays
  <1>3. CASE \E a \in Users, id \in DOMAIN airdrops, v \in Amounts, proof \in Proofs :
               Claim(id, a, v, proof)
    <2>1. PICK a \in Users, id \in DOMAIN airdrops, v \in Amounts, proof \in Proofs :
             Claim(id, a, v, proof)
      BY <1>3
    <2>2. DistributionInv' /\ Fair({Pot})
      BY <2>1, ClaimStep
    <2>3. {Pot} \cap Users = {}
      BY ConstantTypes
    <2> QED BY <2>2, <2>3, FairSays
  <1>4. CASE \E who \in Users, id \in DOMAIN airdrops : DeleteAirdrop(who, id)
    <2>1. DistributionInv' /\ Fair({Pot})
      BY <1>4, DeleteStep
    <2>2. {Pot} \cap Users = {}
      BY ConstantTypes
    <2> QED BY <2>1, <2>2, FairSays
  <1>5. QED
    BY <1>1, <1>2, <1>3, <1>4

\* A transfer by hand, or a preimage deposit.
LEMMA DepositSteps ==
  ASSUME DistributionInv,
         \/ \E a \in Users, b \in Accounts, v \in Amounts : TransferKeepAlive(a, b, v)
         \/ \E who \in Depositors, size \in Sizes :
               NewDeposit(who, size) \/ UpdateDeposit(who, size)
         \/ \E who \in Depositors : DropDeposit(who)
  PROVE  DistributionInv' /\ NobodyElse
  <1>1. CASE \E a \in Users, b \in Accounts, v \in Amounts : TransferKeepAlive(a, b, v)
    <2>1. PICK a \in Users, b \in Accounts, v \in Amounts : TransferKeepAlive(a, b, v)
      BY <1>1
    <2>2. DistributionInv' /\ Fair({a}) /\ PaysItself(a)
      BY <2>1, TransferKeepAliveStep DEF PaysItself
    <2> QED BY <2>2, FairSays
  <1>2. CASE \E who \in Depositors, size \in Sizes :
               NewDeposit(who, size) \/ UpdateDeposit(who, size)
    BY <1>2, PreimageSteps, FairSays
  <1>3. CASE \E who \in Depositors : DropDeposit(who)
    BY <1>3, DropStep, FairSays
  <1>4. QED
    BY <1>1, <1>2, <1>3

\* The invariant says the same of equal books.
LEMMA DistributionStill ==
  ASSUME DistributionInv, UNCHANGED allVars
  PROVE  DistributionInv'
  <1>1. /\ UNCHANGED vars /\ ledger' = ledger /\ credit' = credit /\ debt' = debt
        /\ deposits' = deposits /\ fees' = fees /\ nullifiers' = nullifiers
        /\ airdrops' = airdrops /\ nextAirdrop' = nextAirdrop
        /\ minted' = minted /\ exited' = exited /\ lost' = lost
    BY DEF allVars, vars, pots, history
  <1>2. IInv'
    BY <1>1, Stuttering DEF DistributionInv, LedgerInv
  <1>3. LedgerInv'
    BY <1>1, <1>2 DEF DistributionInv, LedgerInv, Unheld, PotUnlocked
  <1>4. AirdropsOK' /\ HistoryOK' /\ SupplyAccounted' /\ Spent(nullifiers', exited')
    BY <1>1 DEF DistributionInv, AirdropsOK, HistoryOK, SupplyAccounted
  <1>5. PotCovers'
    BY <1>1 DEF DistributionInv, PotCovers, Free
  <1>6. QED
    BY <1>3, <1>4, <1>5 DEF DistributionInv

\* Every step of every pallet keeps the invariant, and nobody else pays for it.
LEMMA DistributionStepping ==
  DistributionInv /\ [DistributionNext]_allVars => DistributionInv' /\ [NobodyElse]_allVars
  <1> SUFFICES ASSUME DistributionInv, [DistributionNext]_allVars
               PROVE  DistributionInv' /\ [NobodyElse]_allVars
    OBVIOUS
  <1>1. CASE UNCHANGED allVars
    BY <1>1, DistributionStill
  <1>2. CASE DistributionNext
    BY <1>2, MintingSteps, AirdropSteps, DepositSteps DEF DistributionNext
  <1>3. QED
    BY <1>1, <1>2

-----------------------------------------------------------------------------
(* The theorems. *)

\* The pallets together keep the ledger sound, the pot sufficient and the
\* books of minted, burned and paid tokens right.
THEOREM DistributionInvariance == DistributionSpec => []DistributionInv
  <1>1. DistributionInit => DistributionInv
    BY DistributionStart
  <1>2. DistributionInv /\ [DistributionNext]_allVars => DistributionInv'
    BY DistributionStepping
  <1>3. QED
    BY <1>1, <1>2, PTL DEF DistributionSpec

\* fund_airdrop, claim and delete_airdrop share one pot: it covers what all the
\* airdrops still promise, whatever the number of airdrops and claims.
THEOREM PotSuffices == DistributionSpec => []PotCovers
  <1>1. DistributionInv => PotCovers
    BY DEF DistributionInv
  <1>2. QED
    BY <1>1, DistributionInvariance, PTL

\* on_finalize, the wormhole, the faucet, claim, delete_airdrop, pallet_vesting and
\* the preimage deposits take tokens from no user, and nothing that a pot holds
\* beyond its airdrops is ever spent on one, whatever the calls and their order.
THEOREM NobodyPaysForAnother == DistributionSpec => NobodyElsePays
  <1>1. DistributionInv /\ [DistributionNext]_allVars => [NobodyElse]_allVars
    BY DistributionStepping
  <1>2. QED
    BY <1>1, DistributionInvariance, PTL DEF DistributionSpec, NobodyElsePays

\* Fees return once (mining-rewards), nullifiers pay once (wormhole), reserves
\* are what preimages were charged, and nothing else changes the supply.
THEOREM EveryTokenAccounted == DistributionSpec => []TokensAccounted
  <1>1. DistributionInv => TokensAccounted
    <2> SUFFICES ASSUME DistributionInv PROVE TokensAccounted
      OBVIOUS
    <2>1. LedgerInv /\ SupplyAccounted /\ Spent(nullifiers, exited)
      BY DEF DistributionInv
    <2>2. ledger.issuance = Supply(ledger) + Rest
      <3>1. ledger.issuance - Supply(ledger) = Rest
        BY <2>1, LedgerFacts DEF Gap
      <3>2. ledger.issuance \in Nat /\ Supply(ledger) \in Nat /\ Rest \in Nat
        BY <2>1, LedgerFacts, LedgerParts, ConstantTypes
      <3> QED BY <3>1, <3>2
    <2>3. \A a \in Accounts : ledger.account[a].reserved = deposits[a]
      BY <2>1, LedgerFacts
    <2>4. \E used \in SUBSET {FromFields(fields) : fields \in PublicInputs} :
             /\ \A p, q \in used : p.nullifier = q.nullifier => p = q
             /\ {p.nullifier : p \in used} = nullifiers
             /\ \E paid \in SUBSET used :
                   /\ exited = Sum([p \in paid |-> p.exit_amount])
                   /\ \A p \in used \ paid : p.exit_amount < ED
      BY <2>1 DEF Spent, Publics, Exits
    <2> QED BY <2>1, <2>2, <2>3, <2>4 DEF TokensAccounted, SupplyAccounted
  <1>2. QED
    BY <1>1, DistributionInvariance, PTL

\* The calls that the pallets make never leave the reference counts, the frozen
\* amounts, the issuance or the reserves of the ledger out of step.
THEOREM LedgerKept == DistributionSpec => [](ReferencesAgree /\ IssuanceAgrees /\ ReservesBacked)
  <1>1. DistributionInv => IInv
    BY DEF DistributionInv, LedgerInv
  <1>2. QED
    BY <1>1, DistributionInvariance, SaysReferences, SaysIssuance, SaysReserves, PTL

-----------------------------------------------------------------------------
(* Nothing is paid twice. *)

\* Only for an airdrop that has been created can there be a claim.
ClaimsOK == claimed \subseteq {<<id, a>> : id \in 0 .. nextAirdrop - 1, a \in Users}

(* What has been spent stays spent, a deleted airdrop included, whose number   *)
(* is not given again.                                                         *)
SpentForGood == nullifiers \subseteq nullifiers' /\ claimed \subseteq claimed'

(* An exit takes a new nullifier and a payment of an airdrop a new claim, and  *)
(* a new airdrop has been claimed by nobody.                                   *)
PaidForNew ==
  /\ exited' # exited => nullifiers' # nullifiers
  /\ \A id \in DOMAIN airdrops' :
       IF id \in DOMAIN airdrops
         THEN airdrops'[id].balance < airdrops[id].balance
                => \E a \in Users : <<id, a>> \in claimed' \ claimed
         ELSE \A a \in Users : <<id, a>> \notin claimed'

\* The two by which an airdrop comes and is claimed, and all the others.
LEMMA SpendingStep ==
  ASSUME AirdropsOK, ClaimsOK, [DistributionNext]_allVars
  PROVE  ClaimsOK' /\ [SpentForGood /\ PaidForNew]_allVars
  <1>1. /\ nextAirdrop \in Nat /\ airdrops \in [DOMAIN airdrops -> Airdrop]
        /\ \A id \in DOMAIN airdrops : id \in Nat /\ id < nextAirdrop
    BY DEF AirdropsOK
  <1>2. ASSUME UNCHANGED pots, nullifiers \subseteq nullifiers',
               exited' # exited => nullifiers' # nullifiers
        PROVE  ClaimsOK' /\ SpentForGood /\ PaidForNew
    <2>1. \A id \in DOMAIN airdrops : airdrops[id].balance \in Nat
      BY <1>1 DEF Airdrop
    <2> QED BY <1>2, <2>1 DEF ClaimsOK, SpentForGood, PaidForNew, pots
  <1>3. ASSUME UNCHANGED <<claimed, nextAirdrop, nullifiers, exited>>,
               \A id \in DOMAIN airdrops' :
                 id \in DOMAIN airdrops /\ ~ (airdrops'[id].balance < airdrops[id].balance)
        PROVE  ClaimsOK' /\ SpentForGood /\ PaidForNew
    BY <1>3 DEF ClaimsOK, SpentForGood, PaidForNew
  <1>4. CASE UNCHANGED allVars
    BY <1>4 DEF allVars, pots, ClaimsOK
  <1>5. ASSUME NEW who \in Users, NEW root \in Roots, NEW period \in Periods,
               CreateAirdrop(who, root, period)
        PROVE  ClaimsOK' /\ SpentForGood /\ PaidForNew
    <2> DEFINE d == [root |-> root, creator |-> who, balance |-> 0, period |-> period]
    <2>1. /\ airdrops' = With(airdrops, nextAirdrop, d) /\ nextAirdrop' = nextAirdrop + 1
          /\ claimed' = claimed /\ nullifiers' = nullifiers /\ exited' = exited
      BY <1>5 DEF CreateAirdrop, history
    <2> HIDE DEF d
    <2>2. ClaimsOK'
      BY <1>1, <2>1 DEF ClaimsOK
    <2>3. /\ DOMAIN airdrops' = DOMAIN airdrops \cup {nextAirdrop}
          /\ \A id \in DOMAIN airdrops : airdrops'[id] = airdrops[id]
      BY <1>1, <2>1 DEF With
    <2>4. \A a \in Users : <<nextAirdrop, a>> \notin claimed'
      BY <1>1, <2>1 DEF ClaimsOK
    <2>5. \A id \in DOMAIN airdrops : ~ (airdrops'[id].balance < airdrops[id].balance)
      BY <1>1, <2>3 DEF Airdrop
    <2> QED BY <2>1, <2>2, <2>3, <2>4, <2>5 DEF SpentForGood, PaidForNew
  <1>6. ASSUME NEW a \in Users, NEW id \in DOMAIN airdrops, NEW v \in Amounts, NEW proof \in Proofs,
               Claim(id, a, v, proof)
        PROVE  ClaimsOK' /\ SpentForGood /\ PaidForNew
    <2>1. /\ claimed' = claimed \cup {<<id, a>>} /\ nextAirdrop' = nextAirdrop
          /\ nullifiers' = nullifiers /\ exited' = exited
          /\ airdrops' = [airdrops EXCEPT ![id].balance = Less(@, v)]
          /\ <<id, a>> \notin claimed
      BY <1>6 DEF Claim, ValidateUnsigned
    <2>2. id \in 0 .. nextAirdrop - 1
      BY <1>1
    <2>3. ClaimsOK'
      BY <2>1, <2>2 DEF ClaimsOK
    <2>4. DOMAIN airdrops' = DOMAIN airdrops
          /\ \A i \in DOMAIN airdrops : i # id => ~ (airdrops'[i].balance < airdrops[i].balance)
      BY <1>1, <2>1 DEF Airdrop
    <2>5. <<id, a>> \in claimed' \ claimed
      BY <2>1
    <2> QED BY <2>1, <2>3, <2>4, <2>5 DEF SpentForGood, PaidForNew
  <1>7. ASSUME NEW who \in Users, NEW id \in DOMAIN airdrops, NEW v \in Amounts,
               FundAirdrop(who, id, v)
        PROVE  ClaimsOK' /\ SpentForGood /\ PaidForNew
    <2>1. /\ UNCHANGED <<claimed, nextAirdrop, nullifiers, exited>>
          /\ airdrops' = [airdrops EXCEPT ![id].balance = @ + v]
      BY <1>7 DEF FundAirdrop, history
    <2>2. DOMAIN airdrops' = DOMAIN airdrops
          /\ \A i \in DOMAIN airdrops : ~ (airdrops'[i].balance < airdrops[i].balance)
      BY <1>1, <2>1, ConstantTypes DEF Airdrop
    <2> QED BY <1>3, <2>1, <2>2
  <1>8. ASSUME NEW who \in Users, NEW id \in DOMAIN airdrops, DeleteAirdrop(who, id)
        PROVE  ClaimsOK' /\ SpentForGood /\ PaidForNew
    <2>1. /\ UNCHANGED <<claimed, nextAirdrop, nullifiers, exited>>
          /\ airdrops' = Without(airdrops, id)
      BY <1>8 DEF DeleteAirdrop, history
    <2>2. \A i \in DOMAIN airdrops' : i \in DOMAIN airdrops /\ airdrops'[i] = airdrops[i]
      BY <2>1 DEF Without
    <2>3. \A i \in DOMAIN airdrops : airdrops[i].balance \in Nat
      BY <1>1 DEF Airdrop
    <2> QED BY <1>3, <2>1, <2>2, <2>3
  <1>9. ASSUME NEW fields \in PublicInputs, VerifyWormholeProof(fields)
        PROVE  ClaimsOK' /\ SpentForGood /\ PaidForNew
    <2>1. UNCHANGED pots /\ nullifiers \subseteq nullifiers' /\ nullifiers' # nullifiers
      BY <1>9 DEF VerifyWormholeProof
    <2> QED BY <1>2, <2>1
  <1>10. ASSUME NEW a \in Users, CollectFee(a) \/ Reward(a) \/ MintNewTokens(a) \/ Vest(a)
         PROVE  ClaimsOK' /\ SpentForGood /\ PaidForNew
    <2>1. UNCHANGED pots /\ nullifiers' = nullifiers /\ exited' = exited
      BY <1>10 DEF CollectFee, Reward, MintNewTokens, Vest, history
    <2> QED BY <1>2, <2>1
  <1>11. ASSUME NEW a \in Users, NEW b \in Accounts, NEW v \in Amounts, TransferKeepAlive(a, b, v)
         PROVE  ClaimsOK' /\ SpentForGood /\ PaidForNew
    <2>1. UNCHANGED pots /\ nullifiers' = nullifiers /\ exited' = exited
      BY <1>11 DEF TransferKeepAlive, history
    <2> QED BY <1>2, <2>1
  <1>12. ASSUME NEW who \in Depositors, NEW size \in Sizes,
                NewDeposit(who, size) \/ UpdateDeposit(who, size)
         PROVE  ClaimsOK' /\ SpentForGood /\ PaidForNew
    <2>1. UNCHANGED pots /\ nullifiers' = nullifiers /\ exited' = exited
      BY <1>12 DEF NewDeposit, UpdateDeposit, history
    <2> QED BY <1>2, <2>1
  <1>13. ASSUME NEW who \in Depositors, DropDeposit(who)
         PROVE  ClaimsOK' /\ SpentForGood /\ PaidForNew
    <2>1. UNCHANGED pots /\ nullifiers' = nullifiers /\ exited' = exited
      BY <1>13 DEF DropDeposit, history
    <2> QED BY <1>2, <2>1
  <1>14. QED
    BY <1>4, <1>5, <1>6, <1>7, <1>8, <1>9, <1>10, <1>11, <1>12, <1>13 DEF DistributionNext

\* A nullifier (wormhole) and a claim (merkle-airdrop) are spent for good: delete_airdrop
\* leaves the claims, and NextAirdropId gives no number again.  With every exit and
\* every payment of an airdrop a new one is spent, so that nobody is paid twice and no
\* airdrop starts with the claims of an earlier one.
THEOREM NothingPaidTwice == DistributionSpec => [][SpentForGood /\ PaidForNew]_allVars
  <1>1. DistributionInit => ClaimsOK
    BY DEF DistributionInit, ClaimsOK
  <1>2. DistributionInv => AirdropsOK
    BY DEF DistributionInv
  <1>3. DistributionSpec => []ClaimsOK
    BY <1>1, <1>2, SpendingStep, DistributionInvariance, PTL DEF DistributionSpec
  <1>4. QED
    BY <1>2, <1>3, SpendingStep, DistributionInvariance, PTL DEF DistributionSpec

=============================================================================
