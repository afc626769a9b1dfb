---------------------- MODULE ReversibleTransfersProofs ----------------------
(***************************************************************************)
(* Proofs about ReversibleTransfers, for every set of accounts, every set  *)
(* of amounts, delays and locks, and every value of the limits.            *)
(***************************************************************************)
EXTENDS ReversibleTransfers, FiniteSetTheorems, TLAPS

-----------------------------------------------------------------------------
(* Lemmas on the bookkeeping *)

\* Whatever is paid out of a balance, the rest is a balance.
LEMMA MovedType ==
  ASSUME NEW f \in [Account -> Nat], NEW src \in Account, NEW dest \in Account,
         NEW v \in Nat, f[src] >= v
  PROVE  Moved(f, src, dest, v) \in [Account -> Nat]
  BY ConfigAssumption DEF Moved, Reaped

\* Settling one instance keeps the types.
LEMMA SettleType ==
  ASSUME TypeOK, NEW tx \in TxId, NEW name, Settle(tx, name),
         pending[tx] > 0, held[tx.who] >= tx.amount
  PROVE  /\ pending' \in [TxId -> Nat]
         /\ index' \in [Account -> Nat]
         /\ held' \in [Account -> Nat]
         /\ DOMAIN agenda' = DOMAIN agenda \ {name}
         /\ agenda' \in [DOMAIN agenda' -> Nat]
  <1>1. tx.who \in Account /\ tx.amount \in Nat
    BY ValueAssumption DEF TxId
  <1>2. agenda' = [n \in DOMAIN agenda \ {name} |-> agenda[n]]
    BY DEF Settle
  <1>3. pending' \in [TxId -> Nat] /\ index' \in [Account -> Nat] /\ held' \in [Account -> Nat]
    BY <1>1 DEF Settle, TypeOK
  <1>4. QED
    BY <1>2, <1>3 DEF TypeOK

-----------------------------------------------------------------------------
(* Type correctness *)

\* The genesis state has the right types.
LEMMA InitTypeOK == Init => TypeOK
  BY GenesisAssumption DEF Init, TypeOK

\* Scheduling keeps the types: the hold leaves the minimum free.
LEMMA ScheduleTypeOK ==
  ASSUME TypeOK, NEW who \in Account, NEW dest \in Account, NEW v \in Amount,
         ScheduleTransfer(who, dest, v)
  PROVE  TypeOK'
  <1> DEFINE tx == [who |-> who, dest |-> dest, amount |-> v]
             name == <<tx, pending[tx] + 1>>
  <1>1. tx \in TxId /\ v \in Nat
    BY ValueAssumption DEF TxId
  <1>2. name \in TaskName
    BY <1>1 DEF TypeOK, TaskName
  <1>3. agenda' = [n \in DOMAIN agenda \cup {name} |->
                      IF n = name THEN delay[who] ELSE agenda[n]]
    BY DEF ScheduleTransfer
  <1>4. DOMAIN agenda' \subseteq TaskName /\ agenda' \in [DOMAIN agenda' -> Nat]
    <2> HIDE DEF name
    <2> QED BY <1>2, <1>3 DEF TypeOK
  <1>5. free[who] - v \in Nat
    BY <1>1, ConfigAssumption DEF ScheduleTransfer, CanHold, TypeOK
  <1>6. /\ free' \in [Account -> Nat]
        /\ held' \in [Account -> Nat]
        /\ index' \in [Account -> Nat]
        /\ pending' \in [TxId -> Nat]
    BY <1>1, <1>5 DEF ScheduleTransfer, TypeOK
  <1>7. QED
    BY <1>4, <1>6 DEF ScheduleTransfer, TypeOK, settings

\* Either cancel keeps the types: nothing more is released than is held.
LEMMA CancelTypeOK ==
  ASSUME TypeOK, NEW caller \in Account, NEW tx \in TxId,
         CancelByOwner(caller, tx) \/ CancelByReverser(caller, tx)
  PROVE  TypeOK'
  <1>1. tx.who \in Account /\ tx.amount \in Nat
    BY ValueAssumption DEF TxId
  <1>2. /\ pending[tx] > 0
        /\ held[tx.who] >= tx.amount
        /\ Settle(tx, <<tx, pending[tx]>>)
        /\ UNCHANGED <<frozen, delay, reverser>>
        /\ \E a \in Account : free' = [free EXCEPT ![a] = @ + tx.amount]
    BY <1>1 DEF CancelByOwner, CancelByReverser, CanTransferOnHold, settings
  <1>3. free' \in [Account -> Nat]
    BY <1>1, <1>2 DEF TypeOK
  <1>4. QED
    BY <1>2, <1>3, SettleType DEF TypeOK

\* Executing a task keeps the types: the transfer spends what was released.
LEMMA ExecuteTypeOK ==
  ASSUME TypeOK, NEW name \in DOMAIN agenda, ExecuteTransfer(name)
  PROVE  TypeOK'
  <1> DEFINE tx == name[1]
  <1>1. tx \in TxId /\ tx.who \in Account /\ tx.dest \in Account /\ tx.amount \in Nat
    BY ValueAssumption DEF TypeOK, TaskName, TxId
  <1> DEFINE f == [free EXCEPT ![tx.who] = @ + tx.amount]
  <1>2. f \in [Account -> Nat] /\ f[tx.who] >= tx.amount
    BY <1>1 DEF TypeOK
  <1>3. free' = Moved(f, tx.who, tx.dest, tx.amount)
    BY DEF ExecuteTransfer
  <1>4. free' \in [Account -> Nat]
    <2> HIDE DEF f, tx
    <2> QED BY <1>1, <1>2, <1>3, MovedType
  <1>5. pending[tx] > 0 /\ held[tx.who] >= tx.amount /\ Settle(tx, name)
    BY DEF ExecuteTransfer, CanExecute
  <1>6. UNCHANGED <<frozen, delay, reverser>>
    BY DEF ExecuteTransfer, settings
  <1>7. QED
    <2> HIDE DEF tx
    <2> QED BY <1>1, <1>4, <1>5, <1>6, SettleType DEF TypeOK

\* The payments beside the pallet: direct transfers, and those of other calls.
AnyTransfer(who, dest, v) ==
  \/ TransferAllowDeath(who, dest, v)
  \/ TransferKeepAlive(who, dest, v)
  \/ OtherTransfer(who, dest, v)

\* A payment keeps the types.
LEMMA TransferTypeOK ==
  ASSUME TypeOK, NEW who \in Account, NEW dest \in Account, NEW v \in Amount,
         AnyTransfer(who, dest, v)
  PROVE  TypeOK'
  <1>1. v \in Nat
    BY ValueAssumption
  <1>2. /\ free' = Moved(free, who, dest, v)
        /\ UNCHANGED <<held, delay, reverser, pending, index, agenda>>
    BY DEF AnyTransfer, TransferAllowDeath, TransferKeepAlive, OtherTransfer, settings
  <1>3. free[who] >= v
    BY <1>1, ConfigAssumption DEF AnyTransfer, TransferAllowDeath, TransferKeepAlive,
         OtherTransfer, CanAllowDeath, CanSpend, CanKeepAlive, TypeOK
  <1>4. free' \in [Account -> Nat]
    BY <1>1, <1>2, <1>3, MovedType DEF TypeOK
  <1>5. frozen' \in [Account -> Nat]
    BY ValueAssumption DEF AnyTransfer, TransferAllowDeath, TransferKeepAlive,
       OtherTransfer, TypeOK
  <1>6. QED
    BY <1>2, <1>4, <1>5 DEF TypeOK

\* So does a burn.
LEMMA BurnTypeOK ==
  ASSUME TypeOK, NEW who \in Account, NEW v \in Amount, Burn(who, v)
  PROVE  TypeOK'
  <1>1. v \in Nat /\ free[who] >= v
    BY ValueAssumption DEF Burn, CanSpend
  <1>2. free[who] - v \in Nat /\ Reaped(free[who] - v) \in Nat
    BY <1>1 DEF Reaped, TypeOK
  <1>3. QED
    BY <1>2 DEF Burn, settings, TypeOK

\* Every step keeps the types.
LEMMA NextTypeOK == TypeOK /\ [Next]_vars => TypeOK'
  <1> SUFFICES ASSUME TypeOK, [Next]_vars PROVE TypeOK'
    OBVIOUS
  <1>1. CASE \E who \in Account, d \in Delay, r \in Account \cup {NoAccount} :
               SetReversibility(who, d, r)
    BY <1>1, ValueAssumption DEF SetReversibility, balances, TypeOK
  <1>2. CASE \E who, dest \in Account, v \in Amount : ScheduleTransfer(who, dest, v)
    BY <1>2, ScheduleTypeOK
  <1>3. CASE \E who, dest \in Account, v \in Amount :
               AnyTransfer(who, dest, v)
    BY <1>3, TransferTypeOK
  <1>4. CASE \E caller \in Account, tx \in TxId :
               CancelByOwner(caller, tx) \/ CancelByReverser(caller, tx)
    BY <1>4, CancelTypeOK
  <1>5. CASE \E a \in Account, v \in LockAmount : SetLock(a, v)
    BY <1>5, ValueAssumption DEF SetLock, settings, TypeOK
  <1>6. CASE \E name \in DOMAIN agenda : ExecuteTransfer(name)
    BY <1>6, ExecuteTypeOK
  <1>7. CASE \E name \in DOMAIN agenda : ExecuteFails(name)
    BY <1>7 DEF ExecuteFails, balances, settings, TypeOK
  <1>8. CASE NextBlock
    BY <1>8 DEF NextBlock, Initialized, balances, settings, TypeOK
  <1>9. CASE UNCHANGED vars
    BY <1>9 DEF vars, TypeOK
  <1>10. CASE \E who \in Account, v \in Amount : Burn(who, v)
    BY <1>10, BurnTypeOK
  <1>11. QED
    BY <1>1, <1>2, <1>3, <1>4, <1>5, <1>6, <1>7, <1>8, <1>9, <1>10
       DEF Next, Service, AnyTransfer

(* Balances, counts and the agenda keep their types; no balance underflows.  *)
THEOREM TypeCorrect == Spec => []TypeOK
  BY InitTypeOK, NextTypeOK, PTL DEF Spec

-----------------------------------------------------------------------------
(* What a step does to the books: it opens an instance of a transfer,      *)
(* closes one, uses up a task without closing an instance, or leaves       *)
(* counts, holds and task names alone.                                     *)

Opens(tx) ==
  /\ pending' = [pending EXCEPT ![tx] = @ + 1]
  /\ index[tx.who] < MaxPendingPerAccount
  /\ index' = [index EXCEPT ![tx.who] = @ + 1]
  /\ held' = [held EXCEPT ![tx.who] = @ + tx.amount]
  /\ DOMAIN agenda' = DOMAIN agenda \cup {<<tx, pending[tx] + 1>>}

Closes(tx, name) ==
  /\ pending[tx] > 0
  /\ held[tx.who] >= tx.amount
  /\ name \in DOMAIN agenda /\ name[1] = tx
  /\ Settle(tx, name)

UsesUp(name) ==
  /\ DOMAIN agenda' = DOMAIN agenda \ {name}
  /\ UNCHANGED <<pending, index, held>>

KeepsBooks ==
  /\ DOMAIN agenda' = DOMAIN agenda
  /\ UNCHANGED <<pending, index, held>>

BookStep ==
  \/ \E tx \in TxId : Opens(tx)
  \/ \E tx \in TxId : \E name \in DOMAIN agenda : Closes(tx, name)
  \/ \E name \in DOMAIN agenda : UsesUp(name)
  \/ KeepsBooks

\* Every step has one of the four shapes.
LEMMA StepsKeepBooks == TypeOK /\ [Next]_vars => BookStep
  <1> SUFFICES ASSUME TypeOK, [Next]_vars PROVE BookStep
    OBVIOUS
  <1>1. CASE \E who \in Account, d \in Delay, r \in Account \cup {NoAccount} :
               SetReversibility(who, d, r)
    BY <1>1 DEF SetReversibility, balances, BookStep, KeepsBooks
  <1>2. ASSUME NEW who \in Account, NEW dest \in Account, NEW v \in Amount,
               ScheduleTransfer(who, dest, v)
        PROVE  BookStep
    <2> DEFINE tx == [who |-> who, dest |-> dest, amount |-> v]
    <2>1. tx \in TxId /\ tx.who = who /\ tx.amount = v
      BY DEF TxId
    <2>2. DOMAIN agenda' = DOMAIN agenda \cup {<<tx, pending[tx] + 1>>}
      BY <1>2 DEF ScheduleTransfer
    <2>3. Opens(tx)
      BY <1>2, <2>1, <2>2 DEF ScheduleTransfer, Opens
    <2>4. QED
      BY <2>1, <2>3 DEF BookStep
  <1>3. CASE \E who, dest \in Account, v \in Amount :
               AnyTransfer(who, dest, v)
    BY <1>3 DEF AnyTransfer, TransferAllowDeath, TransferKeepAlive, OtherTransfer, BookStep, KeepsBooks
  <1>4. ASSUME NEW caller \in Account, NEW tx \in TxId,
               CancelByOwner(caller, tx) \/ CancelByReverser(caller, tx)
        PROVE  BookStep
    <2>1. Closes(tx, <<tx, pending[tx]>>)
      BY <1>4 DEF CancelByOwner, CancelByReverser, CanTransferOnHold, Closes
    <2>2. QED
      BY <2>1 DEF BookStep, Closes
  <1>5. CASE \E a \in Account, v \in LockAmount : SetLock(a, v)
    BY <1>5 DEF SetLock, BookStep, KeepsBooks
  <1>6. ASSUME NEW name \in DOMAIN agenda, ExecuteTransfer(name)
        PROVE  BookStep
    <2>1. name[1] \in TxId
      BY DEF TypeOK, TaskName
    <2>2. Closes(name[1], name)
      BY <1>6 DEF ExecuteTransfer, CanExecute, Closes
    <2>3. QED
      BY <2>1, <2>2 DEF BookStep
  <1>7. ASSUME NEW name \in DOMAIN agenda, ExecuteFails(name)
        PROVE  BookStep
    <2>1. UsesUp(name)
      BY <1>7 DEF ExecuteFails, balances, UsesUp
    <2>2. QED
      BY <2>1 DEF BookStep
  <1>8. CASE NextBlock
    BY <1>8 DEF NextBlock, balances, BookStep, KeepsBooks
  <1>9. CASE UNCHANGED vars
    BY <1>9 DEF vars, BookStep, KeepsBooks
  <1>10. CASE \E who \in Account, v \in Amount : Burn(who, v)
    BY <1>10 DEF Burn, BookStep, KeepsBooks
  <1>11. QED
    BY <1>1, <1>2, <1>3, <1>4, <1>5, <1>6, <1>7, <1>8, <1>9, <1>10
       DEF Next, Service, AnyTransfer

-----------------------------------------------------------------------------
(* Instances and units on hold as sets, for any counts p *)

InstancesIn(p, a) ==
  UNION {{tx} \X (1..p[tx]) : tx \in {t \in TxId : t.who = a /\ p[t] > 0}}

UnitsIn(p, a) ==
  UNION {{tx} \X (1..p[tx]) \X (1..tx.amount) :
           tx \in {t \in TxId : t.who = a /\ p[t] > 0}}

Counts == [TxId -> Nat]

\* The instances of a, one by one.
LEMMA InstanceMember ==
  ASSUME NEW p \in Counts, NEW a
  PROVE  /\ InstancesIn(p, a) \subseteq TxId \X Nat
         /\ \A t \in TxId, n \in Nat :
              <<t, n>> \in InstancesIn(p, a) <=> t.who = a /\ 1 <= n /\ n <= p[t]
  BY DEF InstancesIn, Counts

\* The units on hold for a, one by one.
LEMMA UnitMember ==
  ASSUME NEW p \in Counts, NEW a
  PROVE  /\ UnitsIn(p, a) \subseteq TxId \X Nat \X Nat
         /\ \A t \in TxId, n \in Nat, u \in Nat :
              <<t, n, u>> \in UnitsIn(p, a) <=>
                t.who = a /\ 1 <= n /\ n <= p[t] /\ 1 <= u /\ u <= t.amount
  <1>1. \A t \in TxId : t.amount \in Nat
    <2>1. \A t \in TxId : t.amount \in Amount
      BY DEF TxId
    <2>2. QED
      BY <2>1, ValueAssumption
  <1>2. QED
    BY <1>1 DEF UnitsIn, Counts

\* The sets of the properties, as functions of the counts.
LEMMA InstancesAsSets ==
  ASSUME NEW a
  PROVE  /\ Instances(a) = InstancesIn(pending, a)
         /\ UnitsOnHold(a) = UnitsIn(pending, a)
         /\ Instances(a)' = InstancesIn(pending', a)
         /\ UnitsOnHold(a)' = UnitsIn(pending', a)
  BY DEF Instances, UnitsOnHold, PendingOf, InstancesIn, UnitsIn

\* The units of the n-th instance of a transfer.
Layer(tx, n) == {tx} \X {n} \X (1..tx.amount)

\* 1..k has k elements.
LEMMA IntervalSize ==
  ASSUME NEW k \in Nat
  PROVE  IsFiniteSet(1..k) /\ Cardinality(1..k) = k
  <1>1. 1 \in Int /\ k \in Int /\ (1 > k => k = 0) /\ k - 1 + 1 = k
    OBVIOUS
  <1>2. /\ IsFiniteSet(1..k)
        /\ Cardinality(1..k) = IF 1 > k THEN 0 ELSE k - 1 + 1
    BY <1>1, FS_Interval
  <1>3. QED
    BY <1>1, <1>2

\* An instance holds as many units as its amount.
LEMMA LayerSize ==
  ASSUME NEW tx \in TxId, NEW n \in Nat
  PROVE  /\ IsFiniteSet(Layer(tx, n))
         /\ Cardinality(Layer(tx, n)) = tx.amount
  <1> DEFINE f == [u \in 1..tx.amount |-> <<tx, n, u>>]
  <1>1. tx.amount \in Nat
    <2>1. tx.amount \in Amount
      BY DEF TxId
    <2>2. QED
      BY <2>1, ValueAssumption
  <1>2. f \in [1..tx.amount -> Layer(tx, n)]
    BY DEF Layer
  <1>3. IsInjective(f)
    BY DEF IsInjective
  <1>4. \A t \in Layer(tx, n) : \E u \in 1..tx.amount : f[u] = t
    BY DEF Layer
  <1>5. ExistsBijection(1..tx.amount, Layer(tx, n))
    BY <1>2, <1>3, <1>4 DEF ExistsBijection, Bijection, Injection, Surjection
  <1>6. QED
    BY <1>1, <1>5, IntervalSize, FS_Bijection

\* q counts one instance of tx more than p.
OneMore(p, q, tx) ==
  /\ q[tx] = p[tx] + 1
  /\ \A t \in TxId \ {tx} : q[t] = p[t]

\* One more instance is one more element, and one more layer of units.
LEMMA InstancesGrow ==
  ASSUME NEW p \in Counts, NEW q \in Counts, NEW tx \in TxId, OneMore(p, q, tx)
  PROVE  /\ InstancesIn(q, tx.who) = InstancesIn(p, tx.who) \cup {<<tx, p[tx] + 1>>}
         /\ <<tx, p[tx] + 1>> \notin InstancesIn(p, tx.who)
  <1> DEFINE P == InstancesIn(p, tx.who)
             Q == InstancesIn(q, tx.who)
             k == p[tx] + 1
  <1>1. k \in Nat /\ ~(k <= p[tx]) /\ \A n \in Nat : n <= k <=> n <= p[tx] \/ n = k
    BY DEF Counts
  <1>2. /\ P \subseteq TxId \X Nat /\ Q \subseteq TxId \X Nat
        /\ \A t \in TxId, n \in Nat :
             /\ <<t, n>> \in P <=> t.who = tx.who /\ 1 <= n /\ n <= p[t]
             /\ <<t, n>> \in Q <=> t.who = tx.who /\ 1 <= n /\ n <= q[t]
    BY InstanceMember
  <1>3. 1 <= k
    BY DEF Counts
  <1> HIDE DEF P, Q
  <1>4. <<tx, k>> \notin P
    BY <1>1, <1>2
  <1>5. \A t \in TxId, n \in Nat :
          <<t, n>> \in Q <=> <<t, n>> \in P \/ (t = tx /\ n = k)
    BY <1>1, <1>2, <1>3 DEF OneMore
  <1> HIDE DEF k
  <1>6. Q = P \cup {<<tx, k>>}
    BY <1>1, <1>2, <1>5
  <1>7. QED
    BY <1>4, <1>6 DEF P, Q, k

\* One more instance adds its layer of units to those of its account.
LEMMA UnitsGrow ==
  ASSUME NEW p \in Counts, NEW q \in Counts, NEW tx \in TxId, OneMore(p, q, tx)
  PROVE  /\ UnitsIn(q, tx.who) = UnitsIn(p, tx.who) \cup Layer(tx, p[tx] + 1)
         /\ UnitsIn(p, tx.who) \cap Layer(tx, p[tx] + 1) = {}
  <1> DEFINE P == UnitsIn(p, tx.who)
             Q == UnitsIn(q, tx.who)
             k == p[tx] + 1
             L == Layer(tx, k)
  <1>1. k \in Nat /\ 1 <= k /\ ~(k <= p[tx])
        /\ \A n \in Nat : n <= k <=> n <= p[tx] \/ n = k
    BY DEF Counts
  <1>2. /\ P \subseteq TxId \X Nat \X Nat /\ Q \subseteq TxId \X Nat \X Nat
        /\ \A t \in TxId, n \in Nat, u \in Nat :
             /\ <<t, n, u>> \in P <=>
                  t.who = tx.who /\ 1 <= n /\ n <= p[t] /\ 1 <= u /\ u <= t.amount
             /\ <<t, n, u>> \in Q <=>
                  t.who = tx.who /\ 1 <= n /\ n <= q[t] /\ 1 <= u /\ u <= t.amount
    BY UnitMember
  <1>3. tx.amount \in Nat
    <2>1. tx.amount \in Amount
      BY DEF TxId
    <2>2. QED
      BY <2>1, ValueAssumption
  <1>4. /\ L \subseteq TxId \X Nat \X Nat
        /\ \A t \in TxId, n \in Nat, u \in Nat :
             <<t, n, u>> \in L <=> t = tx /\ n = k /\ 1 <= u /\ u <= tx.amount
    <2> HIDE DEF k
    <2> QED BY <1>1, <1>3 DEF Layer
  <1> HIDE DEF P, Q, L
  <1>5. ASSUME NEW t \in TxId, NEW n \in Nat, NEW u \in Nat
        PROVE  /\ <<t, n, u>> \in Q <=> <<t, n, u>> \in P \/ <<t, n, u>> \in L
               /\ ~(<<t, n, u>> \in P /\ <<t, n, u>> \in L)
    <2>1. q[tx] = k /\ (t # tx => q[t] = p[t])
      BY DEF OneMore
    <2> HIDE DEF k
    <2>2. CASE t = tx
      BY <1>1, <1>2, <1>4, <2>1, <2>2
    <2>3. CASE t # tx
      BY <1>2, <1>4, <2>1, <2>3
    <2>4. QED
      BY <2>2, <2>3
  <1> HIDE DEF k
  <1>6. Q = P \cup L /\ P \cap L = {}
    BY <1>2, <1>4, <1>5
  <1>7. QED
    BY <1>6 DEF P, Q, L, k

\* The other accounts' sets stay.
LEMMA OthersKeepSets ==
  ASSUME NEW p \in Counts, NEW q \in Counts, NEW tx \in TxId,
         OneMore(p, q, tx) \/ OneMore(q, p, tx),
         NEW a, a # tx.who
  PROVE  InstancesIn(q, a) = InstancesIn(p, a) /\ UnitsIn(q, a) = UnitsIn(p, a)
  <1>1. {t \in TxId : t.who = a /\ q[t] > 0} = {t \in TxId : t.who = a /\ p[t] > 0}
        /\ \A t \in {x \in TxId : x.who = a /\ p[x] > 0} : p[t] = q[t]
    BY DEF OneMore
  <1>2. QED
    BY <1>1 DEF InstancesIn, UnitsIn

\* The cardinalities that follow. A subset of a finite set is finite, so it is
\* enough that one of the two be.
LEMMA SizesGrow ==
  ASSUME NEW p \in Counts, NEW q \in Counts, NEW tx \in TxId, OneMore(p, q, tx),
         \/ IsFiniteSet(InstancesIn(p, tx.who)) /\ IsFiniteSet(UnitsIn(p, tx.who))
         \/ IsFiniteSet(InstancesIn(q, tx.who)) /\ IsFiniteSet(UnitsIn(q, tx.who))
  PROVE  /\ IsFiniteSet(InstancesIn(p, tx.who)) /\ IsFiniteSet(UnitsIn(p, tx.who))
         /\ IsFiniteSet(InstancesIn(q, tx.who)) /\ IsFiniteSet(UnitsIn(q, tx.who))
         /\ Cardinality(InstancesIn(q, tx.who)) = Cardinality(InstancesIn(p, tx.who)) + 1
         /\ Cardinality(UnitsIn(q, tx.who)) = Cardinality(UnitsIn(p, tx.who)) + tx.amount
  <1> DEFINE P == InstancesIn(p, tx.who)
             Q == InstancesIn(q, tx.who)
             PU == UnitsIn(p, tx.who)
             QU == UnitsIn(q, tx.who)
             x == <<tx, p[tx] + 1>>
             L == Layer(tx, p[tx] + 1)
  <1>1. /\ Q = P \cup {x} /\ x \notin P
        /\ QU = PU \cup L /\ PU \cap L = {}
    BY InstancesGrow, UnitsGrow
  <1>2. IsFiniteSet(L) /\ Cardinality(L) = tx.amount
    BY LayerSize DEF Counts
  <1>3. tx.amount \in Nat
    BY <1>2, FS_CardinalityType
  <1>4. \/ IsFiniteSet(P) /\ IsFiniteSet(PU)
        \/ IsFiniteSet(Q) /\ IsFiniteSet(QU)
    OBVIOUS
  <1> HIDE DEF P, Q, PU, QU, x, L
  <1>5. IsFiniteSet(P) /\ IsFiniteSet(PU)
    BY <1>1, <1>4, FS_Subset
  <1>6. IsFiniteSet(Q) /\ Cardinality(Q) = Cardinality(P) + 1
    BY <1>1, <1>5, FS_AddElement
  <1>7. /\ IsFiniteSet(QU)
        /\ Cardinality(QU) = Cardinality(PU) + Cardinality(L) - Cardinality(PU \cap L)
    BY <1>1, <1>2, <1>5, FS_Union
  <1>8. Cardinality(PU) \in Nat /\ Cardinality(PU \cap L) = 0
    BY <1>1, <1>5, FS_CardinalityType, FS_EmptySet
  <1>9. Cardinality(QU) = Cardinality(PU) + tx.amount
    BY <1>2, <1>3, <1>7, <1>8
  <1>10. QED
    BY <1>5, <1>6, <1>7, <1>9 DEF P, Q, PU, QU

-----------------------------------------------------------------------------
(* The books balance *)

\* The inductive invariant: HeldIsPending, IndexIsPending and TasksBacked do not
\* need each other, but each needs the sets it counts to be finite.
BooksInv ==
  /\ TypeOK
  /\ IsFiniteSet(DOMAIN agenda)
  /\ \A a \in Account : IsFiniteSet(Instances(a)) /\ IsFiniteSet(UnitsOnHold(a))
  /\ HeldIsPending
  /\ IndexIsPending
  /\ TasksBacked

\* The books are in order in the genesis block.
LEMMA InitBooks == Init => BooksInv
  <1> SUFFICES ASSUME Init PROVE BooksInv
    OBVIOUS
  <1>1. TypeOK
    BY InitTypeOK
  <1>2. DOMAIN agenda = {}
    BY DEF Init
  <1>3. \A a \in Account : Instances(a) = {} /\ UnitsOnHold(a) = {}
    BY DEF Init, Instances, UnitsOnHold, PendingOf
  <1>4. \A tx \in TxId : NamesOf(tx) = {} /\ pending[tx] = 0
    BY <1>2 DEF Init, NamesOf
  <1>5. \A a \in Account : held[a] = 0 /\ index[a] = 0
    BY DEF Init
  <1>6. IsFiniteSet({}) /\ Cardinality({}) = 0
    BY FS_EmptySet
  <1>7. HeldIsPending
    BY <1>3, <1>5, <1>6 DEF HeldIsPending
  <1>8. IndexIsPending
    BY <1>3, <1>5, <1>6, ConfigAssumption DEF IndexIsPending
  <1>9. TasksBacked
    BY <1>4, <1>6 DEF TasksBacked
  <1>10. QED
    BY <1>1, <1>2, <1>3, <1>6, <1>7, <1>8, <1>9 DEF BooksInv

\* A transfer has finitely many tasks.
LEMMA NamesFinite ==
  ASSUME IsFiniteSet(DOMAIN agenda), NEW tx
  PROVE  IsFiniteSet(NamesOf(tx)) /\ Cardinality(NamesOf(tx)) \in Nat
  BY FS_Subset, FS_CardinalityType DEF NamesOf

\* A step that opens an instance keeps the books in order.
LEMMA OpensKeepsBooks ==
  ASSUME BooksInv, TypeOK', NEW tx \in TxId, Opens(tx)
  PROVE  BooksInv'
  <1>1. pending \in Counts /\ pending' \in Counts /\ tx.who \in Account
    BY DEF BooksInv, TypeOK, Counts, TxId
  <1>2. OneMore(pending, pending', tx)
    BY <1>1 DEF Opens, OneMore, Counts
  <1>3. /\ IsFiniteSet(Instances(tx.who)') /\ IsFiniteSet(UnitsOnHold(tx.who)')
        /\ Cardinality(Instances(tx.who)') = Cardinality(Instances(tx.who)) + 1
        /\ Cardinality(UnitsOnHold(tx.who)') = Cardinality(UnitsOnHold(tx.who)) + tx.amount
    BY <1>1, <1>2, SizesGrow, InstancesAsSets DEF BooksInv
  <1>4. \A a \in Account \ {tx.who} :
          Instances(a)' = Instances(a) /\ UnitsOnHold(a)' = UnitsOnHold(a)
    BY <1>1, <1>2, OthersKeepSets, InstancesAsSets
  <1>5. \A a \in Account : IsFiniteSet(Instances(a)') /\ IsFiniteSet(UnitsOnHold(a)')
    BY <1>3, <1>4 DEF BooksInv
  <1>6. HeldIsPending'
    <2>1. \A a \in Account : held'[a] = IF a = tx.who THEN held[a] + tx.amount ELSE held[a]
      BY <1>1 DEF Opens, BooksInv, TypeOK
    <2>2. QED
      BY <1>3, <1>4, <2>1 DEF BooksInv, HeldIsPending
  <1>7. IndexIsPending'
    <2>1. \A a \in Account : index'[a] = IF a = tx.who THEN index[a] + 1 ELSE index[a]
      BY <1>1 DEF Opens, BooksInv, TypeOK
    <2>2. index[tx.who] + 1 <= MaxPendingPerAccount
      BY <1>1, ConfigAssumption DEF Opens, BooksInv, TypeOK
    <2>3. QED
      BY <1>3, <1>4, <2>1, <2>2 DEF BooksInv, IndexIsPending
  <1>8. TasksBacked' /\ IsFiniteSet(DOMAIN agenda')
    <2> DEFINE x == <<tx, pending[tx] + 1>>
    <2>1. DOMAIN agenda' = DOMAIN agenda \cup {x} /\ x[1] = tx
      BY DEF Opens
    <2> HIDE DEF x
    <2>2. IsFiniteSet(DOMAIN agenda')
      BY <2>1, FS_AddElement DEF BooksInv
    <2>3. NamesOf(tx)' = NamesOf(tx) \cup {x}
          /\ \A t \in TxId \ {tx} : NamesOf(t)' = NamesOf(t)
      BY <2>1 DEF NamesOf
    <2>4. Cardinality(NamesOf(tx)') <= Cardinality(NamesOf(tx)) + 1
      <3>1. IsFiniteSet(NamesOf(tx)) /\ Cardinality(NamesOf(tx)) \in Nat
        BY NamesFinite DEF BooksInv
      <3>2. Cardinality(NamesOf(tx) \cup {x}) =
              IF x \in NamesOf(tx) THEN Cardinality(NamesOf(tx))
                                  ELSE Cardinality(NamesOf(tx)) + 1
        BY <3>1, FS_AddElement
      <3>3. QED
        BY <2>3, <3>1, <3>2
    <2>5. Cardinality(NamesOf(tx)') \in Nat
      BY <2>3, NamesFinite, FS_AddElement, FS_CardinalityType DEF BooksInv
    <2>6. \A t \in TxId : pending'[t] = IF t = tx THEN pending[t] + 1 ELSE pending[t]
      BY <1>1 DEF Opens, Counts
    <2>7. ASSUME NEW t \in TxId PROVE Cardinality(NamesOf(t)') <= pending'[t]
      <3>1. Cardinality(NamesOf(t)) \in Nat /\ Cardinality(NamesOf(t)) <= pending[t]
            /\ pending[t] \in Nat
        BY <1>1, NamesFinite DEF BooksInv, TasksBacked, Counts
      <3>2. CASE t = tx
        BY <2>4, <2>5, <2>6, <3>1, <3>2
      <3>3. CASE t # tx
        BY <2>3, <2>6, <3>1, <3>3
      <3>4. QED
        BY <3>2, <3>3
    <2>8. QED
      BY <2>2, <2>7 DEF TasksBacked
  <1>9. QED
    BY <1>5, <1>6, <1>7, <1>8 DEF BooksInv

\* So does one that closes an instance with its task,
LEMMA ClosesKeepsBooks ==
  ASSUME BooksInv, TypeOK', NEW tx \in TxId, NEW name \in DOMAIN agenda,
         Closes(tx, name)
  PROVE  BooksInv'
  <1>1. pending \in Counts /\ pending' \in Counts /\ tx.who \in Account
    BY DEF BooksInv, TypeOK, Counts, TxId
  <1>2. OneMore(pending', pending, tx)
    BY <1>1 DEF Closes, Settle, OneMore, Counts
  <1>3. /\ IsFiniteSet(Instances(tx.who)') /\ IsFiniteSet(UnitsOnHold(tx.who)')
        /\ Cardinality(Instances(tx.who)) = Cardinality(Instances(tx.who)') + 1
        /\ Cardinality(UnitsOnHold(tx.who)) = Cardinality(UnitsOnHold(tx.who)') + tx.amount
    BY <1>1, <1>2, SizesGrow, InstancesAsSets DEF BooksInv
  <1>4. \A a \in Account \ {tx.who} :
          Instances(a)' = Instances(a) /\ UnitsOnHold(a)' = UnitsOnHold(a)
    BY <1>1, <1>2, OthersKeepSets, InstancesAsSets
  <1>5. \A a \in Account : IsFiniteSet(Instances(a)') /\ IsFiniteSet(UnitsOnHold(a)')
    BY <1>3, <1>4 DEF BooksInv
  <1>6. Cardinality(Instances(tx.who)') \in Nat /\ Cardinality(UnitsOnHold(tx.who)') \in Nat
    BY <1>3, FS_CardinalityType
  <1>7. tx.amount \in Nat
    BY LayerSize, FS_CardinalityType
  <1>8. HeldIsPending'
    <2>1. \A a \in Account : held'[a] = IF a = tx.who THEN held[a] - tx.amount ELSE held[a]
      BY <1>1 DEF Closes, Settle, BooksInv, TypeOK
    <2>2. QED
      BY <1>1, <1>3, <1>4, <1>6, <1>7, <2>1 DEF BooksInv, HeldIsPending
  <1>9. IndexIsPending'
    <2>1. index[tx.who] = Cardinality(Instances(tx.who)') + 1
      BY <1>1, <1>3 DEF BooksInv, IndexIsPending
    <2>2. \A a \in Account : index'[a] = IF a = tx.who THEN index[a] - 1 ELSE index[a]
      BY <1>1, <1>6, <2>1 DEF Closes, Settle, BooksInv, TypeOK
    <2>3. QED
      BY <1>1, <1>3, <1>4, <1>6, <2>1, <2>2, ConfigAssumption DEF BooksInv, IndexIsPending
  <1>10. TasksBacked' /\ IsFiniteSet(DOMAIN agenda')
    <2>1. DOMAIN agenda' = DOMAIN agenda \ {name} /\ name[1] = tx
      BY DEF Closes, Settle
    <2>2. IsFiniteSet(DOMAIN agenda')
      BY <2>1, FS_RemoveElement DEF BooksInv
    <2>3. NamesOf(tx)' = NamesOf(tx) \ {name} /\ name \in NamesOf(tx)
          /\ \A t \in TxId \ {tx} : NamesOf(t)' = NamesOf(t)
      BY <2>1 DEF NamesOf
    <2>4. Cardinality(NamesOf(tx)') = Cardinality(NamesOf(tx)) - 1
      BY <2>3, NamesFinite, FS_RemoveElement DEF BooksInv
    <2>5. \A t \in TxId : pending'[t] = IF t = tx THEN pending[t] - 1 ELSE pending[t]
      BY <1>1 DEF Closes, Settle, Counts
    <2>6. ASSUME NEW t \in TxId PROVE Cardinality(NamesOf(t)') <= pending'[t]
      <3>1. Cardinality(NamesOf(t)) \in Nat /\ Cardinality(NamesOf(t)) <= pending[t]
            /\ pending[t] \in Nat
        BY <1>1, NamesFinite DEF BooksInv, TasksBacked, Counts
      <3>2. CASE t = tx
        BY <2>4, <2>5, <3>1, <3>2
      <3>3. CASE t # tx
        BY <2>3, <2>5, <3>1, <3>3
      <3>4. QED
        BY <3>2, <3>3
    <2>7. QED
      BY <2>2, <2>6 DEF TasksBacked
  <1>11. QED
    BY <1>5, <1>8, <1>9, <1>10 DEF BooksInv

\* one that leaves counts and holds alone,
LEMMA UnchangedBooks ==
  ASSUME BooksInv, TypeOK', UNCHANGED <<pending, index, held>>,
         IsFiniteSet(DOMAIN agenda'), TasksBacked'
  PROVE  BooksInv'
  BY DEF BooksInv, Instances, UnitsOnHold, PendingOf, HeldIsPending, IndexIsPending

\* and one that uses up a task whose transfer stays pending.
LEMMA UsesUpKeepsBooks ==
  ASSUME BooksInv, TypeOK', NEW name \in DOMAIN agenda, UsesUp(name)
  PROVE  BooksInv'
  <1>1. IsFiniteSet(DOMAIN agenda')
    BY FS_RemoveElement DEF BooksInv, UsesUp
  <1>2. ASSUME NEW t \in TxId PROVE Cardinality(NamesOf(t)') <= pending'[t]
    <2>1. NamesOf(t)' \subseteq NamesOf(t)
      BY DEF UsesUp, NamesOf
    <2>2. /\ Cardinality(NamesOf(t)') <= Cardinality(NamesOf(t))
          /\ Cardinality(NamesOf(t)) \in Nat /\ Cardinality(NamesOf(t)') \in Nat
      BY <2>1, NamesFinite, FS_Subset, FS_CardinalityType DEF BooksInv
    <2>3. Cardinality(NamesOf(t)) <= pending[t] /\ pending'[t] = pending[t] /\ pending[t] \in Nat
      BY DEF BooksInv, TasksBacked, UsesUp, TypeOK
    <2>4. QED
      BY <2>2, <2>3
  <1>3. TasksBacked'
    BY <1>2 DEF TasksBacked
  <1>4. QED
    BY <1>1, <1>3, UnchangedBooks DEF UsesUp

\* Hence the books are inductive.
LEMMA NextBooks == BooksInv /\ [Next]_vars => BooksInv'
  <1> SUFFICES ASSUME BooksInv, [Next]_vars PROVE BooksInv'
    OBVIOUS
  <1>1. TypeOK' /\ BookStep
    BY NextTypeOK, StepsKeepBooks DEF BooksInv
  <1>2. CASE \E tx \in TxId : Opens(tx)
    BY <1>1, <1>2, OpensKeepsBooks
  <1>3. CASE \E tx \in TxId : \E name \in DOMAIN agenda : Closes(tx, name)
    BY <1>1, <1>3, ClosesKeepsBooks
  <1>4. CASE \E name \in DOMAIN agenda : UsesUp(name)
    BY <1>1, <1>4, UsesUpKeepsBooks
  <1>5. CASE KeepsBooks
    <2>1. IsFiniteSet(DOMAIN agenda') /\ TasksBacked'
      BY <1>5 DEF KeepsBooks, BooksInv, TasksBacked, NamesOf
    <2>2. QED
      BY <1>1, <1>5, <2>1, UnchangedBooks DEF KeepsBooks
  <1>6. QED
    BY <1>1, <1>2, <1>3, <1>4, <1>5 DEF BookStep

(* For every account, what it has on hold is the sum of its pending          *)
(* transfers, instance by instance.                                          *)
THEOREM HeldIsAlwaysPending == Spec => []HeldIsPending
  BY InitBooks, NextBooks, PTL DEF Spec, BooksInv

(* AccountPendingIndex is the number of pending instances, never above the   *)
(* limit.                                                                    *)
THEOREM IndexIsAlwaysPending == Spec => []IndexIsPending
  BY InitBooks, NextBooks, PTL DEF Spec, BooksInv

(* No task is ever serviced that has no pending instance behind it.          *)
THEOREM TasksAlwaysBacked == Spec => []TasksBacked
  BY InitBooks, NextBooks, PTL DEF Spec, BooksInv

-----------------------------------------------------------------------------
(* Where the funds go *)

\* What a cancel does, whoever may call it.
LEMMA CancelFacts ==
  ASSUME TypeOK, NEW caller \in Account, NEW tx \in TxId,
         CancelByOwner(caller, tx) \/ CancelByReverser(caller, tx)
  PROVE  LET name == <<tx, pending[tx]>>
         IN  /\ tx.who \in Account /\ tx.amount \in Nat
             /\ name \in DOMAIN agenda \ DOMAIN agenda' /\ agenda[name] # 0
             /\ caller = Beneficiary(tx.who)
             /\ held[tx.who] >= tx.amount
             /\ \A a \in Account : held'[a] = held[a] - (IF a = tx.who THEN tx.amount ELSE 0)
             /\ \A a \in Account : free'[a] = free[a] + (IF a = caller THEN tx.amount ELSE 0)
             /\ caller # tx.who => Total(tx.who) - tx.amount >= frozen[tx.who]
  <1>1. tx.who \in Account /\ tx.amount \in Nat
    BY LayerSize, FS_CardinalityType DEF TxId
  <1> DEFINE name == <<tx, pending[tx]>>
  <1>2. /\ Initialized
        /\ name \in DOMAIN agenda
        /\ Settle(tx, name)
        /\ free' = [free EXCEPT ![caller] = @ + tx.amount]
        /\ held[tx.who] >= tx.amount
    BY DEF CancelByOwner, CancelByReverser, CanTransferOnHold
  <1>3. name \in DOMAIN agenda \ DOMAIN agenda' /\ agenda[name] # 0
    <2> HIDE DEF name
    <2> QED BY <1>2 DEF Initialized, Settle, TypeOK
  <1>4. caller = Beneficiary(tx.who)
    BY AccountAssumption DEF CancelByOwner, CancelByReverser, Beneficiary
  <1>5. \A a \in Account : held'[a] = held[a] - (IF a = tx.who THEN tx.amount ELSE 0)
    BY <1>1, <1>2 DEF Settle, TypeOK
  <1>6. \A a \in Account : free'[a] = free[a] + (IF a = caller THEN tx.amount ELSE 0)
    BY <1>1, <1>2 DEF TypeOK
  <1>7. caller # tx.who => Total(tx.who) - tx.amount >= frozen[tx.who]
    BY <1>1 DEF CancelByOwner, CancelByReverser, CanTransferOnHold, Total, TypeOK
  <1>8. QED
    BY <1>1, <1>2, <1>3, <1>4, <1>5, <1>6, <1>7

\* What an execution does: release and transfer add up to moving the hold.
LEMMA ExecuteFacts ==
  ASSUME TypeOK, NEW name \in DOMAIN agenda, ExecuteTransfer(name),
         NEW tx, tx = name[1]
  PROVE  /\ tx.who \in Account /\ tx.dest \in Account /\ tx.amount \in Nat
         /\ name \in DOMAIN agenda \ DOMAIN agenda' /\ agenda[name] = 0
         /\ held[tx.who] >= tx.amount
         /\ \A a \in Account : held'[a] = held[a] - (IF a = tx.who THEN tx.amount ELSE 0)
         /\ \A a \in Account : free'[a] = free[a] + (IF a = tx.dest THEN tx.amount ELSE 0)
         /\ free[tx.who] >= ExistentialDeposit
         /\ Total(tx.who) - tx.amount >= frozen[tx.who]
  <1>1. tx \in TxId
    BY DEF TypeOK, TaskName
  <1>2. tx.who \in Account /\ tx.dest \in Account /\ tx.amount \in Nat
    BY <1>1, LayerSize, FS_CardinalityType DEF TxId
  <1>3. CanExecute(tx) /\ Settle(tx, name) /\ agenda[name] = 0
    BY DEF ExecuteTransfer
  <1>4. name \in DOMAIN agenda \ DOMAIN agenda' /\ held[tx.who] >= tx.amount
    BY <1>3 DEF Settle, CanExecute
  <1>5. \A a \in Account : held'[a] = held[a] - (IF a = tx.who THEN tx.amount ELSE 0)
    BY <1>2, <1>3 DEF Settle, TypeOK
  <1> DEFINE f == [free EXCEPT ![tx.who] = @ + tx.amount]
             h == [held EXCEPT ![tx.who] = @ - tx.amount]
  <1>6. /\ f \in [Account -> Nat]
        /\ \A a \in Account : f[a] = free[a] + (IF a = tx.who THEN tx.amount ELSE 0)
        /\ h[tx.who] = held[tx.who] - tx.amount
    BY <1>2 DEF TypeOK
  <1>7. CanKeepAlive(f, h, tx.who, tx.dest, tx.amount)
    BY <1>3 DEF CanExecute
  <1>8. free' = Moved(f, tx.who, tx.dest, tx.amount)
    BY DEF ExecuteTransfer
  <1> HIDE DEF f, h
  <1>9. /\ f[tx.who] - tx.amount = free[tx.who]
        /\ free[tx.who] >= ExistentialDeposit
        /\ free[tx.who] + h[tx.who] >= frozen[tx.who]
    BY <1>2, <1>6, <1>7, ConfigAssumption DEF CanKeepAlive, TypeOK
  <1>10. Reaped(f[tx.who] - tx.amount) = free[tx.who]
    BY <1>2, <1>9, ConfigAssumption DEF Reaped, TypeOK
  <1>11. \A a \in Account : free'[a] = free[a] + (IF a = tx.dest THEN tx.amount ELSE 0)
    <2>1. CASE tx.who = tx.dest
      BY <1>6, <1>8, <2>1 DEF Moved
    <2>2. CASE tx.who # tx.dest
      <3>1. free' = [f EXCEPT ![tx.who] = free[tx.who], ![tx.dest] = f[tx.dest] + tx.amount]
        BY <1>2, <1>6, <1>8, <1>10, <2>2 DEF Moved
      <3>2. QED
        BY <1>2, <1>6, <2>2, <3>1 DEF TypeOK
    <2>3. QED
      BY <2>1, <2>2
  <1>12. Total(tx.who) - tx.amount >= frozen[tx.who]
    BY <1>2, <1>4, <1>6, <1>9 DEF Total, TypeOK
  <1>13. QED
    BY <1>2, <1>3, <1>4, <1>5, <1>9, <1>11, <1>12

\* What a payment beside the pallet does.
LEMMA TransferFacts ==
  ASSUME TypeOK, NEW who \in Account, NEW dest \in Account, NEW v \in Amount,
         AnyTransfer(who, dest, v)
  PROVE  /\ v \in Nat /\ free[who] >= v
         /\ held' = held
         /\ who = dest => free' = free
         /\ who # dest =>
              /\ free'[who] = Reaped(free[who] - v)
              /\ free'[dest] = free[dest] + v
              /\ \A a \in Account \ {who, dest} : free'[a] = free[a]
         /\ Total(who) - v >= frozen[who]
         /\ held[who] > 0 \/ frozen[who] > 0 => free[who] - v >= ExistentialDeposit
  <1>1. v \in Nat
    BY ValueAssumption
  <1>2. free' = Moved(free, who, dest, v) /\ held' = held
    BY DEF AnyTransfer, TransferAllowDeath, TransferKeepAlive, OtherTransfer
  <1>3. CanSpend(who, v) \/ CanKeepAlive(free, held, who, dest, v)
    BY DEF AnyTransfer, TransferAllowDeath, TransferKeepAlive, OtherTransfer, CanAllowDeath
  <1>4. free[who] >= v /\ Total(who) - v >= frozen[who]
    BY <1>1, <1>3, ConfigAssumption DEF CanSpend, CanKeepAlive, Total, TypeOK
  <1>5. held[who] > 0 \/ frozen[who] > 0 => free[who] - v >= ExistentialDeposit
    BY <1>1, <1>3, ConfigAssumption DEF CanSpend, CanKeepAlive, HasConsumer, TypeOK
  <1>6. QED
    BY <1>1, <1>2, <1>4, <1>5 DEF Moved, TypeOK

\* What a burn does.
LEMMA BurnFacts ==
  ASSUME TypeOK, NEW who \in Account, NEW v \in Amount, Burn(who, v)
  PROVE  /\ v \in Nat /\ free[who] >= v
         /\ held' = held
         /\ free'[who] = Reaped(free[who] - v)
         /\ \A a \in Account \ {who} : free'[a] = free[a]
         /\ Total(who) - v >= frozen[who]
         /\ held[who] > 0 \/ frozen[who] > 0 => free[who] - v >= ExistentialDeposit
  <1>1. v \in Nat
    BY ValueAssumption
  <1>2. CanSpend(who, v) /\ held' = held /\ free' = [free EXCEPT ![who] = Reaped(@ - v)]
    BY DEF Burn
  <1>3. /\ free'[who] = Reaped(free[who] - v)
        /\ \A a \in Account \ {who} : free'[a] = free[a]
    BY <1>2 DEF TypeOK
  <1>4. free[who] >= v /\ Total(who) - v >= frozen[who]
    BY <1>2 DEF CanSpend
  <1>5. held[who] > 0 \/ frozen[who] > 0 => free[who] - v >= ExistentialDeposit
    BY <1>1, <1>2, ConfigAssumption DEF CanSpend, HasConsumer, TypeOK
  <1>6. QED
    BY <1>1, <1>2, <1>3, <1>4, <1>5

\* Scheduling puts part of the free balance on hold.
LEMMA ScheduleFacts ==
  ASSUME TypeOK, NEW who \in Account, NEW dest \in Account, NEW v \in Amount,
         ScheduleTransfer(who, dest, v)
  PROVE  /\ v \in Nat
         /\ free[who] >= v + ExistentialDeposit
         /\ \A a \in Account : free'[a] = free[a] - (IF a = who THEN v ELSE 0)
         /\ \A a \in Account : held'[a] = held[a] + (IF a = who THEN v ELSE 0)
  <1>1. v \in Nat
    BY ValueAssumption
  <1>2. QED
    BY <1>1 DEF ScheduleTransfer, CanHold, TypeOK

\* The steps that touch a balance.
LEMMA BalanceSteps ==
  ASSUME [Next]_vars
  PROVE  \/ free' = free /\ held' = held
         \/ \E who, dest \in Account, v \in Amount :
              \/ ScheduleTransfer(who, dest, v)
              \/ AnyTransfer(who, dest, v)
         \/ \E who \in Account, v \in Amount : Burn(who, v)
         \/ \E caller \in Account, tx \in TxId :
              CancelByOwner(caller, tx) \/ CancelByReverser(caller, tx)
         \/ \E name \in DOMAIN agenda : ExecuteTransfer(name)
  BY DEF Next, Service, vars, SetReversibility, SetLock, ExecuteFails, NextBlock, balances,
         AnyTransfer

\* A cancel moves the hold to whoever may cancel.
LEMMA CancelMoves ==
  ASSUME TypeOK, NEW caller \in Account, NEW tx \in TxId,
         CancelByOwner(caller, tx) \/ CancelByReverser(caller, tx)
  PROVE  TaskMoved(tx.who, tx.amount)
  <1> DEFINE name == <<tx, pending[tx]>>
  <1>1. /\ name \in DOMAIN agenda \ DOMAIN agenda' /\ agenda[name] # 0
        /\ caller = Beneficiary(tx.who)
        /\ Received(caller, tx.amount)
    BY CancelFacts DEF Received
  <1>2. name[1] = tx
    OBVIOUS
  <1>3. QED
    BY <1>1, <1>2 DEF TaskMoved

\* An execution moves the hold to the destination.
LEMMA ExecuteMoves ==
  ASSUME TypeOK, NEW name \in DOMAIN agenda, ExecuteTransfer(name)
  PROVE  TaskMoved(name[1].who, name[1].amount)
  <1> DEFINE tx == name[1]
  <1>1. /\ name \in DOMAIN agenda \ DOMAIN agenda' /\ agenda[name] = 0
        /\ Received(tx.dest, tx.amount)
    BY ExecuteFacts DEF Received
  <1>2. QED
    BY <1>1 DEF TaskMoved

\* Holds shrink by one cancelled or executed transfer.
LEMMA HoldStepHolds == TypeOK /\ [Next]_vars => HoldStep
  <1> SUFFICES ASSUME TypeOK, [Next]_vars, NEW a \in Account, held'[a] < held[a]
               PROVE  TaskMoved(a, held[a] - held'[a])
    BY DEF HoldStep
  <1>1. CASE held' = held
    BY <1>1 DEF TypeOK
  <1>2. ASSUME NEW who \in Account, NEW dest \in Account, NEW v \in Amount,
               ScheduleTransfer(who, dest, v)
        PROVE  FALSE
    BY <1>2, ScheduleFacts DEF TypeOK
  <1>3. ASSUME NEW caller \in Account, NEW tx \in TxId,
               CancelByOwner(caller, tx) \/ CancelByReverser(caller, tx)
        PROVE  TaskMoved(a, held[a] - held'[a])
    <2>1. /\ tx.amount \in Nat
          /\ held'[a] = held[a] - (IF a = tx.who THEN tx.amount ELSE 0)
      BY <1>3, CancelFacts
    <2>2. a = tx.who /\ held[a] - held'[a] = tx.amount
      BY <2>1 DEF TypeOK
    <2>3. QED
      BY <1>3, <2>2, CancelMoves
  <1>4. ASSUME NEW name \in DOMAIN agenda, ExecuteTransfer(name)
        PROVE  TaskMoved(a, held[a] - held'[a])
    <2> DEFINE tx == name[1]
    <2>1. /\ tx.amount \in Nat
          /\ held'[a] = held[a] - (IF a = tx.who THEN tx.amount ELSE 0)
      BY <1>4, ExecuteFacts
    <2>2. a = tx.who /\ held[a] - held'[a] = tx.amount
      BY <2>1 DEF TypeOK
    <2>3. QED
      BY <1>4, <2>2, ExecuteMoves
  <1>5. CASE \E who, dest \in Account, v \in Amount :
               AnyTransfer(who, dest, v)
    BY <1>1, <1>5, TransferFacts
  <1>6. CASE \E who \in Account, v \in Amount : Burn(who, v)
    BY <1>1, <1>6, BurnFacts
  <1>7. QED
    BY <1>1, <1>2, <1>3, <1>4, <1>5, <1>6, BalanceSteps

\* No step takes a total below the lock.
LEMMA LockStepHolds == TypeOK /\ [Next]_vars => LockStep
  <1> SUFFICES ASSUME TypeOK, [Next]_vars, NEW a \in Account, Total(a)' < Total(a)
               PROVE  Total(a)' >= frozen[a]
    BY DEF LockStep
  <1>0. Total(a) = free[a] + held[a] /\ Total(a)' = free'[a] + held'[a]
        /\ free[a] \in Nat /\ held[a] \in Nat /\ frozen[a] \in Nat
    BY DEF Total, TypeOK
  <1>1. CASE free' = free /\ held' = held
    BY <1>0, <1>1
  <1>2. ASSUME NEW who \in Account, NEW dest \in Account, NEW v \in Amount,
               ScheduleTransfer(who, dest, v)
        PROVE  FALSE
    BY <1>0, <1>2, ScheduleFacts
  <1>3. ASSUME NEW caller \in Account, NEW tx \in TxId,
               CancelByOwner(caller, tx) \/ CancelByReverser(caller, tx)
        PROVE  Total(a)' >= frozen[a]
    <2>1. /\ tx.amount \in Nat
          /\ held'[a] = held[a] - (IF a = tx.who THEN tx.amount ELSE 0)
          /\ free'[a] = free[a] + (IF a = caller THEN tx.amount ELSE 0)
          /\ caller # tx.who => Total(tx.who) - tx.amount >= frozen[tx.who]
      BY <1>3, CancelFacts
    <2>2. a = tx.who /\ a # caller
      BY <1>0, <2>1
    <2>3. QED
      BY <1>0, <2>1, <2>2
  <1>4. ASSUME NEW name \in DOMAIN agenda, ExecuteTransfer(name)
        PROVE  Total(a)' >= frozen[a]
    <2> DEFINE tx == name[1]
    <2>1. /\ tx.amount \in Nat
          /\ held'[a] = held[a] - (IF a = tx.who THEN tx.amount ELSE 0)
          /\ free'[a] = free[a] + (IF a = tx.dest THEN tx.amount ELSE 0)
          /\ Total(tx.who) - tx.amount >= frozen[tx.who]
      BY <1>4, ExecuteFacts
    <2> HIDE DEF tx
    <2>2. a = tx.who /\ a # tx.dest
      BY <1>0, <2>1
    <2>3. QED
      BY <1>0, <2>1, <2>2
  <1>5. ASSUME NEW who \in Account, NEW dest \in Account, NEW v \in Amount,
               AnyTransfer(who, dest, v)
        PROVE  Total(a)' >= frozen[a]
    <2>1. /\ v \in Nat /\ held' = held /\ free[who] >= v
          /\ (who = dest => free' = free)
          /\ (who # dest => /\ free'[who] = Reaped(free[who] - v)
                            /\ free'[dest] = free[dest] + v
                            /\ \A b \in Account \ {who, dest} : free'[b] = free[b])
          /\ Total(who) - v >= frozen[who]
          /\ (held[who] > 0 \/ frozen[who] > 0 => free[who] - v >= ExistentialDeposit)
      BY <1>5, TransferFacts
    <2>2. a = who /\ who # dest
      BY <1>0, <2>1
    <2>3. QED
      BY <1>0, <2>1, <2>2, ConfigAssumption DEF Reaped
  <1>6. ASSUME NEW who \in Account, NEW v \in Amount, Burn(who, v)
        PROVE  Total(a)' >= frozen[a]
    <2>1. /\ v \in Nat /\ held' = held /\ free[who] >= v
          /\ free'[who] = Reaped(free[who] - v)
          /\ \A b \in Account \ {who} : free'[b] = free[b]
          /\ Total(who) - v >= frozen[who]
          /\ (held[who] > 0 \/ frozen[who] > 0 => free[who] - v >= ExistentialDeposit)
      BY <1>6, BurnFacts
    <2>2. a = who
      BY <1>0, <2>1
    <2>3. QED
      BY <1>0, <2>1, <2>2, ConfigAssumption DEF Reaped
  <1>7. QED
    BY <1>1, <1>2, <1>3, <1>4, <1>5, <1>6, BalanceSteps

\* A holder's free balance never falls below the minimum.
LEMMA NextHoldersStayAlive == TypeOK /\ HoldersStayAlive /\ [Next]_vars => HoldersStayAlive'
  <1> SUFFICES ASSUME TypeOK, HoldersStayAlive, [Next]_vars,
                      NEW a \in Account, held'[a] > 0
               PROVE  free'[a] >= ExistentialDeposit
    BY DEF HoldersStayAlive
  <1>0. free[a] \in Nat /\ held[a] \in Nat /\ ExistentialDeposit \in Nat
        /\ (held[a] > 0 => free[a] >= ExistentialDeposit)
    BY ConfigAssumption DEF TypeOK, HoldersStayAlive
  <1>1. CASE free' = free /\ held' = held
    BY <1>0, <1>1
  <1>2. ASSUME NEW who \in Account, NEW dest \in Account, NEW v \in Amount,
               ScheduleTransfer(who, dest, v)
        PROVE  free'[a] >= ExistentialDeposit
    BY <1>0, <1>2, ScheduleFacts
  <1>3. ASSUME NEW caller \in Account, NEW tx \in TxId,
               CancelByOwner(caller, tx) \/ CancelByReverser(caller, tx)
        PROVE  free'[a] >= ExistentialDeposit
    <2>1. /\ tx.amount \in Nat
          /\ held'[a] = held[a] - (IF a = tx.who THEN tx.amount ELSE 0)
          /\ free'[a] = free[a] + (IF a = caller THEN tx.amount ELSE 0)
      BY <1>3, CancelFacts
    <2>2. QED
      BY <1>0, <2>1
  <1>4. ASSUME NEW name \in DOMAIN agenda, ExecuteTransfer(name)
        PROVE  free'[a] >= ExistentialDeposit
    BY <1>0, <1>4, ExecuteFacts
  <1>5. ASSUME NEW who \in Account, NEW dest \in Account, NEW v \in Amount,
               AnyTransfer(who, dest, v)
        PROVE  free'[a] >= ExistentialDeposit
    <2>1. /\ v \in Nat /\ held' = held /\ free[who] >= v
          /\ (who = dest => free' = free)
          /\ (who # dest => /\ free'[who] = Reaped(free[who] - v)
                            /\ free'[dest] = free[dest] + v
                            /\ \A b \in Account \ {who, dest} : free'[b] = free[b])
          /\ (held[who] > 0 => free[who] - v >= ExistentialDeposit)
      BY <1>5, TransferFacts
    <2>2. QED
      BY <1>0, <2>1 DEF Reaped
  <1>6. ASSUME NEW who \in Account, NEW v \in Amount, Burn(who, v)
        PROVE  free'[a] >= ExistentialDeposit
    <2>1. /\ v \in Nat /\ held' = held /\ free[who] >= v
          /\ free'[who] = Reaped(free[who] - v)
          /\ \A b \in Account \ {who} : free'[b] = free[b]
          /\ (held[who] > 0 => free[who] - v >= ExistentialDeposit)
      BY <1>6, BurnFacts
    <2>2. QED
      BY <1>0, <2>1 DEF Reaped
  <1>7. QED
    BY <1>1, <1>2, <1>3, <1>4, <1>5, <1>6, BalanceSteps

\* Nobody has funds on hold in the genesis block.
LEMMA InitHoldersStayAlive == Init => HoldersStayAlive
  BY DEF Init, HoldersStayAlive

\* Every step but a burn conserves the funds, the dust of one account apart.
LEMMA ConservingStepHolds ==
  ASSUME TypeOK, [Next]_vars, Account # {}
  PROVE  ConservingStep \/ BurnStep
  <1>0. /\ \A a \in Account : /\ Total(a) = free[a] + held[a]
                              /\ Total(a)' = free'[a] + held'[a]
                              /\ free[a] \in Nat /\ held[a] \in Nat
        /\ ExistentialDeposit \in Nat /\ ExistentialDeposit > 0
    BY ConfigAssumption DEF Total, TypeOK
  <1>1. ASSUME \A c \in Account : Total(c)' = Total(c)
        PROVE  ConservingStep
    BY <1>1 DEF ConservingStep
  <1>2. ASSUME NEW a \in Account, NEW b \in Account, a # b,
               \A c \in Account \ {a, b} : Total(c)' = Total(c),
               LET lost == Total(a) + Total(b) - Total(a)' - Total(b)'
               IN  lost \in 0..(ExistentialDeposit - 1) /\ (lost > 0 => Total(a)' = 0)
        PROVE  ConservingStep
    BY <1>2 DEF ConservingStep
  <1>3. ASSUME free' = free /\ held' = held
        PROVE  ConservingStep
    BY <1>0, <1>1, <1>3
  <1>4. ASSUME NEW who \in Account, NEW dest \in Account, NEW v \in Amount,
               ScheduleTransfer(who, dest, v)
        PROVE  ConservingStep
    <2>1. \A c \in Account : Total(c)' = Total(c)
      BY <1>0, <1>4, ScheduleFacts
    <2>2. QED
      BY <1>1, <2>1
  <1>5. ASSUME NEW a \in Account, NEW b \in Account, NEW v \in Nat, held[a] >= v,
               \A c \in Account : held'[c] = held[c] - (IF c = a THEN v ELSE 0),
               \A c \in Account : free'[c] = free[c] + (IF c = b THEN v ELSE 0)
        PROVE  ConservingStep
    <2>1. CASE a = b
      <3>1. \A c \in Account : Total(c)' = Total(c)
        BY <1>0, <1>5, <2>1
      <3>2. QED
        BY <1>1, <3>1
    <2>2. CASE a # b
      <3>1. \A c \in Account \ {a, b} : Total(c)' = Total(c)
        BY <1>0, <1>5
      <3>2. Total(a) + Total(b) - Total(a)' - Total(b)' = 0
        BY <1>0, <1>5, <2>2
      <3>3. QED
        BY <1>0, <1>2, <2>2, <3>1, <3>2
    <2>3. QED
      BY <2>1, <2>2
  <1>6. ASSUME NEW caller \in Account, NEW tx \in TxId,
               CancelByOwner(caller, tx) \/ CancelByReverser(caller, tx)
        PROVE  ConservingStep
    <2>1. /\ tx.who \in Account /\ tx.amount \in Nat /\ held[tx.who] >= tx.amount
          /\ \A c \in Account : held'[c] = held[c] - (IF c = tx.who THEN tx.amount ELSE 0)
          /\ \A c \in Account : free'[c] = free[c] + (IF c = caller THEN tx.amount ELSE 0)
      BY <1>6, CancelFacts
    <2>2. QED
      BY <1>5, <2>1
  <1>7. ASSUME NEW name \in DOMAIN agenda, ExecuteTransfer(name)
        PROVE  ConservingStep
    <2> DEFINE tx == name[1]
    <2>1. /\ tx.who \in Account /\ tx.dest \in Account /\ tx.amount \in Nat
          /\ held[tx.who] >= tx.amount
          /\ \A c \in Account : held'[c] = held[c] - (IF c = tx.who THEN tx.amount ELSE 0)
          /\ \A c \in Account : free'[c] = free[c] + (IF c = tx.dest THEN tx.amount ELSE 0)
      BY <1>7, ExecuteFacts
    <2> HIDE DEF tx
    <2>2. QED
      BY <1>5, <2>1
  <1>8. ASSUME NEW who \in Account, NEW dest \in Account, NEW v \in Amount,
               AnyTransfer(who, dest, v)
        PROVE  ConservingStep
    <2>1. /\ v \in Nat /\ held' = held /\ free[who] >= v
          /\ (who = dest => free' = free)
          /\ (who # dest => /\ free'[who] = Reaped(free[who] - v)
                            /\ free'[dest] = free[dest] + v
                            /\ \A b \in Account \ {who, dest} : free'[b] = free[b])
          /\ (held[who] > 0 => free[who] - v >= ExistentialDeposit)
      BY <1>8, TransferFacts
    <2>2. CASE who = dest
      BY <1>3, <2>1, <2>2
    <2>3. CASE who # dest
      <3>1. \A c \in Account \ {who, dest} : Total(c)' = Total(c)
        BY <1>0, <2>1, <2>3
      <3>2. free[who] - v \in Nat
        BY <1>0, <2>1
      <3>3. CASE free[who] - v >= ExistentialDeposit
        <4>1. Total(who) + Total(dest) - Total(who)' - Total(dest)' = 0
          BY <1>0, <2>1, <2>3, <3>2, <3>3 DEF Reaped
        <4>2. QED
          BY <1>0, <1>2, <2>3, <3>1, <4>1
      <3>4. CASE ~(free[who] - v >= ExistentialDeposit)
        <4>1. free'[who] = 0 /\ held[who] = 0 /\ Total(who)' = 0
          BY <1>0, <2>1, <2>3, <3>2, <3>4 DEF Reaped
        <4>2. Total(who) + Total(dest) - Total(who)' - Total(dest)' = free[who] - v
          BY <1>0, <2>1, <2>3, <4>1
        <4>3. free[who] - v \in 0..(ExistentialDeposit - 1)
          BY <1>0, <3>2, <3>4
        <4>4. QED
          BY <1>2, <2>3, <3>1, <4>1, <4>2, <4>3
      <3>5. QED
        BY <3>3, <3>4
    <2>4. QED
      BY <2>2, <2>3
  <1>9. QED
    BY <1>3, <1>4, <1>6, <1>7, <1>8, BalanceSteps DEF BurnStep

(* Whoever has a transfer pending exists, whatever else it pays.             *)
THEOREM HoldersAlwaysAlive == Spec => []HoldersStayAlive
  BY TypeCorrect, InitHoldersStayAlive, NextHoldersStayAlive, PTL DEF Spec

(* Funds leave a hold only for the destination when the delay is over, or    *)
(* for whoever may cancel before.                                            *)
THEOREM HoldsAlwaysGoWhereTheyShould == Spec => HoldsGoWhereTheyShould
  BY TypeCorrect, HoldStepHolds, PTL DEF Spec, HoldsGoWhereTheyShould

(* No payment, execution or cancel reduces a total below its locks.          *)
THEOREM LockedFundsAlwaysStay == Spec => LockedFundsStay
  BY TypeCorrect, LockStepHolds, PTL DEF Spec, LockedFundsStay

(* Funds are neither created nor lost, burns and dust apart.                 *)
THEOREM FundsAlwaysConserved == Account # {} /\ Spec => FundsConserved
  <1>1. CASE Account # {}
    <2>1. TypeOK /\ [Next]_vars => ConservingStep \/ BurnStep
      BY <1>1, ConservingStepHolds
    <2>2. QED
      BY <2>1, TypeCorrect, PTL DEF Spec, FundsConserved
  <1>2. QED
    BY <1>1

-----------------------------------------------------------------------------
(* What the escrow needs to know of the books *)

\* A transfer has no more instances pending than its sender has altogether.
LEMMA PendingBelowIndex ==
  ASSUME BooksInv, NEW tx \in TxId
  PROVE  /\ tx.who \in Account /\ pending[tx] \in Nat /\ index[tx.who] \in Nat
         /\ pending[tx] <= index[tx.who]
  <1> DEFINE I == InstancesIn(pending, tx.who)
             f == [n \in 1..pending[tx] |-> <<tx, n>>]
  <1>1. /\ pending \in Counts /\ tx.who \in Account
        /\ pending[tx] \in Nat /\ index[tx.who] \in Nat
    BY DEF BooksInv, TypeOK, Counts, TxId
  <1>2. IsFiniteSet(I) /\ index[tx.who] = Cardinality(I)
    BY <1>1, InstancesAsSets DEF BooksInv, IndexIsPending
  <1>3. \A n \in 1..pending[tx] : <<tx, n>> \in I
    BY <1>1, InstanceMember
  <1> HIDE DEF I
  <1>4. f \in [1..pending[tx] -> I] /\ \A m, n \in 1..pending[tx] : f[m] = f[n] => m = n
    BY <1>3
  <1> HIDE DEF f
  <1>5. f \in Injection(1..pending[tx], I)
    BY <1>4, Zenon DEF Injection, IsInjective
  <1>6. Cardinality(1..pending[tx]) <= Cardinality(I)
    BY <1>2, <1>5, FS_Injection
  <1>7. QED
    BY <1>1, <1>2, <1>6, IntervalSize

\* What a pending transfer needs is on hold.
LEMMA HoldCovers ==
  ASSUME BooksInv, NEW tx \in TxId, pending[tx] > 0
  PROVE  tx.amount \in Nat /\ held[tx.who] >= tx.amount
  <1> DEFINE U == UnitsIn(pending, tx.who)
  <1>1. pending \in Counts /\ tx.who \in Account /\ pending[tx] \in Nat
    BY DEF BooksInv, TypeOK, Counts, TxId
  <1>2. IsFiniteSet(U) /\ held[tx.who] = Cardinality(U)
    BY <1>1, InstancesAsSets DEF BooksInv, HeldIsPending
  <1>3. IsFiniteSet(Layer(tx, 1)) /\ Cardinality(Layer(tx, 1)) = tx.amount
    BY LayerSize
  <1>4. tx.amount \in Nat
    BY <1>3, FS_CardinalityType
  <1>5. Layer(tx, 1) \subseteq U
    <2>1. \A u \in 1..tx.amount : <<tx, 1, u>> \in U
      BY <1>1, <1>4, UnitMember
    <2>2. QED
      BY <2>1 DEF Layer
  <1> HIDE DEF U
  <1>6. Cardinality(Layer(tx, 1)) <= Cardinality(U)
    BY <1>2, <1>5, FS_Subset
  <1>7. QED
    BY <1>2, <1>3, <1>4, <1>6

\* The instance behind a task is pending.
LEMMA TaskIsPending ==
  ASSUME BooksInv, NEW name \in DOMAIN agenda
  PROVE  name[1] \in TxId /\ pending[name[1]] > 0
  <1> DEFINE tx == name[1]
  <1>1. tx \in TxId
    BY DEF BooksInv, TypeOK, TaskName
  <1>2. name \in NamesOf(tx)
    BY DEF NamesOf
  <1> HIDE DEF tx
  <1>3. IsFiniteSet(NamesOf(tx)) /\ Cardinality(NamesOf(tx)) \in Nat
    BY NamesFinite DEF BooksInv
  <1>4. Cardinality(NamesOf(tx)) # 0
    BY <1>2, <1>3, FS_EmptySet
  <1>5. Cardinality(NamesOf(tx)) <= pending[tx] /\ pending[tx] \in Nat
    BY <1>1 DEF BooksInv, TasksBacked, TypeOK
  <1>6. pending[tx] > 0
    BY <1>3, <1>4, <1>5
  <1>7. QED
    BY <1>1, <1>6 DEF tx

-----------------------------------------------------------------------------
(* The instances that are stuck *)

\* Opening an instance with a task of its own leaves none stuck,
LEMMA OpensStuck ==
  ASSUME BooksInv, NEW tx \in TxId, Opens(tx),
         <<tx, pending[tx] + 1>> \notin DOMAIN agenda
  PROVE  Stuck' = Stuck
  <1> DEFINE x == <<tx, pending[tx] + 1>>
  <1>1. DOMAIN agenda' = DOMAIN agenda \cup {x} /\ x[1] = tx /\ x \notin DOMAIN agenda
    BY DEF Opens
  <1> HIDE DEF x
  <1>2. /\ NamesOf(tx)' = NamesOf(tx) \cup {x} /\ x \notin NamesOf(tx)
        /\ \A t \in TxId \ {tx} : NamesOf(t)' = NamesOf(t)
    BY <1>1 DEF NamesOf
  <1>3. IsFiniteSet(NamesOf(tx)) /\ Cardinality(NamesOf(tx)) \in Nat
    BY NamesFinite DEF BooksInv
  <1>4. Cardinality(NamesOf(tx)') = Cardinality(NamesOf(tx)) + 1
    BY <1>2, <1>3, FS_AddElement
  <1>5. /\ pending[tx] \in Nat /\ pending'[tx] = pending[tx] + 1
        /\ \A t \in TxId \ {tx} : pending'[t] = pending[t]
    BY DEF Opens, BooksInv, TypeOK
  <1>6. ASSUME NEW t \in TxId
        PROVE  pending'[t] - Cardinality(NamesOf(t)') = pending[t] - Cardinality(NamesOf(t))
    <2>1. CASE t = tx
      BY <1>3, <1>4, <1>5, <2>1
    <2>2. CASE t # tx
      BY <1>2, <1>5, <2>2
    <2>3. QED
      BY <2>1, <2>2
  <1>7. QED
    BY <1>6 DEF Stuck

\* and so does closing one with its task;
LEMMA ClosesStuck ==
  ASSUME BooksInv, NEW tx \in TxId, NEW name \in DOMAIN agenda, Closes(tx, name)
  PROVE  Stuck' = Stuck
  <1>1. DOMAIN agenda' = DOMAIN agenda \ {name} /\ name[1] = tx
    BY DEF Closes, Settle
  <1>2. /\ NamesOf(tx)' = NamesOf(tx) \ {name} /\ name \in NamesOf(tx)
        /\ \A t \in TxId \ {tx} : NamesOf(t)' = NamesOf(t)
    BY <1>1 DEF NamesOf
  <1>3. IsFiniteSet(NamesOf(tx)) /\ Cardinality(NamesOf(tx)) \in Nat
    BY NamesFinite DEF BooksInv
  <1>4. Cardinality(NamesOf(tx)') = Cardinality(NamesOf(tx)) - 1
    BY <1>2, <1>3, FS_RemoveElement
  <1>5. /\ pending[tx] \in Nat /\ pending'[tx] = pending[tx] - 1
        /\ \A t \in TxId \ {tx} : pending'[t] = pending[t]
    BY DEF Closes, Settle, BooksInv, TypeOK
  <1>6. ASSUME NEW t \in TxId
        PROVE  pending'[t] - Cardinality(NamesOf(t)') = pending[t] - Cardinality(NamesOf(t))
    <2>1. CASE t = tx
      BY <1>3, <1>4, <1>5, <2>1
    <2>2. CASE t # tx
      BY <1>2, <1>5, <2>2
    <2>3. QED
      BY <2>1, <2>2
  <1>7. QED
    BY <1>6 DEF Stuck

\* a task that is used up leaves its instance stuck;
LEMMA UsesUpStuck ==
  ASSUME BooksInv, NEW name \in DOMAIN agenda, UsesUp(name)
  PROVE  Stuck' = [Stuck EXCEPT ![name[1]] = @ + 1]
  <1> DEFINE tx == name[1]
  <1>1. DOMAIN agenda' = DOMAIN agenda \ {name} /\ pending' = pending
    BY DEF UsesUp
  <1>2. /\ NamesOf(tx)' = NamesOf(tx) \ {name} /\ name \in NamesOf(tx)
        /\ \A t \in TxId \ {tx} : NamesOf(t)' = NamesOf(t)
    BY <1>1 DEF NamesOf
  <1>3. tx \in TxId /\ pending[tx] \in Nat
    BY DEF BooksInv, TypeOK, TaskName
  <1> HIDE DEF tx
  <1>4. IsFiniteSet(NamesOf(tx)) /\ Cardinality(NamesOf(tx)) \in Nat
    BY NamesFinite DEF BooksInv
  <1>5. Cardinality(NamesOf(tx)') = Cardinality(NamesOf(tx)) - 1
    BY <1>2, <1>4, FS_RemoveElement
  <1>6. ASSUME NEW t \in TxId PROVE Stuck'[t] = Stuck[t] + (IF t = tx THEN 1 ELSE 0)
    <2>1. /\ Stuck'[t] = pending'[t] - Cardinality(NamesOf(t)')
          /\ Stuck[t] = pending[t] - Cardinality(NamesOf(t))
      BY DEF Stuck
    <2>2. pending[t] \in Nat /\ Cardinality(NamesOf(t)) \in Nat
      BY NamesFinite DEF BooksInv, TypeOK
    <2>3. CASE t = tx
      BY <1>1, <1>3, <1>4, <1>5, <2>1, <2>3
    <2>4. CASE t # tx
      BY <1>1, <1>2, <2>1, <2>2, <2>4
    <2>5. QED
      BY <2>3, <2>4
  <1>7. DOMAIN Stuck = TxId /\ DOMAIN Stuck' = TxId /\ Stuck' = [t \in TxId |-> Stuck'[t]]
        /\ \A t \in TxId : Stuck[t] \in Int
    <2>1. \A t \in TxId : pending[t] \in Nat /\ Cardinality(NamesOf(t)) \in Nat
      BY NamesFinite DEF BooksInv, TypeOK
    <2>2. QED
      BY <2>1 DEF Stuck
  <1>8. Stuck' = [Stuck EXCEPT ![tx] = @ + 1]
    <2>1. Stuck = [t \in TxId |-> Stuck[t]]
      BY DEF Stuck
    <2> HIDE DEF Stuck
    <2>2. QED
      BY <1>3, <1>6, <1>7, <2>1
  <1>9. QED
    BY <1>8 DEF tx

\* and where the books are left alone, nothing gets stuck.
LEMMA KeepsBooksStuck ==
  ASSUME KeepsBooks
  PROVE  Stuck' = Stuck
  <1>1. \A t \in TxId : NamesOf(t)' = NamesOf(t)
    BY DEF KeepsBooks, NamesOf
  <1>2. QED
    BY <1>1 DEF Stuck, KeepsBooks

-----------------------------------------------------------------------------
(* The pallet keeps the promise of an escrow *)

\* What the escrow sees of a state.
Seen == <<Promise!funds, frozen, Promise!settings, Promise!deposits>>

\* The deals of the escrow are the transfers.
LEMMA Deals == Promise!Deal = TxId
  BY DEF Promise!Deal, TxId

\* Nothing is deposited in the genesis block.
LEMMA InitEscrow == Init => Promise!Init
  <1> SUFFICES ASSUME Init PROVE Promise!Init
    OBVIOUS
  <1>1. /\ free \in [Account -> Nat] /\ delay \in [Account -> Nat]
        /\ held = [a \in Account |-> 0] /\ frozen = [a \in Account |-> 0]
        /\ agenda = [name \in {} |-> 0]
    BY InitTypeOK DEF Init, TypeOK
  <1>2. Guardians = [a \in Account |-> a]
    BY DEF Init, Guardians, Beneficiary
  <1>3. \A tx \in TxId : NamesOf(tx) = {} /\ pending[tx] = 0
    BY <1>1 DEF Init, NamesOf
  <1>4. Stuck = [tx \in TxId |-> 0]
    BY <1>3, FS_EmptySet DEF Stuck
  <1>5. QED
    BY <1>1, <1>2, <1>4, Deals DEF Promise!Init

\* Becoming reversible is registering; without a reverser one guards oneself.
LEMMA RegisterSeen ==
  ASSUME BooksInv, NEW who \in Account, NEW d \in Delay,
         NEW r \in Account \cup {NoAccount}, SetReversibility(who, d, r)
  PROVE  Promise!Next
  <1> DEFINE g == IF r = NoAccount THEN who ELSE r
  <1>1. g \in Account
    OBVIOUS
  <1>2. /\ delay[who] = 0 /\ d > 0
        /\ delay' = [delay EXCEPT ![who] = d]
        /\ UNCHANGED <<free, held, frozen, pending, index, agenda>>
    BY ConfigAssumption, ValueAssumption DEF SetReversibility, balances
  <1>3. Guardians' = [Guardians EXCEPT ![who] = g]
    <2>1. reverser' = [reverser EXCEPT ![who] = r] /\ reverser \in [Account -> Account \cup {NoAccount}]
      BY DEF SetReversibility, BooksInv, TypeOK
    <2>2. \A a \in Account : Beneficiary(a)' = IF a = who THEN g ELSE Beneficiary(a)
      BY <2>1 DEF Beneficiary
    <2>3. QED
      BY <2>2 DEF Guardians
  <1>4. Stuck' = Stuck
    BY <1>2, KeepsBooksStuck DEF KeepsBooks
  <1>5. Promise!Register(who, d, g)
    BY <1>2, <1>3, <1>4 DEF Promise!Register, Promise!funds, Promise!deposits
  <1>6. QED
    BY <1>1, <1>5 DEF Promise!Next

\* Scheduling is depositing.
LEMMA DepositSeen ==
  ASSUME BooksInv, NEW who \in Account, NEW dest \in Account, NEW v \in Amount,
         ScheduleTransfer(who, dest, v)
  PROVE  Promise!Next
  <1> DEFINE tx == [who |-> who, dest |-> dest, amount |-> v]
             n == pending[tx] + 1
             name == <<tx, n>>
  <1>1. tx \in TxId /\ tx.who = who /\ tx.amount = v
    BY DEF TxId
  <1>2. /\ delay[who] > 0 /\ index[who] < MaxPendingPerAccount
        /\ name \notin DOMAIN agenda
        /\ free[who] >= v + ExistentialDeposit
        /\ agenda' = [s \in DOMAIN agenda \cup {name} |->
                        IF s = name THEN delay[who] ELSE agenda[s]]
        /\ free' = [free EXCEPT ![who] = @ - v]
        /\ held' = [held EXCEPT ![who] = @ + v]
        /\ UNCHANGED <<frozen, delay, reverser>>
    BY DEF ScheduleTransfer, CanHold, settings
  <1>3. Opens(tx)
    BY <1>1, <1>2 DEF ScheduleTransfer, Opens
  <1>4. Guardians' = Guardians
    BY <1>2 DEF Guardians, Beneficiary
  <1>5. n \in 1 .. MaxPendingPerAccount
    BY <1>1, <1>2, PendingBelowIndex, ConfigAssumption
  <1> HIDE DEF tx
  <1>6. Stuck' = Stuck
    BY <1>1, <1>2, <1>3, OpensStuck
  <1>7. tx \in Promise!Deal
    BY <1>1, Deals
  <1> HIDE DEF n
  <1>8. Promise!Deposit(tx, n)
    BY <1>1, <1>2, <1>4, <1>6 DEF Promise!Deposit, Promise!settings
  <1>9. QED
    BY <1>5, <1>7, <1>8 DEF Promise!Next

\* Closing an instance for the good of a is settling its deposit.
LEMMA SettleSeen ==
  ASSUME BooksInv, TypeOK', NEW tx \in TxId, NEW name \in DOMAIN agenda, Closes(tx, name),
         NEW a \in Account, UNCHANGED <<frozen, delay, reverser>>,
         \A b \in Account : free'[b] = free[b] + (IF b = a THEN tx.amount ELSE 0)
  PROVE  Promise!Settle(name, a)
  <1>1. /\ held' = [held EXCEPT ![tx.who] = @ - tx.amount] /\ name[1] = tx
        /\ agenda' = [s \in DOMAIN agenda \ {name} |-> agenda[s]]
    BY DEF Closes, Settle
  <1>2. free' = [free EXCEPT ![a] = @ + tx.amount]
    <2>1. free \in [Account -> Nat] /\ free' \in [Account -> Nat]
      BY DEF BooksInv, TypeOK
    <2>2. free' = [b \in Account |-> free[b] + (IF b = a THEN tx.amount ELSE 0)]
      BY <2>1
    <2>3. \A b \in Account \ {a} : free'[b] = free[b]
      BY <2>1
    <2>4. free'[a] = free[a] + tx.amount
      BY <2>2
    <2>5. QED
      BY <2>1, <2>3, <2>4
  <1>3. Guardians' = Guardians
    BY DEF Guardians, Beneficiary
  <1>4. Stuck' = Stuck
    BY ClosesStuck
  <1>5. QED
    BY <1>1, <1>2, <1>3, <1>4 DEF Promise!Settle, Promise!settings

\* Cancelling is the guardian's return.
LEMMA ReturnSeen ==
  ASSUME BooksInv, TypeOK', NEW caller \in Account, NEW tx \in TxId,
         CancelByOwner(caller, tx) \/ CancelByReverser(caller, tx)
  PROVE  Promise!Next
  <1> DEFINE name == <<tx, pending[tx]>>
  <1>1. /\ tx.who \in Account /\ tx.amount \in Nat
        /\ name \in DOMAIN agenda /\ agenda[name] # 0
        /\ caller = Beneficiary(tx.who)
        /\ \A a \in Account : free'[a] = free[a] + (IF a = caller THEN tx.amount ELSE 0)
        /\ caller # tx.who => Total(tx.who) - tx.amount >= frozen[tx.who]
    BY CancelFacts DEF BooksInv
  <1>2. Closes(tx, name) /\ UNCHANGED <<frozen, delay, reverser>>
    BY <1>1 DEF CancelByOwner, CancelByReverser, CanTransferOnHold, Closes, settings
  <1>3. Guardians[tx.who] = caller
    BY <1>1 DEF Guardians
  <1>4. name[1] = tx
    OBVIOUS
  <1> HIDE DEF name
  <1>5. Promise!Settle(name, caller)
    BY <1>1, <1>2, SettleSeen
  <1>6. agenda[name] > 0
    BY <1>1 DEF BooksInv, TypeOK
  <1>7. Guardians[tx.who] = tx.who \/ ~Promise!Locked(tx)
    <2>1. /\ free[tx.who] \in Nat /\ held[tx.who] \in Nat /\ frozen[tx.who] \in Nat
      BY <1>1 DEF BooksInv, TypeOK
    <2>2. QED
      BY <1>1, <1>3, <2>1 DEF Promise!Locked, Total
  <1>8. Promise!Return(name)
    BY <1>3, <1>4, <1>5, <1>6, <1>7 DEF Promise!Return
  <1>9. QED
    BY <1>1, <1>8 DEF Promise!Next

\* Executing is paying: the locks and the destination allow it.
LEMMA PaySeen ==
  ASSUME BooksInv, TypeOK', NEW name \in DOMAIN agenda, ExecuteTransfer(name)
  PROVE  Promise!Next
  <1> DEFINE tx == name[1]
             f == [free EXCEPT ![tx.who] = @ + tx.amount]
             h == [held EXCEPT ![tx.who] = @ - tx.amount]
  <1>1. /\ tx \in TxId /\ tx.who \in Account /\ tx.dest \in Account /\ tx.amount \in Nat
        /\ agenda[name] = 0
        /\ \A a \in Account : free'[a] = free[a] + (IF a = tx.dest THEN tx.amount ELSE 0)
        /\ Total(tx.who) - tx.amount >= frozen[tx.who]
    BY ExecuteFacts, TaskIsPending DEF BooksInv
  <1>2. Closes(tx, name) /\ UNCHANGED <<frozen, delay, reverser>>
    BY <1>1 DEF ExecuteTransfer, CanExecute, Closes, settings
  <1>3. /\ free[tx.who] \in Nat /\ held[tx.who] \in Nat /\ frozen[tx.who] \in Nat
        /\ free[tx.dest] \in Nat /\ ExistentialDeposit \in Nat
    BY <1>1, ConfigAssumption DEF BooksInv, TypeOK
  <1>4. ~Promise!Locked(tx)
    <2> HIDE DEF tx
    <2> QED BY <1>1, <1>3 DEF Promise!Locked, Total
  <1>5. ~Promise!Unborn(tx)
    <2>1. free'[tx.dest] >= ExistentialDeposit
      <3>1. CanKeepAlive(f, h, tx.who, tx.dest, tx.amount)
        BY DEF ExecuteTransfer, CanExecute
      <3>2. /\ f \in [Account -> Nat]
            /\ \A a \in Account : f[a] = free[a] + (IF a = tx.who THEN tx.amount ELSE 0)
        BY <1>1 DEF BooksInv, TypeOK
      <3> HIDE DEF f, h, tx
      <3>3. CASE tx.who = tx.dest
        BY <1>1, <1>3, <3>1, <3>2, <3>3 DEF CanKeepAlive
      <3>4. CASE tx.who # tx.dest
        BY <1>1, <1>3, <3>1, <3>2, <3>4 DEF CanKeepAlive, CanDeposit
      <3>5. QED
        BY <3>3, <3>4
    <2> HIDE DEF tx
    <2>2. QED
      BY <1>1, <1>3, <2>1 DEF Promise!Unborn
  <1> HIDE DEF tx
  <1>6. Promise!Settle(name, tx.dest)
    BY <1>1, <1>2, SettleSeen
  <1>7. Promise!Pay(name)
    BY <1>1, <1>4, <1>5, <1>6 DEF Promise!Pay, tx
  <1>8. QED
    BY <1>7 DEF Promise!Next

\* What is pending is on hold and its owner alive, so that an execution fails
\* for the escrow's reasons only.
LEMMA FailSeen ==
  ASSUME BooksInv, HoldersStayAlive, NEW name \in DOMAIN agenda, ExecuteFails(name)
  PROVE  Promise!Next
  <1> DEFINE tx == name[1]
             f == [free EXCEPT ![tx.who] = @ + tx.amount]
             h == [held EXCEPT ![tx.who] = @ - tx.amount]
  <1>1. /\ tx \in TxId /\ tx.who \in Account /\ tx.dest \in Account /\ pending[tx] > 0
        /\ tx.amount \in Nat \ {0} /\ held[tx.who] >= tx.amount
    <2>1. tx \in TxId /\ pending[tx] > 0
      BY TaskIsPending
    <2>2. tx.who \in Account /\ tx.dest \in Account /\ tx.amount \in Amount
      BY <2>1 DEF TxId
    <2> HIDE DEF tx
    <2>3. held[tx.who] >= tx.amount
      BY <2>1, HoldCovers
    <2>4. QED
      BY <2>1, <2>2, <2>3, ValueAssumption
  <1>2. /\ agenda[name] = 0 /\ ~CanExecute(tx)
        /\ agenda' = [s \in DOMAIN agenda \ {name} |-> agenda[s]]
        /\ UNCHANGED <<free, held, frozen, delay, reverser, pending, index>>
    BY DEF ExecuteFails, balances, settings
  <1>3. /\ free[tx.who] \in Nat /\ held[tx.who] \in Nat /\ frozen[tx.who] \in Nat
        /\ free[tx.dest] \in Nat /\ ExistentialDeposit \in Nat
        /\ free[tx.who] >= ExistentialDeposit
    <2> HIDE DEF tx
    <2> QED BY <1>1, ConfigAssumption DEF BooksInv, TypeOK, HoldersStayAlive
  <1>4. /\ f[tx.who] = free[tx.who] + tx.amount
        /\ h[tx.who] = held[tx.who] - tx.amount
        /\ tx.dest # tx.who => f[tx.dest] = free[tx.dest]
    BY <1>1 DEF BooksInv, TypeOK
  <1>5. CanDeposit(free, tx.who, tx.amount)
    <2> HIDE DEF tx
    <2> QED BY <1>1, <1>3 DEF CanDeposit
  <1>6. ~CanKeepAlive(f, h, tx.who, tx.dest, tx.amount)
    BY <1>1, <1>2, <1>5 DEF CanExecute
  <1>7. Promise!Locked(tx) \/ Promise!Unborn(tx)
    <2> HIDE DEF tx, f, h
    <2>1. CASE tx.dest = tx.who
      BY <1>1, <1>3, <1>4, <1>6, <2>1 DEF CanKeepAlive, CanDeposit, Promise!Locked, Promise!Unborn
    <2>2. CASE tx.dest # tx.who
      BY <1>1, <1>3, <1>4, <1>6, <2>2 DEF CanKeepAlive, CanDeposit, Promise!Locked, Promise!Unborn
    <2>3. QED
      BY <2>1, <2>2
  <1>8. Guardians' = Guardians
    BY <1>2 DEF Guardians, Beneficiary
  <1>9. Stuck' = [Stuck EXCEPT ![tx] = @ + 1]
    BY <1>2, UsesUpStuck DEF UsesUp
  <1>10. Promise!Fail(name)
    BY <1>2, <1>7, <1>8, <1>9 DEF Promise!Fail, Promise!funds, Promise!settings
  <1>11. QED
    BY <1>10 DEF Promise!Next

\* A lock that is not set anew stays.
LEMMA LocksSeen ==
  ASSUME TypeOK, NEW who \in Account, NEW dest \in Account, NEW v \in Amount,
         AnyTransfer(who, dest, v)
  PROVE  \/ frozen' = frozen
         \/ \E a \in Account, l \in LockAmount : frozen' = [frozen EXCEPT ![a] = l]
  <1>1. CASE frozen' = frozen
    BY <1>1
  <1>2. CASE OtherTransfer(who, dest, v)
    <2>1. PICK l \in LockAmount \cup {frozen[dest]} : frozen' = [frozen EXCEPT ![dest] = l]
      BY <1>2 DEF OtherTransfer
    <2>2. CASE l \in LockAmount
      BY <2>1, <2>2
    <2>3. CASE l = frozen[dest]
      BY <2>1, <2>3 DEF TypeOK
    <2>4. QED
      BY <2>1, <2>2, <2>3
  <1>3. QED
    BY <1>1, <1>2 DEF AnyTransfer, TransferAllowDeath, TransferKeepAlive

\* Transfers and burns are payments beside the escrow.
LEMMA SpendSeen ==
  ASSUME BooksInv, TypeOK', NEW who \in Account, NEW v \in Amount,
         (\E dest \in Account : AnyTransfer(who, dest, v)) \/ Burn(who, v)
  PROVE  Promise!Next
  <1>1. UNCHANGED <<held, delay, reverser, pending, index, agenda>>
    BY DEF AnyTransfer, TransferAllowDeath, TransferKeepAlive, OtherTransfer, Burn, settings
  <1>2. /\ free \in [Account -> Nat] /\ free' \in [Account -> Nat]
        /\ held \in [Account -> Nat] /\ frozen \in [Account -> Nat]
        /\ ExistentialDeposit \in Nat
    BY ConfigAssumption DEF BooksInv, TypeOK
  <1> DEFINE Paid ==
        /\ v \in Nat /\ free[who] >= v
        /\ free[who] + held[who] - v >= frozen[who]
        /\ held[who] > 0 \/ frozen[who] > 0 => free[who] - v >= ExistentialDeposit
        /\ \/ \A a \in Account : free'[a] >= free[a]
           \/ /\ free'[who] = Reaped(free[who] - v)
              /\ \A a \in Account \ {who} : free'[a] >= free[a]
  <1>3. Paid
    <2>1. ASSUME NEW dest \in Account, AnyTransfer(who, dest, v)
          PROVE  Paid
      BY <2>1, <1>2, TransferFacts DEF BooksInv, Total
    <2>2. CASE Burn(who, v)
      BY <2>2, <1>2, BurnFacts DEF BooksInv, Total
    <2>3. QED
      BY <2>1, <2>2
  <1>4. ASSUME NEW a \in Account, free'[a] < free[a]
        PROVE  /\ free'[a] + held[a] >= frozen[a]
               /\ held[a] > 0 => free'[a] >= ExistentialDeposit
    <2>1. a = who /\ free'[who] = Reaped(free[who] - v)
      BY <1>2, <1>3, <1>4
    <2>2. free'[who] = free[who] - v \/ (held[who] = 0 /\ frozen[who] = 0)
      BY <1>2, <1>3, <2>1 DEF Reaped
    <2>3. QED
      BY <1>2, <1>3, <2>1, <2>2
  <1>5. \/ frozen' = frozen
        \/ \E a \in Account, l \in LockAmount : frozen' = [frozen EXCEPT ![a] = l]
    BY LocksSeen DEF Burn, BooksInv
  <1>6. Guardians' = Guardians
    BY <1>1 DEF Guardians, Beneficiary
  <1>7. Stuck' = Stuck
    BY <1>1, KeepsBooksStuck DEF KeepsBooks
  <1>8. Promise!Spend
    BY <1>1, <1>2, <1>4, <1>5, <1>6, <1>7 DEF Promise!Spend, Promise!settings, Promise!deposits
  <1>9. QED
    BY <1>8 DEF Promise!Next

\* The remaining steps are their namesakes, and no step at all is none.
LEMMA OthersSeen ==
  ASSUME BooksInv,
         \/ \E a \in Account, v \in LockAmount : SetLock(a, v)
         \/ NextBlock
         \/ UNCHANGED vars
  PROVE  Promise!Next \/ UNCHANGED Seen
  <1>1. Guardians' = Guardians
    BY DEF SetLock, NextBlock, vars, settings, Guardians, Beneficiary
  <1>2. Stuck' = Stuck
    BY KeepsBooksStuck DEF SetLock, NextBlock, vars, balances, KeepsBooks
  <1>3. CASE \E a \in Account, v \in LockAmount : SetLock(a, v)
    <2>1. PICK a \in Account, v \in LockAmount : SetLock(a, v)
      BY <1>3
    <2>2. Promise!SetLock(a, v)
      BY <1>1, <1>2, <2>1 DEF SetLock, settings, Promise!SetLock, Promise!funds,
           Promise!settings, Promise!deposits
    <2>3. QED
      BY <2>2 DEF Promise!Next
  <1>4. CASE NextBlock
    <2>1. Promise!Block
      BY <1>1, <1>2, <1>4 DEF NextBlock, Initialized, balances, settings, Promise!Block,
           Promise!funds, Promise!settings
    <2>2. QED
      BY <2>1 DEF Promise!Next
  <1>5. CASE UNCHANGED vars
    BY <1>1, <1>2, <1>5 DEF vars, Seen, Promise!funds, Promise!settings, Promise!deposits
  <1>6. QED
    BY <1>3, <1>4, <1>5

\* Every step of the pallet is a step of the escrow, or none that it sees.
LEMMA NextEscrow ==
  BooksInv /\ HoldersStayAlive /\ [Next]_vars => [Promise!Next]_Seen
  <1> SUFFICES ASSUME BooksInv, HoldersStayAlive, [Next]_vars
               PROVE  Promise!Next \/ UNCHANGED Seen
    OBVIOUS
  <1>0. TypeOK'
    BY NextTypeOK DEF BooksInv
  <1>1. CASE \E who \in Account, d \in Delay, r \in Account \cup {NoAccount} :
               SetReversibility(who, d, r)
    BY <1>1, RegisterSeen
  <1>2. CASE \E who, dest \in Account, v \in Amount : ScheduleTransfer(who, dest, v)
    BY <1>2, DepositSeen
  <1>3. CASE \/ \E who, dest \in Account, v \in Amount : AnyTransfer(who, dest, v)
             \/ \E who \in Account, v \in Amount : Burn(who, v)
    BY <1>0, <1>3, SpendSeen
  <1>4. CASE \E caller \in Account, tx \in TxId :
               CancelByOwner(caller, tx) \/ CancelByReverser(caller, tx)
    BY <1>0, <1>4, ReturnSeen
  <1>5. CASE \E name \in DOMAIN agenda : ExecuteTransfer(name)
    BY <1>0, <1>5, PaySeen
  <1>6. CASE \E name \in DOMAIN agenda : ExecuteFails(name)
    BY <1>6, FailSeen
  <1>7. CASE \/ \E a \in Account, v \in LockAmount : SetLock(a, v)
             \/ NextBlock
             \/ UNCHANGED vars
    BY <1>7, OthersSeen
  <1>8. QED
    BY <1>1, <1>2, <1>3, <1>4, <1>5, <1>6, <1>7 DEF Next, Service, AnyTransfer

(* The pallet implements the escrow: deposits are settled once and for the   *)
(* right account, and an execution fails for two reasons only.               *)
THEOREM ReversibleImplementsEscrow == Spec => ImplementsEscrow
  <1>1. Spec => [](BooksInv /\ HoldersStayAlive)
    BY InitBooks, NextBooks, HoldersAlwaysAlive, PTL DEF Spec
  <1>2. QED
    BY <1>1, InitEscrow, NextEscrow, PTL DEF Spec, ImplementsEscrow, Promise!Spec, Seen
=============================================================================
