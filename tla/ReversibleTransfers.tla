------------------------- MODULE ReversibleTransfers -------------------------
(***************************************************************************)
(* pallet-reversible-transfers with the parts of the runtime it acts on:   *)
(* the balances it holds and moves, the named scheduler (external) that     *)
(* calls it back, and the transaction extension that turns three transfer   *)
(* calls of reversible accounts away and lets every other call pass.        *)
(*                                                                          *)
(* A block first services the tasks that are due (scheduler on_initialize), *)
(* then applies extrinsics. Every pallet call runs in a storage layer, so a *)
(* call that returns an error changes nothing: its guard fails and there is *)
(* no step. The one failing call that does leave a trace is the one the     *)
(* scheduler dispatches, because the task is used up all the same.          *)
(***************************************************************************)
EXTENDS Integers, FiniteSets

CONSTANTS
  Account,               \* accounts
  NoAccount,             \* explicit_reverser = None
  Amount,                \* transfer values that calls are made with
  Delay,                 \* delays that set_reversibility is called with
  LockAmount,            \* values that vesting and voting locks take
  ExistentialDeposit,
  MaxPendingPerAccount,
  MaxScheduledPerBlock,
  MinDelayPeriod,
  GenesisFree,           \* free balances in the genesis block
  GenesisDelay           \* initial_reversible_accounts; 0 = not listed

ASSUME AccountAssumption == NoAccount \notin Account
ASSUME ValueAssumption ==
  /\ Amount \subseteq Nat \ {0}
  /\ Delay \subseteq Nat
  /\ LockAmount \subseteq Nat
ASSUME ConfigAssumption ==
  /\ ExistentialDeposit \in Nat \ {0}
  /\ MaxPendingPerAccount \in Nat
  /\ MaxScheduledPerBlock \in Nat
  /\ MinDelayPeriod \in Nat \ {0}
ASSUME GenesisAssumption ==
  /\ GenesisFree \in [Account -> {0} \cup {f \in Nat : f >= ExistentialDeposit}]
  /\ GenesisDelay \in [Account -> {0} \cup {d \in Nat : d >= MinDelayPeriod}]

VARIABLES
  free,      \* free balance of each account
  held,      \* balance on hold for HoldReason::ScheduledTransfer
  frozen,    \* the largest lock on each account (vesting, voting)
  delay,     \* ReversibleAccounts: the delay, 0 when the account is not in it
  reverser,  \* ReversibleAccounts: the explicit reverser
  pending,   \* PendingTransfers: the count of each tx id, 0 when not stored
  index,     \* AccountPendingIndex
  agenda     \* the scheduler's named tasks: name |-> blocks still to go

balances == <<free, held, frozen>>
settings == <<delay, reverser>>
vars == <<free, held, frozen, delay, reverser, pending, index, agenda>>

\* tx_id hashes the sender and the transfer_keep_alive call.
TxId == [who : Account, dest : Account, amount : Amount]

\* make_schedule_id hashes the tx id and the count the transfer was stored with.
TaskName == TxId \X (Nat \ {0})

Total(a) == free[a] + held[a]

NamesOf(tx) == {name \in DOMAIN agenda : name[1] = tx}

-----------------------------------------------------------------------------
(* Balances *)

\* can_deposit: a deposit may not leave the account below the minimum.
CanDeposit(f, a, v) == f[a] + v >= ExistentialDeposit

\* Mutant: a hold is no consumer.
HasConsumerOfLocks(a) == frozen[a] > 0

\* A hold or a lock is a consumer, and keeps the account's provider in place.
HasConsumer(a) == held[a] > 0 \/ frozen[a] > 0

\* A free balance below the minimum is dust, and is burned with the account.
Reaped(f) == IF f >= ExistentialDeposit THEN f ELSE 0

\* Mutant: both balances are read first, and a transfer to oneself pays out.
MovedFromCopies(f, src, dest, v) ==
  [f EXCEPT ![src] = Reaped(f[src] - v), ![dest] = f[dest] + v]

Moved(f, src, dest, v) ==
  IF src = dest THEN f
                ELSE [f EXCEPT ![src] = Reaped(@ - v), ![dest] = @ + v]

\* transfer(.., Preserve) succeeds, for free balances f and holds h.
CanKeepAlive(f, h, src, dest, v) ==
  /\ f[src] >= v + ExistentialDeposit
  /\ f[src] - v + h[src] >= frozen[src]
  /\ CanDeposit(f, dest, v)

\* What is reducible with Expendable suffices.
CanSpend(a, v) ==
  /\ free[a] >= v
  /\ Total(a) - v >= frozen[a]
  /\ HasConsumer(a) => free[a] >= v + ExistentialDeposit

\* transfer(.., Expendable) succeeds.
CanAllowDeath(src, dest, v) == CanSpend(src, v) /\ CanDeposit(free, dest, v)

\* Mutant: the minimum is added on the wrong side.
CanHoldAndOwe(a, v) == free[a] + ExistentialDeposit >= v

\* hold: the account must exist and keep the minimum; locks are no obstacle.
CanHold(a, v) == free[a] >= v + ExistentialDeposit

\* Mutant: transfer_on_hold with Fortitude::Force.
CanForceOnHold(src, dest, v) == held[src] >= v /\ CanDeposit(free, dest, v)

\* transfer_on_hold(.., Exact, Free, Polite): what is left must cover the locks.
CanTransferOnHold(src, dest, v) ==
  /\ held[src] >= v
  /\ frozen[src] <= free[src] \/ Total(src) - v >= frozen[src]
  /\ CanDeposit(free, dest, v)

-----------------------------------------------------------------------------
Init ==
  /\ free = GenesisFree
  /\ held = [a \in Account |-> 0]
  /\ frozen = [a \in Account |-> 0]
  /\ delay = GenesisDelay
  /\ reverser = [a \in Account |-> NoAccount]
  /\ pending = [tx \in TxId |-> 0]
  /\ index = [a \in Account |-> 0]
  /\ agenda = [name \in {} |-> 0]

\* The scheduler services what is due before the block's extrinsics run.
Initialized == \A name \in DOMAIN agenda : agenda[name] > 0

SetReversibility(who, d, r) ==
  /\ Initialized
  /\ delay[who] = 0
  /\ r # who
  /\ d >= MinDelayPeriod
  /\ delay' = [delay EXCEPT ![who] = d]
  /\ reverser' = [reverser EXCEPT ![who] = r]
  /\ UNCHANGED <<balances, pending, index, agenda>>

ScheduleTransfer(who, dest, v) ==
  LET tx   == [who |-> who, dest |-> dest, amount |-> v]
      name == <<tx, pending[tx] + 1>>
      slot == {n \in DOMAIN agenda : agenda[n] = delay[who]}
  IN  /\ Initialized
      /\ delay[who] > 0
      /\ reverser[who] # who
      /\ index[who] < MaxPendingPerAccount
      /\ name \notin DOMAIN agenda
      /\ Cardinality(slot) < MaxScheduledPerBlock
      /\ CanHold(who, v)
      /\ index' = [index EXCEPT ![who] = @ + 1]
      /\ pending' = [pending EXCEPT ![tx] = @ + 1]
      /\ agenda' = [n \in DOMAIN agenda \cup {name} |->
                       IF n = name THEN delay[who] ELSE agenda[n]]
      /\ free' = [free EXCEPT ![who] = @ - v]
      /\ held' = [held EXCEPT ![who] = @ + v]
      /\ UNCHANGED <<frozen, settings>>

\* Mutant: the account index is not decremented.
SettleKeepingIndex(tx, name) ==
  /\ pending' = [pending EXCEPT ![tx] = @ - 1]
  /\ agenda' = [n \in DOMAIN agenda \ {name} |-> agenda[n]]
  /\ held' = [held EXCEPT ![tx.who] = @ - tx.amount]
  /\ UNCHANGED index

\* Mutant: the entry is removed whatever its count.
SettleAll(tx, name) ==
  /\ pending' = [pending EXCEPT ![tx] = 0]
  /\ index' = [index EXCEPT ![tx.who] = IF @ > 0 THEN @ - 1 ELSE 0]
  /\ agenda' = [n \in DOMAIN agenda \ {name} |-> agenda[n]]
  /\ held' = [held EXCEPT ![tx.who] = @ - tx.amount]

\* The bookkeeping that cancelling and executing a transfer share.
Settle(tx, name) ==
  /\ pending' = [pending EXCEPT ![tx] = @ - 1]
  /\ index' = [index EXCEPT ![tx.who] = IF @ > 0 THEN @ - 1 ELSE 0]
  /\ agenda' = [n \in DOMAIN agenda \ {name} |-> agenda[n]]
  /\ held' = [held EXCEPT ![tx.who] = @ - tx.amount]

\* Mutant: an owner may cancel although there is an explicit reverser.
CancelByAnyOwner(caller, tx) ==
  /\ Initialized
  /\ pending[tx] > 0
  /\ delay[tx.who] > 0
  /\ caller = tx.who
  /\ <<tx, pending[tx]>> \in DOMAIN agenda
  /\ held[tx.who] >= tx.amount /\ CanDeposit(free, tx.who, tx.amount)
  /\ Settle(tx, <<tx, pending[tx]>>)
  /\ free' = [free EXCEPT ![tx.who] = @ + tx.amount]
  /\ UNCHANGED <<frozen, settings>>

\* cancel without an explicit reverser: the owner takes the funds back.
CancelByOwner(caller, tx) ==
  /\ Initialized
  /\ pending[tx] > 0
  /\ delay[tx.who] > 0
  /\ reverser[tx.who] = NoAccount /\ caller = tx.who
  /\ <<tx, pending[tx]>> \in DOMAIN agenda
  /\ held[tx.who] >= tx.amount /\ CanDeposit(free, tx.who, tx.amount)
  /\ Settle(tx, <<tx, pending[tx]>>)
  /\ free' = [free EXCEPT ![tx.who] = @ + tx.amount]
  /\ UNCHANGED <<frozen, settings>>

\* cancel with an explicit reverser: the funds go to the reverser.
CancelByReverser(caller, tx) ==
  /\ Initialized
  /\ pending[tx] > 0
  /\ delay[tx.who] > 0
  /\ caller = reverser[tx.who]
  /\ <<tx, pending[tx]>> \in DOMAIN agenda
  /\ CanTransferOnHold(tx.who, caller, tx.amount)
  /\ Settle(tx, <<tx, pending[tx]>>)
  /\ free' = [free EXCEPT ![caller] = @ + tx.amount]
  /\ UNCHANGED <<frozen, settings>>

\* Mutant: the transfer is tried before the hold is released.
CanExecuteUnreleased(tx) ==
  /\ pending[tx] > 0
  /\ held[tx.who] >= tx.amount /\ CanDeposit(free, tx.who, tx.amount)
  /\ CanKeepAlive(free, held, tx.who, tx.dest, tx.amount)

\* What do_execute_transfer needs to return Ok: the pending entry, the hold, and
\* a transfer_keep_alive that succeeds on the released funds.
CanExecute(tx) ==
  LET f == [free EXCEPT ![tx.who] = @ + tx.amount]
      h == [held EXCEPT ![tx.who] = @ - tx.amount]
  IN  /\ pending[tx] > 0
      /\ held[tx.who] >= tx.amount /\ CanDeposit(free, tx.who, tx.amount)
      /\ CanKeepAlive(f, h, tx.who, tx.dest, tx.amount)

ExecuteTransfer(name) ==
  LET tx == name[1]
  IN  /\ agenda[name] = 0
      /\ CanExecute(tx)
      /\ Settle(tx, name)
      /\ free' = Moved([free EXCEPT ![tx.who] = @ + tx.amount],
                       tx.who, tx.dest, tx.amount)
      /\ UNCHANGED <<frozen, settings>>

\* Mutant: the release is kept although the transfer failed.
ExecuteFailsReleased(name) ==
  LET tx == name[1]
  IN  /\ agenda[name] = 0
      /\ ~CanExecute(tx)
      /\ agenda' = [n \in DOMAIN agenda \ {name} |-> agenda[n]]
      /\ free' = [free EXCEPT ![tx.who] = @ + tx.amount]
      /\ held' = [held EXCEPT ![tx.who] = @ - tx.amount]
      /\ UNCHANGED <<frozen, settings, pending, index>>

\* execute_transfer returns an error: its storage layer is rolled back, and the
\* task that called it is gone.
ExecuteFails(name) ==
  /\ agenda[name] = 0
  /\ ~CanExecute(name[1])
  /\ agenda' = [n \in DOMAIN agenda \ {name} |-> agenda[n]]
  /\ UNCHANGED <<balances, settings, pending, index>>

-----------------------------------------------------------------------------
(* The rest of the runtime, as far as it moves the same balances. *)

\* ReversibleTransactionExtension: transfer_allow_death, transfer_keep_alive and
\* transfer_all of a reversible account do not pass validation, whatever its
\* policy. Every other call passes.
Validated(who) == delay[who] = 0

TransferAllowDeath(who, dest, v) ==
  /\ Initialized
  /\ Validated(who)
  /\ CanAllowDeath(who, dest, v)
  /\ free' = Moved(free, who, dest, v)
  /\ UNCHANGED <<held, frozen, settings, pending, index, agenda>>

TransferKeepAlive(who, dest, v) ==
  /\ Initialized
  /\ Validated(who)
  /\ CanKeepAlive(free, held, who, dest, v)
  /\ free' = Moved(free, who, dest, v)
  /\ UNCHANGED <<held, frozen, settings, pending, index, agenda>>

\* burn, which the extension lets pass: nobody receives what is spent.
Burn(who, v) ==
  /\ Initialized
  /\ CanSpend(who, v)
  /\ free' = [free EXCEPT ![who] = Reaped(@ - v)]
  /\ UNCHANGED <<held, frozen, settings, pending, index, agenda>>

\* A transfer inside a call that the extension lets pass: fund_airdrop, a vested
\* transfer, which locks what it gives, or a transfer wrapped in a batch.
OtherTransfer(who, dest, v) ==
  /\ Initialized
  /\ CanAllowDeath(who, dest, v)
  /\ free' = Moved(free, who, dest, v)
  /\ \E l \in LockAmount \cup {frozen[dest]} : frozen' = [frozen EXCEPT ![dest] = l]
  /\ UNCHANGED <<held, settings, pending, index, agenda>>

\* A vesting schedule or a vote locks or unlocks funds of an existing account.
SetLock(a, v) ==
  /\ Initialized
  /\ free[a] >= ExistentialDeposit
  /\ frozen' = [frozen EXCEPT ![a] = v]
  /\ UNCHANGED <<free, held, settings, pending, index, agenda>>

NextBlock ==
  /\ Initialized
  /\ agenda' = [name \in DOMAIN agenda |-> agenda[name] - 1]
  /\ UNCHANGED <<balances, settings, pending, index>>

Service == \E name \in DOMAIN agenda : ExecuteTransfer(name) \/ ExecuteFails(name)

Next ==
  \/ \E who \in Account, d \in Delay, r \in Account \cup {NoAccount} :
       SetReversibility(who, d, r)
  \/ \E who, dest \in Account, v \in Amount :
       \/ ScheduleTransfer(who, dest, v)
       \/ TransferAllowDeath(who, dest, v)
       \/ TransferKeepAlive(who, dest, v)
       \/ OtherTransfer(who, dest, v)
  \/ \E who \in Account, v \in Amount : Burn(who, v)
  \/ \E caller \in Account, tx \in TxId :
       CancelByOwner(caller, tx) \/ CancelByReverser(caller, tx)
  \/ \E a \in Account, v \in LockAmount : SetLock(a, v)
  \/ Service
  \/ NextBlock

Spec == Init /\ [][Next]_vars

-----------------------------------------------------------------------------
(* Properties *)

TypeOK ==
  /\ free \in [Account -> Nat]
  /\ held \in [Account -> Nat]
  /\ frozen \in [Account -> Nat]
  /\ delay \in [Account -> Nat]
  /\ reverser \in [Account -> Account \cup {NoAccount}]
  /\ pending \in [TxId -> Nat]
  /\ index \in [Account -> Nat]
  /\ DOMAIN agenda \subseteq TaskName
  /\ agenda \in [DOMAIN agenda -> Nat]

\* The instances of pending transfers of an account, and the units they hold.
PendingOf(a) == {tx \in TxId : tx.who = a /\ pending[tx] > 0}
Instances(a) == UNION {{tx} \X (1..pending[tx]) : tx \in PendingOf(a)}
UnitsOnHold(a) ==
  UNION {{tx} \X (1..pending[tx]) \X (1..tx.amount) : tx \in PendingOf(a)}

(* What is on hold is what is pending: do_schedule_transfer, cancel_transfer *)
(* and do_execute_transfer hold and release in step with the counts, the     *)
(* failing execution and repeated identical transfers included.              *)
HeldIsPending == \A a \in Account : held[a] = Cardinality(UnitsOnHold(a))

(* AccountPendingIndex counts the pending instances and respects its limit,  *)
(* although it is kept apart from PendingTransfers.                          *)
IndexIsPending ==
  \A a \in Account : /\ index[a] = Cardinality(Instances(a))
                     /\ index[a] <= MaxPendingPerAccount

(* Every scheduled task is backed by an instance of its transfer, so that    *)
(* execute_transfer never meets PendingTxNotFound or a missing hold, however *)
(* identical transfers are scheduled, cancelled, executed and fail.          *)
TasksBacked ==
  \A tx \in TxId : Cardinality(NamesOf(tx)) <= pending[tx]

(* An account with funds on hold keeps the minimum free balance: hold is     *)
(* Protect, and its consumer reference stops every later transfer short.     *)
HoldersStayAlive ==
  \A a \in Account : held[a] > 0 => free[a] >= ExistentialDeposit

Received(a, v) == free'[a] = free[a] + v

Beneficiary(a) == IF reverser[a] = NoAccount THEN a ELSE reverser[a]

\* A task of a's left the agenda and v units went where it said: to the
\* destination when its time had come, to whoever may cancel before that.
TaskMoved(a, v) ==
  \E name \in DOMAIN agenda \ DOMAIN agenda' :
    /\ name[1].who = a
    /\ name[1].amount = v
    /\ Received(IF agenda[name] = 0 THEN name[1].dest ELSE Beneficiary(a), v)

HoldStep == \A a \in Account : held'[a] < held[a] => TaskMoved(a, held[a] - held'[a])

(* A hold shrinks by one transfer at a time, which reaches its destination   *)
(* once the delay is over, or the owner or the explicit reverser before.     *)
HoldsGoWhereTheyShould == [][HoldStep]_vars

(* README.md: the pallet is there "to have accounts for which all outgoing    *)
(* transfer are subject to a variable time during which they may be          *)
(* cancelled": what a registered account loses to another one is a scheduled *)
(* transfer that has ended.                                                  *)
TransfersAreDelayed ==
  [][\A a, b \in Account :
       delay[a] > 0 /\ Total(a)' < Total(a) /\ Total(b)' > Total(b) =>
         TaskMoved(a, Total(a) - Total(a)')]_vars

ConservingStep ==
  \E a, b \in Account :
    /\ \A c \in Account \ {a, b} : Total(c)' = Total(c)
    /\ IF a = b
         THEN Total(a)' = Total(a)
         ELSE LET lost == Total(a) + Total(b) - Total(a)' - Total(b)'
              IN  /\ lost \in 0..(ExistentialDeposit - 1)
                  /\ lost > 0 => Total(a)' = 0

BurnStep == \E a \in Account, v \in Amount : Burn(a, v)

(* No step creates funds, and but for a burn none loses any except the dust  *)
(* of an account it kills; a step touches two accounts at most (release and  *)
(* transfer within one execution, and transfers to oneself, included).       *)
FundsConserved == [][ConservingStep \/ BurnStep]_vars

LockStep == \A a \in Account : Total(a)' < Total(a) => Total(a)' >= frozen[a]

(* Locked funds stay: hold ignores the locks (Fortitude::Force), so it is    *)
(* for execution and for the reverser's cancel to leave the locked amount.   *)
LockedFundsStay == [][LockStep]_vars

(* README.md: the task is named after the transfer "so that user is able to  *)
(* cancel the dispatch by the `tx_id`", with the counter to tell identical   *)
(* transfers apart: whenever a cancel may be applied to a scheduled transfer, *)
(* the task that cancel looks for is in the agenda.                          *)
ScheduledIsCancellable ==
  Initialized =>
    \A tx \in TxId : NamesOf(tx) # {} => <<tx, pending[tx]>> \in DOMAIN agenda

(* README.md: "At the execution block, scheduler calls the `execute_transfer`*)
(* which *takes* the call from `Preimage` and dispatches it, cleaning up the *)
(* storage": with no task left there is nothing pending.                     *)
ExecutionCleansUp ==
  \A tx \in TxId : pending[tx] > 0 => NamesOf(tx) # {}

-----------------------------------------------------------------------------
(* The escrow that the pallet is *)

\* Who takes back what an account has scheduled.
Guardians == [a \in Account |-> Beneficiary(a)]

\* Instances without a task: their execution has failed.
Stuck == [tx \in TxId |-> pending[tx] - Cardinality(NamesOf(tx))]

Promise == INSTANCE Escrow
             WITH Number <- 1 .. MaxPendingPerAccount, Lock <- LockAmount,
                  Minimum <- ExistentialDeposit,
                  wallet <- free, escrowed <- held, locks <- frozen,
                  guardian <- Guardians, running <- agenda, stuck <- Stuck

(* The pallet keeps the promise of an escrow: holds, counts, index and tasks *)
(* together are deposits, each of which is settled once, and an execution    *)
(* fails for no other reason than locks or a destination below the minimum.  *)
ImplementsEscrow == Promise!Spec
=============================================================================
