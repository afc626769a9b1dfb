------------------------------ MODULE Balances ------------------------------
(* The balances pallet (pallets/balances) as a sequential ledger: every call of *)
(* the Currency, reserve, lock, hold and freeze interfaces, and the extrinsics, *)
(* as one step over `ledger`.  A call that returns an error changes nothing (a  *)
(* FRAME call runs in a storage layer), so it is no step.  `credit` and `debt`  *)
(* are the imbalances that callers still hold, `deposits` what callers believe  *)
(* they have reserved anonymously.  Reference counts live in frame_system.      *)
EXTENDS Integers, FiniteSetsExt

CONSTANTS
    Accounts,
    ED,             \* ExistentialDeposit
    LockIds, FreezeIds, HoldReasons, ReserveIds,
    MaxReserves,    \* named reserves an account may have
    LockAmounts,    \* amounts of locks and freezes (bound)
    MaxSupply,      \* largest sum of all balances (bound)
    MaxPending,     \* largest sum of credit and debt that callers hold (bound)
    Rest            \* what all other accounts hold

ASSUME BalancesAssumption ==
    /\ \A S \in {Accounts, LockIds, FreezeIds, HoldReasons, ReserveIds} : IsFiniteSet(S)
    /\ ED \in Nat \ {0}
    /\ {MaxReserves, MaxSupply, MaxPending, Rest} \subseteq Nat
    /\ LockAmounts \subseteq Nat
    /\ Rest >= MaxPending   \* what is being settled is never the whole issuance

VARIABLES ledger, credit, debt, deposits

vars == <<ledger, credit, debt, deposits>>

-----------------------------------------------------------------------------
(* Accounts *)

NoAccount == [free |-> 0, reserved |-> 0, frozen |-> 0]
NoReserve == [i \in {} |-> 0]

Least(x, y)    == IF x < y THEN x ELSE y
Greatest(x, y) == IF x < y THEN y ELSE x
Less(x, y)     == IF x < y THEN 0 ELSE x - y        \* saturating_sub
Sum(f)         == Cardinality(UNION {{i} \X (1 .. f[i]) : i \in DOMAIN f})   \* its units
Highest(f)     == Max({f[i] : i \in DOMAIN f} \cup {0})

Total(d) == d.free + d.reserved
Held(d)  == d.reserved # 0 \/ d.frozen # 0

Supply(s) == Sum([a \in Accounts |-> Total(s.account[a])])

CanDecProvider(s, a) == s.consumers[a] = 0 \/ s.providers[a] > 1

Refused(s) == [ok |-> FALSE, s |-> s, dust |-> 0]

Stays(d) == d.free >= ED \/ d.reserved # 0

(* try_mutate_account: the one place where an account's data changes.  The     *)
(* references follow the data; the last provider is not given up while a       *)
(* consumer remains; what is below the existential deposit is dust.            *)
MutateAccount(s, a, d) ==
    LET old      == s.account[a]
        gains    == old.free < ED /\ d.free >= ED
        lapses   == old.free >= ED /\ d.free < ED
        p        == s.providers[a] + IF gains THEN 1 ELSE 0
        released == s.consumers[a] - IF Held(old) /\ ~Held(d) THEN 1 ELSE 0
        c        == IF Held(d) /\ (~Held(old) \/ released = 0) THEN released + 1 ELSE released
        q        == IF lapses THEN p - 1 ELSE p
    IN  IF (c > released /\ p = 0) \/ (lapses /\ q = 0 /\ c > 0)
        THEN Refused(s)
        ELSE [ok   |-> TRUE,
              dust |-> IF Stays(d) THEN 0 ELSE d.free,
              s    |-> [s EXCEPT !.account[a]   = IF Stays(d) /\ q > 0 THEN d ELSE NoAccount,
                                 !.providers[a] = q,
                                 !.consumers[a] = IF q > 0 THEN c ELSE 0]]

(* The dust goes, the issuance stays. *)
DustForgotten(r) == [r EXCEPT !.dust = 0]

(* mutate_account_handling_dust: the dust goes to DustRemoval, which drops it. *)
HandlingDust(r) ==
    [ok |-> r.ok, s |-> [r.s EXCEPT !.issuance = Less(@, r.dust)], dust |-> 0]

Mutate(s, a, d) == HandlingDust(MutateAccount(s, a, d))

-----------------------------------------------------------------------------
(* fungible::Inspect and Unbalanced, and frame_support's Mutate on top of them *)

(* Locks do not count what is reserved. *)
ReducibleUnlocked(s, a, preservation, polite) ==
    LET d == s.account[a]
    IN  Less(d.free, IF preservation = "Preserve" \/ ~CanDecProvider(s, a) THEN ED ELSE 0)

Reducible(s, a, preservation, polite) ==
    LET d        == s.account[a]
        frozen   == IF polite THEN Less(d.frozen, d.reserved) ELSE 0
        needsED  == \/ preservation = "Preserve"
                    \/ preservation = "Protect" /\ d.free # 0 /\ s.providers[a] = 1
                    \/ preservation = "Expendable" /\ d.free # 0 /\ ~CanDecProvider(s, a)
    IN  Less(d.free, IF needsED THEN Greatest(frozen, ED) ELSE frozen)

CanDeposit(s, a, v) == v = 0 \/ s.account[a].free + v >= ED

CanWithdraw(s, a, v, keep) ==
    LET d == s.account[a]
        free == d.free - v
    IN  v = 0 \/ /\ v <= s.issuance
                 /\ v <= d.free
                 /\ v <= Reducible(s, a, "Expendable", TRUE)
                 /\ free < ED => CanDecProvider(s, a) /\ ~keep
                 /\ free + d.reserved >= d.frozen

WriteBalance(s, a, v) ==
    IF Less(s.account[a].free, v) <= Reducible(s, a, "Expendable", FALSE)
    THEN Mutate(s, a, [s.account[a] EXCEPT !.free = v])
    ELSE Refused(s)

DecreaseBalance(s, a, v, preservation, polite) ==
    WriteBalance(s, a, s.account[a].free - Least(v, Reducible(s, a, preservation, polite)))

IncreaseBalance(s, a, v) ==
    IF s.account[a].free + v < ED THEN Refused(s)
                                  ELSE WriteBalance(s, a, s.account[a].free + v)

Moved(s, a, b, v, preservation) ==
    LET taken == DecreaseBalance(s, a, v, preservation, TRUE)
    IN  IF ~CanWithdraw(s, a, v, preservation # "Expendable") \/ ~CanDeposit(s, b, v)
        THEN Refused(s)
        ELSE IF a = b THEN [ok |-> TRUE, s |-> s, dust |-> 0]
        ELSE IF ~taken.ok THEN taken
        ELSE [IncreaseBalance(taken.s, b, v) EXCEPT !.ok = TRUE]

Burned(s, a, v, preservation) ==
    LET r == DecreaseBalance(s, a, v, preservation, TRUE)
    IN  IF v > Reducible(s, a, preservation, TRUE) THEN Refused(s)
        ELSE IF ~r.ok THEN r ELSE [r EXCEPT !.s.issuance = Less(@, v)]

Minted(s, a, v) ==
    LET r == IncreaseBalance(s, a, v)
    IN  IF ~r.ok THEN r ELSE [r EXCEPT !.s.issuance = @ + v]

SetBalanceOnHold(s, reason, a, v) ==
    LET d == s.account[a]
        r == MutateAccount(s, a, [d EXCEPT !.reserved = @ + v - s.holds[a][reason]])
    IN  IF d.reserved + v < s.holds[a][reason] \/ ~r.ok
        THEN Refused(s)
        ELSE [r EXCEPT !.s.holds[a][reason] = v]

HeldBack(s, reason, a, v) ==
    LET r == DecreaseBalance(s, a, v, "Protect", FALSE)
    IN  IF s.providers[a] = 0 \/ v > Reducible(s, a, "Protect", FALSE) \/ ~r.ok
        THEN Refused(s)
        ELSE SetBalanceOnHold(r.s, reason, a, s.holds[a][reason] + v)

LetGo(s, reason, a, v) ==
    LET r == SetBalanceOnHold(s, reason, a, s.holds[a][reason] - v)
    IN  IF v > s.holds[a][reason] \/ ~CanDeposit(s, a, v) \/ ~r.ok
        THEN Refused(s)
        ELSE IncreaseBalance(r.s, a, v)

-----------------------------------------------------------------------------
(* Reserves *)

(* What is frozen must stay free, whatever is reserved (amounts are not zero). *)
EnsureCanWithdraw(s, a, newFree) == newFree >= s.account[a].frozen

Reserved(s, a, v) ==
    LET d == s.account[a]
    IN  IF v > d.free \/ ~EnsureCanWithdraw(s, a, d.free - v)
        THEN Refused(s)
        ELSE Mutate(s, a, [d EXCEPT !.free = @ - v, !.reserved = @ + v])

Unreserved(s, a, v) ==
    LET actual == Least(s.account[a].reserved, v)
    IN  Mutate(s, a, [s.account[a] EXCEPT !.free = @ + actual, !.reserved = @ - actual])

ReservedSlashed(s, a, v) == Mutate(s, a, [s.account[a] EXCEPT !.reserved = Less(@, v)])

(* Only free and reserved balance together must cover what is frozen. *)
ReducibleOnHold(s, a) ==
    LET d == s.account[a] IN Less(d.reserved, Less(d.frozen, d.free))

Movable(s, a, v) == Least(v, ReducibleOnHold(s, a))

(* do_transfer_reserved: the slashed account is settled inside the closure     *)
(* that settles the beneficiary.                                               *)
Repatriated(s, a, b, v, status) ==
    LET actual == Movable(s, a, v)
        to     == s.account[b]
        giver  == MutateAccount(s, a, [s.account[a] EXCEPT !.reserved = @ - actual])
        taker  == MutateAccount(giver.s, b,
                      IF status = "Free" THEN [to EXCEPT !.free     = @ + actual]
                                         ELSE [to EXCEPT !.reserved = @ + actual])
    IN  IF a = b
        THEN IF status = "Free" THEN Unreserved(s, a, actual)
                                ELSE [ok |-> TRUE, s |-> s, dust |-> 0]
        ELSE IF to = NoAccount \/ ~giver.ok \/ ~taker.ok
        THEN Refused(s)
        ELSE HandlingDust([taker EXCEPT !.dust = @ + giver.dust])

NamedReserve(s, id, a) == IF id \in DOMAIN s.reserves[a] THEN s.reserves[a][id] ELSE 0

(* The entry is not looked at. *)
ChangeUncapped(s, id, a, v) == v

Change(s, id, a, v) == Least(v, NamedReserve(s, id, a))

With(f, id, v)  == [i \in DOMAIN f \cup {id} |-> IF i = id THEN v ELSE f[i]]
Without(f, id)  == [i \in DOMAIN f \ {id} |-> f[i]]
HasRoom(s, id, a) ==
    id \in DOMAIN s.reserves[a] \/ Cardinality(DOMAIN s.reserves[a]) < MaxReserves

NamedReserved(s, id, a, v) ==
    LET r == Reserved(s, a, v)
    IN  IF ~r.ok \/ ~HasRoom(s, id, a)
        THEN Refused(s)
        ELSE [r EXCEPT !.s.reserves[a] = With(@, id, NamedReserve(s, id, a) + v)]

NamedUnreserved(s, id, a, v) ==
    LET change == Change(s, id, a, v)
        r      == Unreserved(s, a, change)
        left   == NamedReserve(s, id, a) - change
    IN  IF id \notin DOMAIN s.reserves[a] \/ ~r.ok
        THEN Refused(s)
        ELSE [r EXCEPT !.s.reserves[a] = IF left = 0 THEN Without(@, id) ELSE With(@, id, left)]

(* Unlike the unreserving, the slashing keeps an entry that has come to zero.  *)
NamedSlashed(s, id, a, v) ==
    LET change == Change(s, id, a, v)
        r      == ReservedSlashed(s, a, change)
    IN  IF id \notin DOMAIN s.reserves[a] \/ ~r.ok
        THEN Refused(s)
        ELSE [r EXCEPT !.s.reserves[a] = With(@, id, NamedReserve(s, id, a) - change)]

(* The named entries change by what was asked, not by what was moved. *)
NamedRepatriatedInFull(s, id, a, b, v, status) ==
    LET change == Change(s, id, a, v)
        r      == Repatriated(s, a, b, change, status)
    IN  IF ~r.ok \/ a = b \/ id \notin DOMAIN s.reserves[a] \/ status # "Free"
        THEN Refused(s)
        ELSE [r EXCEPT !.s.reserves[a] = With(@, id, NamedReserve(s, id, a) - change)]

NamedRepatriated(s, id, a, b, v, status) ==
    LET change == Change(s, id, a, v)
        actual == Movable(s, a, change)
        r      == Repatriated(s, a, b, change, status)
        taken  == [r EXCEPT !.s.reserves[a] = With(@, id, NamedReserve(s, id, a) - actual)]
    IN  IF a = b
        THEN IF status = "Free" THEN NamedUnreserved(s, id, a, v)
                                ELSE [ok |-> TRUE, s |-> s, dust |-> 0]
        ELSE IF id \notin DOMAIN s.reserves[a] \/ ~r.ok
                \/ (status = "Reserved" /\ ~HasRoom(s, id, b))
        THEN Refused(s)
        ELSE IF status = "Free" THEN taken
        ELSE [taken EXCEPT !.s.reserves[b] = With(@, id, NamedReserve(s, id, b) + actual)]

-----------------------------------------------------------------------------
(* Locks and freezes *)

(* The account is updated with the locks alone. *)
UpdateLocksOnly(s, a, locks) ==
    LET r == MutateAccount(s, a, [s.account[a] EXCEPT !.frozen = Highest(locks)])
    IN  [r EXCEPT !.ok = TRUE, !.s.locks[a] = locks]

(* update_locks: the error of mutate_account is ignored, the locks are stored. *)
UpdateLocks(s, a, locks) ==
    LET d == [s.account[a] EXCEPT !.frozen = Greatest(Highest(locks), Highest(s.freezes[a]))]
        r == MutateAccount(s, a, d)
    IN  [r EXCEPT !.ok = TRUE, !.s.locks[a] = locks]

UpdateFreezes(s, a, freezes) ==
    LET d == [s.account[a] EXCEPT !.frozen = Greatest(Highest(s.locks[a]), Highest(freezes))]
        r == MutateAccount(s, a, d)
    IN  IF r.ok THEN [r EXCEPT !.s.freezes[a] = freezes] ELSE r

-----------------------------------------------------------------------------
(* The calls *)

(* One call, with what its callers then hold; MaxSupply and MaxPending bound it. *)
Call(r, c, d, own) ==
    /\ r.ok
    /\ Supply(r.s) <= MaxSupply
    /\ c + d <= MaxPending
    /\ ledger' = r.s
    /\ credit' = c
    /\ debt' = d
    /\ deposits' = own

Ledger(r) == Call(r, credit, debt, deposits)

Issued(v) == [ok |-> TRUE, s |-> [ledger EXCEPT !.issuance = v], dust |-> 0]

Init ==
    /\ \E rich \in Accounts, v \in ED .. MaxSupply :
          ledger = [account   |-> [a \in Accounts |-> IF a = rich THEN [NoAccount EXCEPT !.free = v]
                                                                  ELSE NoAccount],
                    providers |-> [a \in Accounts |-> IF a = rich THEN 1 ELSE 0],
                    consumers |-> [a \in Accounts |-> 0],
                    locks     |-> [a \in Accounts |-> [i \in LockIds |-> 0]],
                    freezes   |-> [a \in Accounts |-> [i \in FreezeIds |-> 0]],
                    holds     |-> [a \in Accounts |-> [i \in HoldReasons |-> 0]],
                    reserves  |-> [a \in Accounts |-> NoReserve],
                    issuance  |-> v + Rest]
    /\ credit = 0
    /\ debt = 0
    /\ deposits = [a \in Accounts |-> 0]

(* transfer_allow_death and force_transfer; transfer_keep_alive *)
Transfer(a, b, v) ==
    \E preservation \in {"Expendable", "Preserve"} :
        Ledger(Moved(ledger, a, b, v, preservation))

TransferAll(a, b) ==
    \E preservation \in {"Expendable", "Preserve"} :
        Ledger(Moved(ledger, a, b, Reducible(ledger, a, preservation, TRUE), preservation))

BurnFrom(a, v) ==
    \E preservation \in {"Expendable", "Preserve"} :
        Ledger(Burned(ledger, a, v, preservation))

MintInto(a, v) == Ledger(Minted(ledger, a, v))

(* force_set_balance: below the deposit the account is wiped; the difference   *)
(* is an imbalance that is dropped at once.                                    *)
ForceSetBalance(a, v) ==
    LET free == IF v < ED THEN 0 ELSE v
        r    == Mutate(ledger, a, [ledger.account[a] EXCEPT !.free = free])
    IN  Ledger([r EXCEPT !.s.issuance = Less(@ + free, ledger.account[a].free)])

(* A negative imbalance lowers, a positive one raises the issuance when it is  *)
(* dropped; split, merge and offset keep their difference.                     *)
DropCredit ==
    /\ credit > 0
    /\ Call(Issued(Less(ledger.issuance, credit)), 0, debt, deposits)

DropDebt ==
    /\ debt > 0
    /\ Call(Issued(ledger.issuance + debt), credit, 0, deposits)

Offset ==
    /\ credit > 0 /\ debt > 0
    /\ Call(Issued(ledger.issuance), Less(credit, debt), Less(debt, credit), deposits)

Issue(v) == Call(Issued(ledger.issuance + v), credit + v, debt, deposits)

Burn(v) ==
    Call(Issued(Less(ledger.issuance, v)), credit, debt + Least(v, ledger.issuance), deposits)

(* slash: free balance only, down to the deposit where the provider is needed  *)
Slash(a, v) ==
    LET d      == ledger.account[a]
        actual == Least(v, IF CanDecProvider(ledger, a) THEN d.free ELSE Less(d.free, ED))
    IN  /\ Total(d) # 0
        /\ Call(Mutate(ledger, a, [d EXCEPT !.free = @ - actual]), credit + actual, debt, deposits)

(* deposit_into_existing, and deposit_creating for at least the deposit *)
Deposit(a, v) ==
    LET d == ledger.account[a]
    IN  /\ d # NoAccount \/ v >= ED
        /\ Call(Mutate(ledger, a, [d EXCEPT !.free = @ + v]), credit, debt + v, deposits)

Withdraw(a, v, keep) ==
    LET d == ledger.account[a]
    IN  /\ v <= d.free
        /\ keep => ~(d.free - v < ED /\ d.free >= ED)
        /\ EnsureCanWithdraw(ledger, a, d.free - v)
        /\ Call(Mutate(ledger, a, [d EXCEPT !.free = @ - v]), credit + v, debt, deposits)

MakeFreeBalanceBe(a, v) ==
    LET d == ledger.account[a]
    IN  /\ v >= ED \/ d # NoAccount
        /\ Call(Mutate(ledger, a, [d EXCEPT !.free = v]),
                credit + Less(d.free, v), debt + Less(v, d.free), deposits)

Reserve(a, v) ==
    Call(Reserved(ledger, a, v), credit, debt, [deposits EXCEPT ![a] = @ + v])

(* Callers, and root with force_unreserve, take back what was reserved so.    *)
Unreserve(a, v) ==
    /\ v <= deposits[a]
    /\ Call(Unreserved(ledger, a, v), credit, debt,
            [deposits EXCEPT ![a] = @ - Least(ledger.account[a].reserved, v)])

SlashReserved(a, v) ==
    LET actual == Least(ledger.account[a].reserved, v)
    IN  /\ v <= deposits[a]
        /\ Call(ReservedSlashed(ledger, a, v), credit + actual, debt,
                [deposits EXCEPT ![a] = @ - actual])

RepatriateReserved(a, b, v, status) ==
    LET actual == Movable(ledger, a, v)
        less   == [deposits EXCEPT ![a] = @ - actual]
    IN  /\ v <= deposits[a]
        /\ Call(Repatriated(ledger, a, b, v, status), credit, debt,
                IF status = "Free" THEN less ELSE [less EXCEPT ![b] = @ + actual])

ReserveNamed(id, a, v)   == Ledger(NamedReserved(ledger, id, a, v))
UnreserveNamed(id, a, v) == Ledger(NamedUnreserved(ledger, id, a, v))

SlashReservedNamed(id, a, v) ==
    Call(NamedSlashed(ledger, id, a, v),
         credit + Change(ledger, id, a, v), debt, deposits)

RepatriateReservedNamed(id, a, b, v, status) ==
    Ledger(NamedRepatriated(ledger, id, a, b, v, status))

Hold(reason, a, v)    == Ledger(HeldBack(ledger, reason, a, v))
Release(reason, a, v) == Ledger(LetGo(ledger, reason, a, v))

(* The callers, vesting and conviction voting, lock balances that exist.  A    *)
(* lock of zero is removed.                                                    *)
RemoveLock(id, a) == Ledger(UpdateLocks(ledger, a, [ledger.locks[a] EXCEPT ![id] = 0]))

SetLock(id, a, v) ==
    IF v = 0
    THEN RemoveLock(id, a)
    ELSE /\ Total(ledger.account[a]) # 0
         /\ Ledger(UpdateLocks(ledger, a, [ledger.locks[a] EXCEPT ![id] = v]))

ExtendLock(id, a, v) ==
    /\ v > 0 /\ Total(ledger.account[a]) # 0
    /\ Ledger(UpdateLocks(ledger, a, [ledger.locks[a] EXCEPT ![id] = Greatest(@, v)]))

Thaw(id, a) == Ledger(UpdateFreezes(ledger, a, [ledger.freezes[a] EXCEPT ![id] = 0]))

SetFreeze(id, a, v) ==
    IF v = 0
    THEN Thaw(id, a)
    ELSE Ledger(UpdateFreezes(ledger, a, [ledger.freezes[a] EXCEPT ![id] = v]))

ExtendFreeze(id, a, v) ==
    /\ v > 0
    /\ Ledger(UpdateFreezes(ledger, a, [ledger.freezes[a] EXCEPT ![id] = Greatest(@, v)]))

-----------------------------------------------------------------------------
Values == 1 .. MaxSupply
Statuses == {"Free", "Reserved"}

(* The steps that respect locks *)
Polite ==
    \/ \E a, b \in Accounts : TransferAll(a, b)
    \/ \E a, b \in Accounts, v \in Values : Transfer(a, b, v)
    \/ \E a \in Accounts, v \in Values : BurnFrom(a, v)
    \/ \E a \in Accounts, v \in Values, keep \in BOOLEAN : Withdraw(a, v, keep)
    \/ \E a \in Accounts, v \in Values : Reserve(a, v) \/ Unreserve(a, v)
    \/ \E a, b \in Accounts, v \in Values, status \in Statuses :
          \/ RepatriateReserved(a, b, v, status)
          \/ \E id \in ReserveIds : RepatriateReservedNamed(id, a, b, v, status)
    \/ \E a \in Accounts, v \in Values, id \in ReserveIds :
          ReserveNamed(id, a, v) \/ UnreserveNamed(id, a, v)
    \/ \E a \in Accounts, v \in Values, reason \in HoldReasons :
          Hold(reason, a, v) \/ Release(reason, a, v)

(* The steps of root, of slashing and of minting *)
Forced ==
    \/ DropCredit \/ DropDebt \/ Offset
    \/ \E v \in Values : Issue(v) \/ Burn(v)
    \/ \E a \in Accounts, v \in 0 .. MaxSupply : ForceSetBalance(a, v) \/ MakeFreeBalanceBe(a, v)
    \/ \E a \in Accounts, v \in Values :
          MintInto(a, v) \/ Slash(a, v) \/ Deposit(a, v) \/ SlashReserved(a, v)
    \/ \E a \in Accounts, v \in Values, id \in ReserveIds : SlashReservedNamed(id, a, v)

(* The steps that change what is frozen *)
Locking ==
    \E a \in Accounts, v \in LockAmounts \cup {0} :
        \/ \E id \in LockIds : SetLock(id, a, v) \/ ExtendLock(id, a, v)
        \/ \E id \in FreezeIds : SetFreeze(id, a, v) \/ ExtendFreeze(id, a, v)

Next == Polite \/ Forced \/ Locking

Spec == Init /\ [][Next]_vars

-----------------------------------------------------------------------------
(* Properties *)

(* Every field is in range, and an account exists only with at least the       *)
(* existential deposit free or with something reserved: the assertion that     *)
(* try_mutate_account makes after every change.                                *)
TypeOK ==
    /\ credit \in 0 .. MaxPending
    /\ debt \in 0 .. MaxPending
    /\ deposits \in [Accounts -> Nat]
    /\ ledger.issuance \in Nat
    /\ ledger.account \in [Accounts -> [free : Nat, reserved : Nat, frozen : Nat]]
    /\ \A a \in Accounts :
          LET d == ledger.account[a]
          IN  /\ d.free = 0 \/ d.free >= ED \/ d.reserved # 0
              /\ DOMAIN ledger.reserves[a] \subseteq ReserveIds
              /\ Cardinality(DOMAIN ledger.reserves[a]) <= MaxReserves
              /\ \A id \in DOMAIN ledger.reserves[a] : ledger.reserves[a][id] \in Nat

(* The references that try_mutate_account keeps agree with the data after any  *)
(* sequence of calls, failed ones included: one provider while the deposit is  *)
(* there, one consumer while something is reserved or frozen, and what is      *)
(* frozen is the highest lock or freeze.  No reference leaks and none is lost, *)
(* so an account can be reaped exactly when nothing depends on it.             *)
ReferencesAgree ==
    \A a \in Accounts :
        LET d == ledger.account[a]
        IN  /\ ledger.providers[a] = IF d.free >= ED THEN 1 ELSE 0
            /\ ledger.consumers[a] = IF Held(d) THEN 1 ELSE 0
            /\ d.frozen = Greatest(Highest(ledger.locks[a]), Highest(ledger.freezes[a]))

(* Whatever the order in which imbalances are dropped and dust is removed, the *)
(* total issuance is what the accounts hold and the callers still have to      *)
(* settle: no call creates or loses a unit.                                    *)
IssuanceAgrees == ledger.issuance + debt = Supply(ledger) + Rest + credit

(* The one reserved figure of an account is the sum of what each interface     *)
(* thinks is its own: holds, named reserves and anonymous reserves, also when  *)
(* a repatriation moves only a part.                                           *)
ReservesBacked ==
    \A a \in Accounts :
        ledger.account[a].reserved
            = deposits[a] + Sum(ledger.holds[a]) + Sum(ledger.reserves[a])

(* No call of an owner or of a pallet that respects locks brings the total of  *)
(* an account below what was frozen.                                           *)
LocksHold ==
    [][(\E a \in Accounts :
           Total(ledger'.account[a]) < Least(Total(ledger.account[a]), ledger.account[a].frozen))
         => ~Polite]_vars

=============================================================================
