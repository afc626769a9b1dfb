---------------------------- MODULE Distribution ----------------------------
(* The pallets that pay tokens out, over the ledger of Balances: miners are     *)
(* rewarded with new tokens and the fees of the block (pallets/mining-rewards), *)
(* wormhole proofs and the faucet mint (pallets/wormhole, pallets/faucet), and  *)
(* Merkle airdrops pay from one pot account with a vesting lock                 *)
(* (pallets/merkle-airdrop).  Each dispatchable is a step; one that returns an  *)
(* error changes nothing.                                                       *)
EXTENDS Balances, Sequences

CONSTANTS
    Pot,                \* account_id() of the airdrop pallet
    Founders, Endowed,  \* accounts of genesis, and their balance
    Amounts,            \* amounts moved by hand (bound)
    BlockReward,        \* BlockReward
    Fee,                \* fee of an extrinsic
    MaxTokenAmount, DefaultMintAmount,    \* the faucet's
    PublicInputs,       \* of the wormhole proofs that the verifier accepts
    AccountOf,          \* the account that four fields encode
    Roots, Proofs,      \* Merkle roots, and the proofs that claims carry
    Periods,            \* vesting periods; 1 stands for none
    MinVestedTransfer,  \* of pallet_vesting
    BaseDeposit, ByteDeposit,     \* of a preimage
    Depositors, Sizes,  \* who notes preimages, and their sizes (bound)
    MaxAirdrops, MaxFees, MaxLost   \* bounds

ASSUME DistributionAssumption ==
    /\ Pot \in Accounts
    /\ Founders \cup Depositors \subseteq Accounts \ {Pot}
    /\ "vesting" \in LockIds
    /\ {Endowed, BlockReward, Fee, DefaultMintAmount, BaseDeposit, ByteDeposit} \subseteq Nat
    /\ Amounts \cup Sizes \subseteq Nat
    /\ MinVestedTransfer \in Nat \ {0}     \* UNIT in the runtime
    /\ Endowed >= ED
    /\ BlockReward >= ED        \* UNIT against MILLI_UNIT in the runtime
    /\ \A fields \in PublicInputs :
          fields[13] \in Nat /\ AccountOf[SubSeq(fields, 9, 12)] \in Accounts

VARIABLES
    fees,           \* CollectedFees
    nullifiers,     \* UsedNullifiers
    airdrops,       \* AirdropInfo
    nextAirdrop,    \* NextAirdropId
    claimed,        \* Claimed
    minted, exited, \* history: base rewards and faucet mints; exits paid
    lost            \* history: what claims left in the pot below the deposit

pots     == <<airdrops, nextAirdrop, claimed>>
history  == <<minted, exited, lost>>
allVars  == <<ledger, credit, debt, deposits, fees, nullifiers, pots, history>>

Users == Accounts \ {Pot}
Free(a) == ledger.account[a].free

DistributionInit ==
    /\ ledger = [account   |-> [a \in Accounts |->
                                    [NoAccount EXCEPT !.free = IF a \in Founders THEN Endowed ELSE 0]],
                 providers |-> [a \in Accounts |-> IF a \in Founders THEN 1 ELSE 0],
                 consumers |-> [a \in Accounts |-> 0],
                 locks     |-> [a \in Accounts |-> [i \in LockIds |-> 0]],
                 freezes   |-> [a \in Accounts |-> [i \in FreezeIds |-> 0]],
                 holds     |-> [a \in Accounts |-> [i \in HoldReasons |-> 0]],
                 reserves  |-> [a \in Accounts |-> NoReserve],
                 issuance  |-> Cardinality(Founders) * Endowed + Rest]
    /\ credit = 0 /\ debt = 0 /\ deposits = [a \in Accounts |-> 0]
    /\ fees = 0 /\ nullifiers = {}
    /\ airdrops = [i \in {} |-> 0] /\ nextAirdrop = 0 /\ claimed = {}
    /\ minted = 0 /\ exited = 0 /\ lost = 0

-----------------------------------------------------------------------------
(* Mining rewards *)

(* The fee is withdrawn as a credit; the collector notes its value and drops   *)
(* the credit, which burns it.                                                 *)
CollectFee(a) ==
    /\ fees + Fee <= MaxFees
    /\ Ledger(Burned(ledger, a, Fee, "Preserve"))
    /\ fees' = fees + Fee
    /\ UNCHANGED <<nullifiers, pots, history>>

(* Issuing and resolving, or depositing and dropping the imbalance: a deposit  *)
(* that is refused leaves balances and issuance as they were.                  *)
Lands(a, v) == ledger.account[a] # NoAccount \/ v >= ED

Created(a, v) ==
    IF Lands(a, v)
    THEN [Mutate(ledger, a, [ledger.account[a] EXCEPT !.free = @ + v]) EXCEPT !.s.issuance = @ + v]
    ELSE [ok |-> TRUE, s |-> ledger, dust |-> 0]

(* The fees are read without being taken. *)
RewardAgain(miner) ==
    /\ Ledger(Created(miner, BlockReward + fees))
    /\ minted' = minted + BlockReward
    /\ UNCHANGED <<fees, nullifiers, pots, exited, lost>>

(* on_finalize of a block whose digest names a miner; without one nothing      *)
(* happens and the fees wait for the next block.                               *)
Reward(miner) ==
    /\ Ledger(Created(miner, BlockReward + fees))
    /\ fees' = 0
    /\ minted' = minted + BlockReward
    /\ UNCHANGED <<nullifiers, pots, exited, lost>>

-----------------------------------------------------------------------------
(* Wormhole and faucet *)

(* from_fields: the fields of a proof's public inputs, in their order.  The    *)
(* fee and the storage root are decoded and never used.                        *)
FromFields(fields) ==
    [nullifier    |-> SubSeq(fields, 1, 8),
     exit_account |-> SubSeq(fields, 9, 12),
     exit_amount  |-> fields[13],
     fee_amount   |-> fields[14],
     storage_root |-> SubSeq(fields, 15, 18)]

(* verify_wormhole_proof: a nullifier is spent even if its exit is too small   *)
(* for an account that does not exist.                                         *)
VerifyWormholeProof(fields) ==
    LET public == FromFields(fields)
        n  == public.nullifier
        to == AccountOf[public.exit_account]
        v  == public.exit_amount
    IN  /\ Len(fields) >= 16
        /\ n \notin nullifiers
        /\ nullifiers' = nullifiers \cup {n}
        /\ Ledger(Created(to, v))
        /\ exited' = exited + IF Lands(to, v) THEN v ELSE 0
        /\ UNCHANGED <<fees, pots, minted, lost>>

MintNewTokens(a) ==
    /\ Free(a) < MaxTokenAmount
    /\ Ledger(Created(a, DefaultMintAmount))
    /\ minted' = minted + IF Lands(a, DefaultMintAmount) THEN DefaultMintAmount ELSE 0
    /\ UNCHANGED <<fees, nullifiers, pots, exited, lost>>

-----------------------------------------------------------------------------
(* Merkle airdrops.  Hashes are terms: a leaf, or the unordered pair of two     *)
(* hashes, for the parent hash sorts its children.                              *)

Leaf(a, v)   == [leaf |-> <<a, v>>]
Parent(x, y) == [children |-> {x, y}]

(* The hash after each element of the proof; the last one must be the root.    *)
VerifyMerkleProof(a, v, root, proof) ==
    LET hash[i \in 0 .. Len(proof)] ==
            IF i = 0 THEN Leaf(a, v) ELSE Parent(hash[i - 1], proof[i])
    IN  hash[Len(proof)] = root

(* Currency::transfer *)
Paid(a, b, v, preservation) ==
    IF v = 0 \/ a = b THEN [ok |-> TRUE, s |-> ledger, dust |-> 0]
                      ELSE Moved(ledger, a, b, v, preservation)

CreateAirdrop(who, root, period) ==
    /\ nextAirdrop < MaxAirdrops
    /\ airdrops' = With(airdrops, nextAirdrop,
                        [root |-> root, creator |-> who, balance |-> 0, period |-> period])
    /\ nextAirdrop' = nextAirdrop + 1
    /\ UNCHANGED <<vars, fees, nullifiers, claimed, history>>

FundAirdrop(who, id, v) ==
    /\ id \in DOMAIN airdrops
    /\ Ledger(Paid(who, Pot, v, "Preserve"))
    /\ airdrops' = [airdrops EXCEPT ![id].balance = @ + v]
    /\ UNCHANGED <<fees, nullifiers, nextAirdrop, claimed, history>>

(* vested_transfer of pallet_vesting: the transfer may end the source, and     *)
(* everything is locked at first, one part per block being released later.     *)
VestedTransfer(a, v, perBlock) ==
    LET r == Paid(Pot, a, v, "Expendable")
    IN  IF v < MinVestedTransfer \/ perBlock = 0 \/ ~r.ok
        THEN Refused(ledger)
        ELSE UpdateLocks(r.s, a, [r.s.locks[a] EXCEPT !["vesting"] = @ + v])

(* The balance of the airdrop is not looked at. *)
CoversAll(id, v) == TRUE

Covers(id, v) == airdrops[id].balance >= v

(* validate_unsigned admits a claim to the pool and, as pre_dispatch, to a     *)
(* block; claim checks the same three again.                                   *)
ValidateUnsigned(id, a, v, proof) ==
    /\ id \in DOMAIN airdrops
    /\ <<id, a>> \notin claimed
    /\ VerifyMerkleProof(a, v, airdrops[id].root, proof)

Claim(id, a, v, proof) ==
    LET rest == Free(Pot) - v
    IN  /\ ValidateUnsigned(id, a, v, proof)
        /\ Covers(id, v)
        /\ lost + (IF rest < ED THEN rest ELSE 0) <= MaxLost
        /\ Ledger(VestedTransfer(a, v, v \div airdrops[id].period))
        /\ claimed' = claimed \cup {<<id, a>>}
        /\ airdrops' = [airdrops EXCEPT ![id].balance = Less(@, v)]
        /\ lost' = lost + IF rest < ED THEN rest ELSE 0
        /\ UNCHANGED <<fees, nullifiers, nextAirdrop, minted, exited>>

(* Whatever the pot can spare. *)
DeleteAirdropEmptying(who, id) ==
    /\ id \in DOMAIN airdrops
    /\ airdrops[id].creator = who
    /\ Ledger(Paid(Pot, who, Reducible(ledger, Pot, "Preserve", TRUE), "Preserve"))
    /\ airdrops' = Without(airdrops, id)
    /\ UNCHANGED <<fees, nullifiers, nextAirdrop, claimed, history>>

(* The whole balance, or nothing: the pot must keep the existential deposit.   *)
DeleteAirdrop(who, id) ==
    /\ id \in DOMAIN airdrops
    /\ airdrops[id].creator = who
    /\ Ledger(Paid(Pot, who, airdrops[id].balance, "Preserve"))
    /\ airdrops' = Without(airdrops, id)
    /\ UNCHANGED <<fees, nullifiers, nextAirdrop, claimed, history>>

(* pallet_vesting, when a schedule has run out *)
Vest(a) ==
    /\ ledger.locks[a]["vesting"] # 0
    /\ Ledger(UpdateLocks(ledger, a, [ledger.locks[a] EXCEPT !["vesting"] = 0]))
    /\ UNCHANGED <<fees, nullifiers, pots, history>>

(* transfer_keep_alive, to the pot as well *)
TransferKeepAlive(a, b, v) ==
    /\ a # b
    /\ Ledger(Moved(ledger, a, b, v, "Preserve"))
    /\ UNCHANGED <<fees, nullifiers, pots, history>>

-----------------------------------------------------------------------------
(* PreimageDeposit: what an account pays for a preimage it has noted; deposits *)
(* holds the amount of each ticket.                                            *)

DepositFor(size) == BaseDeposit + ByteDeposit * size

NewDeposit(who, size) ==
    /\ deposits[who] = 0
    /\ Call(Reserved(ledger, who, DepositFor(size)), credit, debt,
            [deposits EXCEPT ![who] = DepositFor(size)])
    /\ UNCHANGED <<fees, nullifiers, pots, history>>

(* The old deposit is released before the new one is taken. *)
UpdateDeposit(who, size) ==
    LET back  == Unreserved(ledger, who, deposits[who])
        again == Reserved(back.s, who, DepositFor(size))
    IN  /\ deposits[who] # 0
        /\ back.ok
        /\ Call(again, credit, debt, [deposits EXCEPT ![who] = DepositFor(size)])
        /\ UNCHANGED <<fees, nullifiers, pots, history>>

DropDeposit(who) ==
    /\ deposits[who] # 0
    /\ Call(Unreserved(ledger, who, deposits[who]), credit, debt,
            [deposits EXCEPT ![who] = 0])
    /\ UNCHANGED <<fees, nullifiers, pots, history>>

-----------------------------------------------------------------------------
DistributionNext ==
    \/ \E a \in Users : CollectFee(a) \/ Reward(a) \/ MintNewTokens(a) \/ Vest(a)
    \/ \E fields \in PublicInputs : VerifyWormholeProof(fields)
    \/ \E who \in Users, root \in Roots, period \in Periods : CreateAirdrop(who, root, period)
    \/ \E who \in Users, id \in DOMAIN airdrops, v \in Amounts : FundAirdrop(who, id, v)
    \/ \E a \in Users, id \in DOMAIN airdrops, v \in Amounts, proof \in Proofs :
          Claim(id, a, v, proof)
    \/ \E who \in Users, id \in DOMAIN airdrops : DeleteAirdrop(who, id)
    \/ \E a \in Users, b \in Accounts, v \in Amounts : TransferKeepAlive(a, b, v)
    \/ \E who \in Depositors, size \in Sizes : NewDeposit(who, size) \/ UpdateDeposit(who, size)
    \/ \E who \in Depositors : DropDeposit(who)

DistributionSpec == DistributionInit /\ [][DistributionNext]_allVars

-----------------------------------------------------------------------------
(* Properties *)

(* All airdrops are paid from one account: funding, claims, deletions and the  *)
(* removal of a pot below the deposit never leave it short of what the         *)
(* airdrops still promise, but for the dust that claims leave behind.          *)
PotCovers ==
    Free(Pot) + lost >= Sum([id \in DOMAIN airdrops |-> airdrops[id].balance])

(* Every token is accounted for across the pallets: fees are burned when they  *)
(* are collected and come back exactly once with a reward, and a nullifier     *)
(* pays its exit once, or never if that is too small to create the account,    *)
(* however many proofs carry it.  What is reserved is what preimages were      *)
(* charged, through all that befalls an account.                               *)
TokensAccounted ==
    /\ Supply(ledger) + fees + lost
          = Cardinality(Founders) * Endowed + minted + exited
    /\ ledger.issuance = Supply(ledger) + Rest
    /\ \A a \in Accounts : ledger.account[a].reserved = deposits[a]
    /\ \E used \in SUBSET {FromFields(fields) : fields \in PublicInputs} :
          /\ \A p, q \in used : p.nullifier = q.nullifier => p = q
          /\ {p.nullifier : p \in used} = nullifiers
          /\ \E paid \in SUBSET used :
                /\ exited = Sum([p \in paid |-> p.exit_amount])
                /\ \A p \in used \ paid : p.exit_amount < ED

(* What is in the pot beyond what the airdrops still promise. *)
Surplus == Free(Pot) + lost - Sum([id \in DOMAIN airdrops |-> airdrops[id].balance])

(* A step in which the account pays for itself. *)
PaysItself(a) ==
    \/ CollectFee(a)
    \/ \E id \in DOMAIN airdrops, v \in Amounts : FundAirdrop(a, id, v)
    \/ \E b \in Accounts, v \in Amounts : TransferKeepAlive(a, b, v)

NobodyElse ==
    /\ \A a \in Users : Total(ledger'.account[a]) < Total(ledger.account[a]) => PaysItself(a)
    /\ Surplus' >= Surplus

(* Nobody pays for another: a user's tokens shrink only with a fee of its own, *)
(* or because it funds an airdrop or sends them itself, so rewards, mints,     *)
(* claims, deletions, schedules that end and deposits take from no user; and   *)
(* no claim, no deletion and no pot that dies below the deposit is paid with   *)
(* tokens that belong to no airdrop, such as those sent to the pot by hand.    *)
NobodyElsePays == [][NobodyElse]_allVars

=============================================================================
