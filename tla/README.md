# TLA+ models of the Resonance chain

Resonance (Quantus) is a Substrate chain with a proof of work of its own
(QPoW), reversible transfers and a few small pallets. This directory holds TLA+
models of its parts, the TLC configurations that check them, and proofs that
TLAPS checks. Every definition is translated from the code under `src/`;
`PROJECT.json` maps each one to its lines.

1. [The system](#the-system)
2. [What is modelled](#what-is-modelled)
3. [Runs](#runs)
4. [Proofs](#proofs)
5. [Where code and docs disagree](#where-code-and-docs-disagree)
6. [What is not modelled](#what-is-not-modelled)
7. [Plan](#plan)

## The system

A node runs the runtime (pallets) in its block import and authoring, a proof of
work client around it, a mining loop, and optionally talks to a separate miner
process over HTTP.

| Part | Source | State | Operations | What makes it correct |
|---|---|---|---|---|
| Reversible transfers | `pallets/reversible-transfers`, `runtime/src/transaction_extensions.rs` | reversible accounts, pending transfers with a count, index of each account | set_reversibility, schedule_transfer, cancel, execute_transfer; the extension's validate | holds, counts and scheduled tasks agree; funds on hold go to the destination, or back; no other payment touches what is on hold or locked |
| Balances | `pallets/balances` | free, reserved, frozen of each account; holds, locks, freezes, named reserves; issuance | transfers, reserve and hold, lock and freeze, force calls, burn | issuance is the sum of the accounts; no account below the minimum, none reaped with consumers |
| Scheduler | external | agenda of named tasks | schedule_named, cancel_named, on_initialize | (as used by reversible transfers) |
| QPoW pallet | `pallets/qpow` | distance threshold, block time history, total work | on_finalize adjusts, verify_for_import, submit_nonce | the threshold stays between its limits and follows the block time |
| QPoW mathematics | `qpow-math` | none | is_valid_nonce | miner, node and runtime agree |
| Mining worker | `client/consensus/pow` (worker.rs, start_mining_worker) | current build, version | on_build, on_major_syncing, metadata, version, submit | the proposal follows the best block; the version pins it |
| Mining loop | `node/src/service.rs`, `external_miner_client.rs` | nonce, current job | one round of local or external mining | blocks keep coming; jobs do not leak |
| External miner | `external-miner`, `resonance-miner-api` | job table | mine, result, cancel; mining loop | answers are right and stay |
| PoW import | `client/consensus/pow/src/lib.rs`, `client/consensus/qpow/src/lib.rs` | total difficulty of each block | verify, import | no block without a valid seal |
| Chain selection | `client/consensus/qpow/src/chain_management.rs` | ignored chains | best_chain, finalize_canonical_at_depth | the heaviest chain within the reorganisation limit; what is final stays on it |
| Merkle airdrop | `pallets/merkle-airdrop` | airdrops, claims, one pot | create, fund, claim, delete | one claim each, the pot covers all airdrops |
| Mining rewards | `pallets/mining-rewards` | collected fees | on_finalize | issuance grows by reward and fees, once |
| Wormhole | `pallets/wormhole` | used nullifiers | verify_wormhole_proof | one mint for a nullifier |
| Faucet | `pallets/faucet`, `node/src/faucet.rs` | none | mint_new_tokens | limits |
| Governance | `runtime/src/governance.rs` | preimage deposits | new, update, drop | deposits are reserved and returned |
| Balances migration and weights, runtime assembly, node shell, Dilithium signatures | `pallets/balances`, `runtime/src`, `node/src`, `dilithium-crypto` | none of their own | upgrade code, parameters, command line and RPC, type conversions | (not modelled) |

How they interact:

- Reversible transfers hold and move funds in balances, register callbacks with
  the scheduler, and are called back by it at the start of a later block. The
  transaction extension reads their settings before any extrinsic is applied.
- The authoring task and the mining loop share the `MiningHandle`: a mutex
  around the build and an atomic version. The authoring task wakes on import
  notifications and on a timer.
- The mining loop and the external miner exchange HTTP requests. The loop polls;
  the miner never calls back.
- Import runs the runtime to verify a seal; `HeaviestChain` asks the runtime for
  total work and writes ignored chains into the node's database; a separate task
  finalizes at a depth on every import notification. The client notifies of its
  own blocks and of those that the network announces, but of a block of an
  initial sync only when it causes a reorganisation.
- Fees flow from transaction payment into mining rewards and are issued again
  with the reward of the block.

What is hard in this code: the bookkeeping of reversible transfers is spread
over three pallets, each call may fail half way, and the scheduler drops a task
whether it succeeded or not; the mining loop reads shared state in several steps
and acts on it later; requests and answers are lost and the miner restarts;
fork choice depends on the order of blocks; the arithmetic of balances and of
the threshold is full of boundaries. `PROJECT.json` lists these hazards by line,
with the properties that watch them.

## What is modelled

### Reversible transfers: `ReversibleTransfers`

The pallet's three storage maps are `delay` and `reverser` (an entry of
`ReversibleAccounts`), `pending` (the count of a `PendingTransfers` entry) and
`index`; the balances it moves are `free`, `held` and `frozen`; `agenda` is the
scheduler's set of named tasks, with the blocks each has to go.

Each call is one action. Pallet calls run in a storage layer, so one that
returns an error changes nothing, and its conditions are guards. The exception
is `execute_transfer`, dispatched by the scheduler: on an error the layer is
rolled back but the task is used up (`ExecuteFails`). A block services what is
due (`Service`) before anything else may happen (`Initialized`).

The rest of the runtime acts on the same accounts. The extension turns away
`transfer_allow_death`, `transfer_keep_alive` and `transfer_all` of a reversible
account (`Validated`). Both of its policies return an error from validation (what
the Intercept policy does before that is discarded), so the policy is left out.
Every other call passes, and some of them pay: `Burn`, and in `OtherTransfer` the
funding of an airdrop, a vested transfer, which locks what it gives, and a
transfer wrapped in a batch or another call. `SetLock` is a lock of vesting or
voting.

A transfer id is a record of sender, destination and amount in place of its
hash, and a task name is the id with the count it was scheduled with, as in
`make_schedule_id`.

`Escrow` is what the pallet promises, without its bookkeeping: a registered
account makes deposits, each runs for the delay of its account, then it is paid
to its destination, or before that the guardian takes it back; payments beside
the escrow leave alone what is in it and what is locked, and leave the minimum
to whoever has a deposit. A payment fails for two
reasons, which are its `Locked` (what is left would not cover the locks) and
`Unborn` (the destination would stay below the minimum), and then the deposit is
`stuck`. `ReversibleTransfers` implements it (`ImplementsEscrow`): the deposits
that run are the tasks in the agenda, those that are stuck are the instances
that counts have beyond the tasks, the guardian is the reverser or the owner.

### Mining: `NonceSearch`, `ExternalMiner`, `MiningNode`

`NonceSearch` is what the external miner promises: an accepted job runs until it
is answered, the answer is right, and stays until the job is cancelled or the
service restarts.

`ExternalMiner` is the service. The job table is behind one mutex, which a
handler holds for its access to the table and the mining loop for a whole pass,
so each is one action. `Mined` is what a pass does to one job, with the order of
increment, range check and hash that the code has. The hash itself is the
constant `Valid`.

`MiningNode` composes the authoring task (`task`, `base`), the handle (`build`,
`lock`, `stale`), the mining loop (`loop`, `md`, `seal`, `took`, `job`) and the
miner service, the latter as an instance of `NonceSearch`. A step is what happens
between two points where another thread may run: lock acquisitions, awaits and
the atomic read of the version. So reading the metadata and the version are two
steps, and so are the verification and the taking of the build in `submit`.
The version is compared only with the one the loop has read last; the model
keeps the result of that comparison (`stale`), which makes the state finite.
Hashes, pre-hashes and job ids are taken from small sets, each time one that
nobody refers to. A seal is identified with the pre-hash it solves.
`pinned` and `abandoned` are history variables: no action tests them, other than
to choose a fresh job id.

The environment acts through `Fault`: blocks from the network, syncing, errors
of authoring, lost requests and answers, failing imports, a block on another
parent winning the fork choice, and restarts of the miner. `MaxFaults` bounds
how often, not what the node does in between.

### Chain selection: `HeaviestChain`

`tree` holds the imported blocks, each with the set of the blocks of its chain
(so that descent is membership and the number of a block is a cardinality), its
total difficulty of `PowAux` and the difficulty its own state demands of a child
(`next`). `best` and `finalized` are the client's, `ignored` is the list in the
auxiliary store.

`BestChain` is the loop of `best_chain` as a recursive function along the order
of the leaves, which the backend chooses; `ReorgDepth` is what
`find_common_ancestor_and_depth` computes. One call of `best_chain` is one step:
what it reads between its first and last line is in the client's database, and
its writes to the ignore list only add. `find_best_chain` is an operator; the
client always has a best block, so nothing reaches it.

An import is two steps: `Begin` asks for the best chain and its total, and
`Finish` hands the block to the client with a decision made on that total. What
lies between, inherents and the seal's verification, are awaits, and two
importers, the queue and the miner, overlap. `Refuse` is each return in between.
The finalization task is three steps, `ReadBest`, `ReadCanonical` and
`FinalizeBlock`, as `finalize_canonical_at_depth` reads the client twice and
calls it once. The task wakes on a notification, and not every block gives one
(`Announced`): one of the node's own importer (`Own`), one that the network
broadcasts, and one of an initial sync if it reorganises (`Origin` is the choice
between the last two). `silent` counts the new best blocks since the task last read the
best block of which it was not told. It and `task.seen` are history: no guard reads
them.

Of the client (sc-client, external) the model assumes: import and finalization
are serialised by its lock; a finalized block displaces the branches beside it,
whose leaves and states disappear; a best block beside a newly finalized block
is replaced by that one; a block below or beside the finalized one is not
finalized; `import_notification_stream` gives blocks of an initial sync only when
they reorganise, and all others.

What `best_chain` adds up as a chain's work is the total of `PowAux` plus one
(`ChainWork`), by definition. Whether the two stay one apart is a question about
the difficulty pallet, and `TotalsAgree` of `qpow_difficulty` asks it.

### Difficulty: `QPow`, `QPowMath`

`QPow` is the pallet, one step per block: `on_idle` with its reset of a chain
that has not begun, the ring of block times, the adjustment with its clamp and
fixed-point division, the period, the total work, and what is stored for
history. `halted` says that `on_finalize` would panic, after which no block can
be built on the head. `recent` and `aux` are history variables: the latest block
times, and the total that `PowAux` adds up for the same chain. All numbers are
scaled down, with the width of a word and the saturation in place.

`QPowMath` is `qpow-math`: powers, Euclid's algorithm, Miller-Rabin, the group
hash and the distance, over words of `Width` bits, with SHA3 as a permutation of
words. It has no state. `MCExternalMiner` takes the set of valid nonces, a
constant of the miner's model, from it (`ValidIsComputed`).

### Tokens: `Balances`, `Distribution`

`Balances` is the pallet as a sequential ledger. `ledger` is the storage:
accounts with free, reserved and frozen balance, locks, freezes, holds, named
reserves and the issuance, and the reference counts that `frame_system` keeps.
`MutateAccount` is `try_mutate_account`, through which every change of an account
goes; an operator for each function takes a ledger and returns the next one with
dust, or an error. A call that errs is no step, since the storage layer undoes
it. `credit` and `debt` are imbalances in callers' hands, dropped at any later
time; `deposits` is what callers have reserved anonymously. The traits'
provided methods (`frame_support`) are external, modelled from how the pallet
overrides what they call.

`Distribution` extends that ledger with the pallets that pay: mining rewards,
wormhole, faucet, the Merkle airdrops with their common pot, vesting as far as
it locks, and preimage deposits, of which an account has one at a time. Hashes of Merkle trees are terms, an unordered
pair for a parent. A vesting period of one stands for no vesting: `claim` locks
the tokens even then, until somebody calls `vest`. `lost` counts what
a claim leaves in the pot below the existential deposit, which is burned.

Assumptions on the callers of `Balances`: no other pallet provides or consumes
references of these accounts; locks are set on accounts that exist (vesting and
voting do so); whoever unreserves anonymously asks for at most what it reserved;
the rest of the chain (`Rest`) holds at least what is being settled, so that the
issuance never saturates.

## Runs

| Run | Instance | States | Shows |
|---|---|---|---|
| `rt_ledger` | owner and guardian, amounts 1 and 2, delays 0 and 2, lock 5 | 135,417 | counts, index, holds and tasks agree; holders stay alive; what leaves a hold goes to the destination in time or to the guardian before it; funds are conserved but for burns and dust; locked funds stay; `Escrow` is implemented |
| `rt_guard` | as `rt_ledger`, owner reversible from genesis | counterexample | a reversible account that pays without delay |
| `rt_cancel` | same | counterexample | a scheduled transfer that cannot be cancelled |
| `rt_cleanup` | same | counterexample | a pending entry without a task |
| `miner_search` | two jobs, nonces 0 to 3, one work with a solution and one without; words of five bits | 3,364 | answers right, no overflow, jobs end, `NonceSearch` is implemented; the arithmetic agrees with its definitions |
| `mining_node` | two faults of any kind, with and without an external miner | 773,325 | version, seals, jobs; proposals and blocks keep coming |
| `mining_poll` | same | counterexample | a change of metadata that the poll does not notice |
| `chain_selection` | five blocks, two difficulties, two importers, limit 3 | 484,156 | the selection is the heaviest in any order; import and selection agree; the best block gets lighter only by races; the finalization task sleeps only when it has caught up with what it was told of; after a notification finality catches up |
| `reorg_limit` | six blocks, difficulties 1 and 4, one importer, limit 3 | counterexample | import adopts a branch that is deeper than the limit |
| `qpow_difficulty` | 13 blocks with short, exact and long gaps, ring of 3, period 1 | 562,108 | threshold in bounds, ring right, totals agree, history agrees, the adjustment's size, when a block panics |
| `balances_ledger` | two accounts, deposit 2, supply up to 6, one lock size, one identifier of each kind | 12,126 | references, issuance and reserves agree with the accounts; locks hold |
| `token_distribution` | two users, two airdrops, three proofs, two of them with one nullifier | 82,166 | the pot covers the airdrops, every token is accounted for, nobody's tokens or airdrops pay for another's |

The bounds. Reversible transfers: two instances of one transfer per account are
enough for everything that the count decides: one executes or is cancelled while
another with the same id stays. Two amounts give two ids that share an index and
a hold. Funds and locks are such that each of the balance conditions is
sometimes the one that fails: the minimum is 2, so that a remainder of one is
dust. Mining: four nonces give ranges of one, ranges at both ends and ranges with the
solution first, last, in the middle and outside. Two faults cover every pair of
interferences, e.g. a lost answer followed by a restart, or a new best block
while a build is being taken; the sets of hashes and ids are large enough that a
fresh one always exists (without one, a proposal or a job would never come,
against `BuildTracksBest` and `BlocksKeepComing`).

Chain selection: five blocks are two branches of which one is longer than the
limit, or three leaves at once; two difficulties make a shorter branch heavier,
and make ties. Beyond `MaxBlocks` nobody mines, and what is left to do is
finalization: the finalized block moves up to three times, on either of two
branches, while blocks of both importers arrive with and without notification.
Difficulty: with
gaps of 4, 10 and 25 against a target of 10 the ratio is clamped at both ends and
left alone in between; from a threshold of 64 with a scale of 10 the minimum and
the maximum are reached within 13 blocks. Balances: an existential deposit of two
makes one unit dust; a supply of six lets an account hold free, reserved and
frozen balance at once and the other be reaped beside it, and repatriated
reserves meet others there. A lock or freeze is of three or removed: below the
deposit it would bind nothing that the deposit does not, and two at once are
still told from their sum. Distribution: the pot
is endowed only by funding, two airdrops of one root compete for it, and one of
the exits is below the deposit. Genesis leaves four to one user, and six in all
can be at hand: enough to fund both airdrops, to claim from one with the other
funded, to lose dust twice and to pay two fees in one block; the user who holds
the balance of genesis also has the smaller leaf, and can claim it twice. Words of five bits contain the odd composites 9
to 27 and every pair of a base and a modulus below 32.

Deadlock is checked in all runs but two, where reaching a bound is the end:
`qpow_difficulty` (the last block, or a panic) and `token_distribution` (every
nullifier spent and every amount at its limit).

Fairness:

- `ExternalMiner`: `start_mining_loop` spawns an endless loop, so passes keep
  coming.
- `MiningNode`: weak fairness for the steps of each task (tokio polls both, and
  the timer runs), for the end of a major sync and for the miner's answers.
  Strong fairness of `TryFinds` says that among nonce after nonce there is a
  valid one at last, which is the assumption of proof of work; it also keeps the
  loop from resting there, since a nonce is tried wherever one may be found. The
  subscripts are the one variable that each of these actions always changes.
- `HeaviestChain`: an import that has begun returns, with or without a block, and
  the finalization task, which the node spawns as an essential one, is polled as
  long as it has a notification. Nothing is assumed about whether blocks come.

## Proofs

Every safety property that a passing run checks is proved, but for the
arithmetic below.

`ReversibleTransfersProofs` proves those of `rt_ledger`, for every set of
accounts, amounts, delays and locks and all limits:

- `TypeCorrect` (no balance underflows), `HeldIsAlwaysPending`,
  `IndexIsAlwaysPending`, `TasksAlwaysBacked`, `HoldersAlwaysAlive` as invariants;
- `HoldsAlwaysGoWhereTheyShould`, `LockedFundsAlwaysStay`,
  `FundsAlwaysConserved` as action properties;
- `ReversibleImplementsEscrow`, the refinement of `Escrow`.

`TypeOK` is inductive as it stands. The inductive invariant for the counts is
`BooksInv`: types, `HeldIsPending`,
`IndexIsPending`, `TasksBacked`, and finiteness of the sets that these count,
without which a cardinality says nothing. Every step has one of four shapes
(`StepsKeepBooks`): it opens an instance, closes one, uses up a task whose
execution failed, or leaves the books alone. Holds and index are cardinalities of
sets of instances and units, so that these sums need no recursion; the lemmas
`InstancesGrow` and `UnitsGrow` say what one instance more or less does to them.
`HoldersStayAlive` is inductive together with the types, since every payment
keeps the minimum of an account that has something on hold. The action
properties follow from types and the guards of one step. The refinement takes
each action to one of the escrow's (`RegisterSeen` to `OthersSeen`), from
`BooksInv` and `HoldersStayAlive`: a task has an instance that is pending
(`TaskIsPending`) and the hold covers it (`HoldCovers`), so that nothing is left
for an execution to fail on but locks and the destination; the count that names
a task is within the limit (`PendingBelowIndex`); and scheduling, cancelling and
executing leave as many instances stuck as before.

`ExternalMinerProofs` proves, for every work, range and set of valid nonces:

- `NonceNeverOverflows`, `AnswersAreRight`: types and `SearchSound` together are
  inductive; the case of a pass reduces to one job (`MinedSound`), where
  `hash_count` = `current_nonce - nonce_start + 1` is what makes the increment
  right;
- `MinerImplementsNonceSearch`: the refinement, by the same invariant and what a
  pass makes of one job as a client sees it (`MinedAnswers`);
- `EveryPassAdvances`: the nonces left of a job (`Left`) are at least one while it
  runs and at most its range, a pass takes one away or answers the job, and a
  request adds or removes a job without setting another back. With a loop that
  keeps passing, which is the fairness of the run, this is `JobsEnd`.

`MiningNodeProofs` proves the safety properties of `mining_node`, for any number
of faults: `NodeTypeCorrect`, `VersionAlwaysPins`, `GoodSealsAlwaysKept`,
`JobsNeverLeakOtherwise`, and beyond them `ImportsWhatWasMined`,
`NodeUsesNonceSearch` and `JobsStayFew`. `VersionPinsMetadata` is inductive as it stands. For the
other two, `SealInv` says that a build that is being replaced or has replaced the
one the loop works on is another one (a proposal has a pre-hash of its own), and
`JobInv` that when the loop submits, its last job is gone or its cancellation was
lost. `WorkInv` follows the work instead of the version: the job that is polled
is for the metadata the loop has read, the seal solves it, and a build with the
same pre-hash is the same build. So what `submit` takes in the second of its two
locks, if import accepts the seal for it, is what was mined on
(`ImportsWhatWasMined`): whatever slips in between costs a refused import and
nothing else. `NodeUsesNonceSearch` says that the node's steps on the miner are
those of `NonceSearch`, so that what `ExternalMiner` implements is what the node
relies on. `LostInv` counts: each abandoned job took a fault of its own, so the
miner's table stays within one more than the faults (`JobsStayFew`).

`QPowProofs` proves every property of `qpow_difficulty`, for all scales, clamps, targets, periods, ring sizes, gaps and initial
thresholds: `ThresholdStaysBounded`, `TotalsAlwaysAgree`, `OnlyTheFloorHalts`,
`HistoryAlwaysAgrees`, `AdjustmentAlwaysBounded`, `RingAlwaysRecent`. The
inductive invariant for the first five is `QInv`. It adds two facts to the properties: `Fresh`, that until the first
`on_finalize` the threshold is the initial one (so that what `on_idle` sets is what is
there), and `Floor`, that the threshold is either the minimum or at least what
the log line's shift can divide (so that only the minimum halts). `Adjustment`
puts the arithmetic of one adjustment together: what the clamp, the division
before the multiplication and the two limits make of a threshold. It assumes
that the initial threshold is not below the shift (2^10), and that one clamped
step from the scale (10^18) is not either.

`RingAlwaysRecent` rests on `InRing`: slot `k` holds what its age says
(`Place(k)`), before and after the ring is full, so the ring is a rearrangement
of the latest block times. That a rearrangement has the same sum follows without
recursion from sums being cardinalities of sets of units (`SumOfRearranged`).
That the median read from it is one takes three facts: block times can be sorted
(`CanBeSorted`, by counting how many are smaller), a sorted sequence has as many
elements up to each place as the place says (`RisingSplits`), and half of them
lie on either side of the middle (`MiddleOfRising`).

`HeaviestChainProofs` proves the safety properties of `chain_selection`, for any
number of importers and blocks, any difficulties and limit:
`BestAlwaysExtendsFinalized`, `ImportAlwaysKeepsHeaviest`, `LighterOnlyByRaces`,
`SleepsOnlyCaughtUp`, `FinalityNeverGoesBack` and `SelectionAlwaysHeaviest`. The
invariant `HInv` adds to the types that a block
under import has a known parent, that notifications, and silent blocks, are
fewer than blocks
(`CountInv`: the numbers of blocks under import are reserved), and, for the
third theorem, that what the finalization task is about to finalize lies on the
chain of the best block as long as that is the one it has seen (`TaskInv`).
`SleepsOnlyCaughtUp` is the safe half of `FinalityCatchesUp`: a task with nothing
to do and no notification left is within the limit of the best block, but for one block for each that it was not told of, so no notification is missed and
none is answered with too little. It rests on two facts about an import: a new
best block either leaves a notification or is counted as silent
(`AnnouncedOrSilent`), and is at most one higher than what was best
(`BestGrows`).
`SelectionAlwaysHeaviest` is about a loop: what it has chosen after each leaf is
a function on the numbers up to that of the leaves, which exists and is unique
(`UpTo`, least counterexample), and what it has chosen is eligible and no
eligible leaf so far outweighs it.

`BalancesProofs` proves every property of `balances_ledger`, for every set of
accounts and identifiers and all amounts: `TypeCorrect`, `ReferencesStayRight`,
`IssuanceConserved`, `ReservesStayBacked`, `LocksRespected`, and beyond them
`HeldStaysAlive` and `SubtractionsExact`. The inductive invariant `IInv` has
three parts: the ledger is `Sound` (an account is absent or has the existential
deposit free, and the two reference counts are what its data says), what is
frozen is the largest of locks and freezes, and the `Books` agree (the gap
between issuance and balances is the rest of the chain and the imbalances under
way; what holds and named reserves leave of a reserved balance is what callers
reserved anonymously). `Sound` asks for more than the pallet asserts: reserves
never stand on a free balance below the deposit. Without that a slash could take
the provider while the consumer stays. The proof goes outward from
`MutateAccount`, through which all writes go: what it writes (`Settled`), then a
lemma for each operator on ledgers (what it does to the gap, to the spare part
of the reserves and, for calls that respect locks, to what is covered), then one
for each action. Sums are cardinalities of sets of units, as above.

`DistributionProofs` proves the properties of `token_distribution`, for any
airdrops, proofs and accounts: `PotSuffices`, `EveryTokenAccounted`,
`NobodyPaysForAnother`, and beyond them `NothingPaidTwice` and `LedgerKept`,
that the ledger's own properties hold under the calls of these pallets.
The invariant `DistributionInv` consists of `IInv` with a pot that nothing is
locked or reserved of; airdrop numbers below the next one; `PotCovers` itself;
the supply as the sum of all that came in; and that the nullifiers used are
those of a set of proofs, of which a part has paid its exit and the others were
too small (`Spent`). Each step says by how much it shifts the supply and the pot
and takes from whom (`Shifts`), and the books of the pallets are shown to shift
by as much. That is also `NobodyPaysForAnother`: a claim or a deletion takes
from the pot what its airdrop's balance loses and no more, and an account gets
poorer by a payment of its own only. `NothingPaidTwice` adds that each exit and
each payment of an airdrop spends a nullifier or a claim that was new, for good:
claims outlive their airdrop, so it needs that they are for numbers that have
been given (`ClaimsOK`), and that none is given again.

`QPowMathProofs` proves `CoprimeIsCoprime`, one of the four parts of
`NumberTheory`, for words of every width. A round of Euclid's loop makes the
second word smaller (`NextPair`), so there is a function that follows it
(`EuclidExists`, by least counterexample), and keeps the common divisors
(`RoundKeepsDivisors`), so that function answers one for the pairs that have none
but one (`EuclidDecides`).

The assumptions are those that the modules name: constants have their types,
the existential deposit and the minimum delay are positive, genesis balances are
zero or at least the minimum, no work accepts nonce zero (`is_valid_nonce`
refuses it), there is a best block from the start, and, for
`FundsAlwaysConserved`, there is an account. For the paying pallets: the block
reward is at least the existential deposit (a `UNIT` against a `MILLI_UNIT`), so
that a reward is never too small for a new account; vesting asks for a positive
amount; the pot's account belongs to nobody and is not endowed in genesis. New hashes and ids are ones
that nobody refers to.

Only model-checked:

- all liveness (`JobsEnd`, `BuildTracksBest`, `BlocksKeepComing`,
  `FinalityCatchesUp`), which needs fairness and ENABLED, out of the prover's
  reach;
- `MathematicsHolds`, but for its part about Euclid's algorithm. It compares
  bit-by-bit powers and distances with their definitions, through folds and
  exponents of which the provers know nothing, and Miller-Rabin with a bound on
  its false witnesses that is a theorem of number theory.

## Where code and docs disagree

- `rt_guard`: all transfers of a reversible account are said to be delayed
  (`reversible-transfers/README.md:3`); the extension delays three calls and
  returns `Ok` for every other (`transaction_extensions.rs:125`), the ones that
  pay included.
- `rt_cancel`: after one of two identical transfers has executed, the other is
  scheduled under a name that `cancel` does not compute any more.
- `rt_cleanup`: an execution whose transfer fails is rolled back as a whole. The
  task is gone, entry and hold stay, and every cancel fails.
- `mining_poll`: the poll for a running job says it checks whether metadata has
  changed, and compares the best hash only. A build that is gone, or rebuilt on
  the same best block, goes unnoticed until the job is answered, and the answer
  is then discarded.
- `reorg_limit`: the limit is called the maximum depth of a reorganisation, but
  only `best_chain` knows it. A branch deeper than that becomes best as soon as
  it is imported with more total difficulty, though `best_chain` would not select
  that block for its depth and would put it on the ignore list "permanently".

Noticed while translating, without a run of their own:

- Deleting an airdrop pays its whole balance with `KeepAlive`
  (`merkle-airdrop/src/lib.rs:532`), so the only funded airdrop cannot be deleted
  unless something else keeps the pot alive. The tests endow the pot
  (`mock.rs:128`), the runtime's genesis does not.
- `claim` locks the tokens of an airdrop without vesting period too, with a
  schedule that is over in a block; they stay locked until `vest` is called.
- `WormholePublicInputs::from_fields` asks for at least 16 fields and reads 18
  (`wormhole/src/lib.rs:67`); the circuit fixes their number, so nothing follows.
- `TechCollectiveTracksInfo::track_for` names tracks 1 and 2 for signed and
  unsigned origins, and `tracks()` has track 0 only; and in
  `RootOrMemberForTechReferendaOriginImpl` the branch for root asks for a signer,
  so it never succeeds (`runtime/src/governance.rs`).
- `get_median_block_time` feeds the metrics only; the adjustment uses the sum.

## What is not modelled

- In reversible transfers: fees, zero amounts, reserves of other pallets,
  transfer proofs, and the agenda's weight limit. With that limit a due task is
  serviced only if the block has room for it, so nothing is said about when tasks
  are serviced.
- In calls that fail late: what they wrote before the error. The storage layer
  undoes it, so such a call is no step, and the models do not watch that layer.
- In balances: a lock on an account that cannot take a consumer reference, whose
  error `update_locks` ignores. The callers of this runtime lock accounts that
  exist.
- In mining: the node's nonce counter (a round of the model starts where it
  likes), seals that happen to solve two pre-hashes, blocks other than the best
  one and the own, and the end of the import notification stream, which ends the
  authoring task with the node.
- In import: the order of digests in a header (the verifier takes the seal off,
  import puts it back) and the inherents themselves; both are reasons to refuse.
- In chain selection: errors of the client's database, which end one call or one
  run of the finalization task and change nothing.
- In the difficulty pallet: `LastBlockDuration` and `LatestNonce`, which nothing
  reads; what a runtime API call writes is dropped with its overlay.
- In balances: inactive issuance, `force_adjust_total_issuance`,
  `upgrade_accounts` (no account predates the pallet's current logic), and
  transfer proofs, which the runtime writes and never reads. In this runtime
  `MaxReserves` is `()`, so that named reserves are always refused; the model
  allows them.
- In distribution: the verifier of wormhole proofs (its verdict is an input),
  the vesting schedule between lock and `vest`, tips, and the transaction pool.
- Referenda and collectives: pallets outside the repository; what the repository
  adds are tables of parameters and two origins without state.
- Weights, benchmarks, migrations, RPC wiring, command line, metrics, key
  handling, chain specifications: input, output, one-shot or generated code
  without state of its own.

## Plan

Done: every component with state of its own is modelled and checked, and every
safety property of a run, the two refinements included, is proved but for the
arithmetic of `QPowMath`. What could follow, in this order:

1. `QPowMath`: that square and multiply computes powers, by an invariant of the
   loop over a power function of the model's own, and that a distance is zero
   only for equal hashes.
2. `MiningNode`: the fork choice of `HeaviestChain` in place of `Fault`'s best
   blocks, so that two nodes can be run against each other.
3. Agenda weights in `ReversibleTransfers`: a block that postpones tasks.
