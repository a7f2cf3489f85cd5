# A verification of the Cortex DAO contracts

The repository holds the smart contracts of a yield platform. Users deposit a
stablecoin into a pool, or into the index token, and receive shares; a part of
the stablecoins is lent to one LP Account, which deploys it through strategies;
pools hold mAPT, the shares of that common deployed capital. What shares are
worth depends on the TVL that Chainlink reports some blocks after the capital
moved, so an oracle adapter stands between the contracts and Chainlink and is
locked while the report is behind. Around this stand the Flux aggregator that
collects the oracles' answers, the governance token with its voting escrow and
its reward distributor, and the contracts and scripts that deploy the system.

This directory states what has to be right about that, in TLA+, checks it on
small instances with TLC, and proves part of it for all instances with TLAPS.

## Inventory

| component | state | operations | talks to | what is hard |
|---|---|---|---|---|
| Oracle adapter (`oracle/OracleAdapter.sol`) | `lockEnd`, `defaultLockPeriod`, `chainlinkStalePeriod`, sources, submitted values | lock, lockFor, unlock, submit and unset values, set sources and heartbeat, read the TVL and prices | Chainlink aggregators, mAPT supply; read by pools, index token and mAPT; locked by mAPT, LP Account, TVL manager, ERC20 allocation | several contracts lock it for different periods; overrides expire; rounds go stale |
| Pool (`pool/PoolTokenV3.sol`) | APT balances, reserve, last deposit times, switches and fees | addLiquidity, redeem, transferToLpAccount, switches, parameters, emergencyExit | oracle adapter, mAPT, LP Account | share arithmetic and its rounding; reserves smaller than claims; a signed top-up equation |
| mAPT (`mapt/MetaPoolTokenV2.sol`) | mAPT balances of the pools | fundLpAccount, withdrawFromLpAccount, getDeployedValue | pools, LP Account, oracle adapter, ERC20 allocation | amounts for many pools computed before anything moves; duplicates; capped withdrawals |
| LP Account (`lpaccount/LpAccountV2.sol`) | token balances, zaps, swaps, reward fees, lock period | deployStrategy, unwindStrategy, swap, swapWith3Pool, claim, transferToPool, registrations, emergencyExit | zaps, swaps, TVL registry, oracle adapter | what a zap does is checked by what it says of itself; fees on what claims bring; a longer lock must survive |
| TVL registry (`tvl/TvlManager.sol`, `tvl/Erc20Allocation.sol`, `libraries/NamedAddressSet.sol`) | allocations and tokens that count | register, remove, look up | Chainlink nodes read it; locks the oracle adapter | every change moves the TVL without moving capital; indices shift under removal |
| Index token (`index/IndexToken.sol`, `index/DepositZap.sol`) | as the pool, ERC-4626, with allowances | deposit, mint, redeem, withdraw, switches | oracle adapter, mAPT | four conversions with two roundings, two fees |
| Flux aggregator (`oracle/FluxAggregator.sol`) | rounds, oracles, funds, requesters | submit, change oracles, request rounds, withdraw payments | off-chain oracles, LINK | overlapping rounds, timeouts, delays, reserved funds |
| Address registry (`registry/AddressRegistryV2.sol`) | ids and addresses | register, delete, look up | everything | a list and a mapping that must agree |
| Governance token (`rewards/GovernanceTokenV2.sol`) | balances, locked amounts, lockers, lock end | transfer, lockAmount, setLockEnd, lockers | distributor, holders | locking twice, transfers in between, a lock end that moves |
| Voting escrow (`rewards/VotingEscrow.vy`) | locks, points, slope changes, shutdown | create, add, extend, withdraw, checkpoint, shutdown | governance token | one line with scheduled bends for the sum of all, late checkpoints, tokens that leave without one |
| Reward distributor (`rewards/RewardDistributor.sol`) | signer, nonces | claim, setSigner | governance token, an off-chain signer | claims submitted by anyone, twice, out of order |
| Deployment (`deploy/AlphaDeployment.sol`) | step, addresses | six steps | registry, factories, Safes | the registry changes between the steps |
| Periphery scripts (`scripts/periphery/*.js`, `utils/helpers/safe.js`) | where a run is, what the Safe has of it | propose, wait, check, register | the Admin Safe, its owners, Etherscan | failing, discarded, late transactions; interrupted runs |
| Staked AAVE (`protocols/aave/stkAave.sol`) | none of its own: the stake and its cooldown are the LP Account's | stake, unwind, claim | the staking contract of Aave | AAVE comes back only in a window after a cooldown, so that unwinding takes several calls, and one too early must not put it off |
| Other zaps, swaps, allocations (`protocols/`) | none | deploy, unwind, claim, swap, balances | Curve, Convex, Aave, exchanges | slippage limits |

What every hazard is and which property is about it is listed in `PROJECT.json`.

## Modules

| module | of | corresponds to |
|---|---|---|
| `OracleAdapter` | the adapter with its aggregators and the chain's clocks | one action per external function; `IsLocked`, `TvlReadable`, `GetTvl`, ... are the views, split into "does not revert" and "what it returns" |
| `ValueGate` | what the adapter promises, told with timers | abstract: no block numbers, no sources |
| `PoolMath` | valuation, shares, top-up | the private functions of the pool; used by pool, mAPT and index token |
| `PoolTokenV3` | all pools, indexed by pool | one action per external function; oracle, mAPT and clock are variables of the environment |
| `MetaPoolTokenV2` | the mAPT | `FundLpAccount` and `WithdrawFromLpAccount` take a bag of pools |
| `TvlManager` | what is registered | the sets behind the two contracts, as the components that move capital need them |
| `LpAccountV2` | the account, extends `TvlManager` | one action per external function; zaps and swaps move value one to one; where a zap's position counts (`CountedBy`) is apart from what the zap says (`ZapAllocations`), and what its claim brings (`ZapRewards`) from what it names (`ZapErc20s`) |
| `StakedAaveZap` | the zap of staked AAVE with the stake and the clock | `Stake`, `Withdraw` and `Claim` are the functions; `Redeem`, `WindowOpen` and `CooldownMoved` the staking contract |
| `Lending` | the account, which it extends, beside instances of the mAPT and of `StakedAaveZap` | no code of its own: what is said of the three apart |
| `CapitalFlow` | adapter, pools, mAPT, account and registry together | one action per transaction: the calls a transaction makes are conjoined |
| `IndexToken` | the ERC-4626 token | one action per external function, with caller, owner and receiver apart; uses `PoolMath`, and `Sums` for the supply |
| `FluxAggregator` | the aggregator with its LINK and the clock | one action per external function; `Submit` starts a round, records, answers, pays and deletes as the code does, in one step; the views that oracles decide by are operators |
| `NamedAddressSet` | a list of contracts and their lookup by name | the library, with EnumerableSet's swap-and-pop |
| `AssetRegistry` | the registry as Chainlink nodes read it, extends `NamedAddressSet` | one action per admin function; a node's `getAssetAllocationIds` and `balanceOf` calls are actions of their own |
| `AddressRegistryV2` | ids, listed and mapped to addresses | `RegisterMultipleAddresses` (a batch of one is `registerAddress`) and `DeleteAddress` |
| `AlphaDeployment` | the six steps, extends `AddressRegistryV2` | `Deploy(k)` checks, creates, gives roles and registers as step k does |
| `PeripheryDeployment` | runs of the three scripts, on a `NamedAddressSet` | a run's place in the script is `at[r]`; what the Safe did with its two transactions is `proposals[r]` |
| `GovernanceTokenV2` | balances and locks | one action per function; `MayTransfer` is `_beforeTokenTransfer` |
| `RewardDistributor` | the distributor on the token, extends `GovernanceTokenV2` | `Issue` is the signer off the chain, `Claim` is anyone's |
| `VotingEscrow` | locks and the line of the total | the history of points is reduced to the last; `Line` walks the weeks as `_checkpoint` and `supply_at` do |
| `Sums` | the sum of a function over a finite set, used by mAPT, account, index token, escrow and aggregator | no code: a fold |
| `..._proofs` | proofs about the module named; `Oracle_proofs` is about the adapter and the aggregator, `Rewards_proofs` is about escrow, token and distributor, `Deployment_proofs` about `NamedAddressSet`, `AssetRegistry`, `AddressRegistryV2`, `AlphaDeployment` and `PeripheryDeployment`; `Sums_proofs` holds the lemmas several of them use | see Proofs |
| `MC_...` | instances for TLC | see Runs |

A call that reverts changes nothing, so it is the absence of a step: an action's
guards are the `require`s of its function and of all it calls. Transactions are
atomic, hence so are actions; what interleaves is transactions, blocks, reports,
oracles' answers, and the steps of scripts and nodes, which are not atomic. Roles
are not modelled: everybody with a role may call at any time, which is more than
any of them does. Where a role is what the code is about, in the deployment, it
is part of the state.

In `CapitalFlow`, variables of `PoolTokenV3` and `MetaPoolTokenV2` that stand for
the environment are replaced by what the other components say: a price is the
adapter's, a deployed value the mAPT's, a balance the LP Account's. History
variables exist for the properties only and guard nothing: `changedAt` (the block
in which the tracked TVL changed last) and `unguarded` (the Emergency Safe has
acted past the lock since the last report) in `CapitalFlow`, `removed` and
`atStart` in `AssetRegistry`, `restarted` in `GovernanceTokenV2`, `paid` in
`RewardDistributor`, `tryingSince` and `lastTry` in `StakedAaveZap`. Operators whose comment starts with "Mutant:" are not used;
each is the plausible mistake a property was seen to catch when it replaces the
operator that follows it.

## Runs

Some runs hold several instances, of one component or of two that never call each
other. Which one a behaviour is of is chosen in its initial state (`running`,
`instance`), and a property is asked of the instances that can put it at risk.
Instances that are given different constants explore different corners and would
be too large as one.

| run | shows | bounds, and why they are enough |
|---|---|---|
| `adapter` | `ImplementsGate`: locks and overrides given as absolute block numbers behave as timers that run down one per block, that only `lock()` and `emergencyUnlock` may shorten, and that no past value can restart. `TypeOK` | periods 0, 1 and 2 in four blocks, a lock of which may end after the last: equal, nested and overlapping locks, and locks that end in the current block; answers -1, 0, 4; heartbeats shorter and longer than a gap between blocks; supply zero and not. One aggregator; the proofs are for any number |
| `pool` | `SharesKeepTheirWorth`, `NoRoundTripProfit`, `TopUpMeetsEquation`, `ArbitrageFeeStays` | two users; two small units per unit of value and prices 0 and 3, so that divisions round; deployed values 0 and 4, so that total value can be zero with shares outstanding; both fees, all switches, two points in time, one on each side of the fee period |
| `lending` | of the mAPT `CallsAreFair`, `DeployedValuesAddUp`; of the account `FeesComeFromGains`; of the stake `RetriesSucceed` | three instances, one of each. The mAPT: two pools named up to twice, gains and losses between calls. The account: two stablecoins and AAVE, a zap that lends, a zap that stakes AAVE and names no allocation, claims of the first that bring AAVE and a stake it does not name, a swap, fees of 50% and 150%. The stake: a cooldown of three and a window of two time units, in which attempts fall before, into and after windows; 18 time units hold two rows of attempts; the proof is for any number |
| `flow` | `FreshWhenReadable`, `NoShareAtAStaleTvl`, `RebalanceHitsTarget`, `TypeOK` (of all five components) | four instances, each given by what it takes (`Instances`, `inPlay`: the pools that play a part). "two": calls that name both pools, swaps between their underlyers; "uncounted": capital goes through a zap whose position no allocation counts, so that deploying lowers the TVL and unwinding raises it; "one": lock lengths equal to and longer than the delay, chosen apart for adapter and LP Account, a submitted value of 1 that may or may not be true; four blocks let a second lock begin within the first. "rebalance": reserve percentages 0 and 100, so that capital is lent and called back, in one block less. The proofs are for any number |
| `index` | `SharePriceNeverFalls`, `NamingNeverCheaper`, `EarlyExitLeavesFee`, `TypeOK` | two instances: "value": one user, all prices and deployed values with both fees, at units at which every division rounds; "access": two users with limited and unlimited allowances at one price, all switches, two blocks, one on each side of the fee period |
| `index_maxwithdraw` | a violation of `MaxWithdrawCanBeTaken`, see Findings | no fees at all |
| `flux` | `OneSubmissionEach`, `FundsAddUp`, `CarriedAnswers`, `RoundsGoOn`, `EligibilityMatchesSubmit`, `LatestRoundNeverGoesBack`, `AggregatorTypeOK` | five instances, each given by the inputs it takes (`Instances`): three rounds of two oracles with and without delay and timeout; three rounds with two answers that change late; rounds requested before they have answers; three oracles of which two answer, exchanged during a round; payments of 0 and 1 out of LINK of 4, two admins. Three rounds are needed for an answer to be carried from the round before the one before. The proofs are for any number |
| `flux_answer` | a violation of `LatestAnswerIsItsOwn`, see Findings | two rounds, one requester |
| `escrow` | `TotalIsSum`, `PowerMatchesLock`, `PowerFollowsLocks`, `TypeOK` | two voters, weeks of two time units and locks of up to two weeks, deposits whose power rounds to zero or is more together than apart; the power is asked for at every time until all locks have ended |
| `rewards` | `PaidInOrder`, `LockedWithinBalance`; `ListMatchesMapping`, `RolesWithinDeployment` | two claims signed, of one nonce or of two, any number that pass unsigned while the zero address is the signer, and changes between it and a signer; a supply of 2 in amounts of 1 and 2 over three time units. Four ids registered in batches of two that may name one id twice; during the six steps the registry's owner changes three ids of the deployment to a stranger and back between any two, the Admin Safe its permission |
| `deployment_roles` | a violation of `EveryRoleWithinDeployment`, see Findings | two ids that change |
| `assets` | `SetMatchesLookup`, `ReadingComplete`, `RegisteredWereCreated`, `RunsEnd`, `TypeOK` | the ERC20 allocation with up to three tokens, one more than an index can count here, and three others, two of one name; two runs of a script for that name, each of which looks up a third contract, and either may be interrupted anywhere |

TLC checks for deadlock in every run: something can always be called. Symmetry is
used where nothing is asked of liveness (`RunsEnd`), over users, pools, voters and the two
oracles that are alike.

The deep ones in words.

* `FreshWhenReadable`: a TVL that can be read from Chainlink is the present one. It needs
  every transaction that moves capital or changes what counts to lock, the lock
  to be at least as long as the delay, and no later, shorter lock to end it
  early; the last is why `lock()`, which does shorten, is safe only because every
  period configured covers the delay. `NoShareAtAStaleTvl` is the same for the
  use that matters: minting and burning.
* `SharesKeepTheirWorth`, `SharePriceNeverFalls`: whoever comes or goes, at any
  price, fee and rounding, the shares that were there and stay are worth what
  they were, to within one unit for all together.
* `CallsAreFair`: naming pools in one call, in any number and however often,
  moves no value between them but rounding.
* `RebalanceHitsTarget`: the equation the top-up solves does hold after the
  transfer, the mint and the report, for all the pools that one call moves capital
  for. What a pool still asks for is less than one unit of value and what an mAPT unit
  is worth for each pool moved: each mint or burn is rounded to mAPT units and changes what the
  others' mAPT is worth. Not claimed: for an underlyer that the call itself registers
  while the LP Account held some of it, which starts to count only then; and while
  there is mAPT worth nothing, or value that is no mAPT's.
* `RetriesSucceed`: AAVE that is staked comes back only in a window after a cooldown,
  and the zap's `_withdraw` either redeems, or starts a cooldown, or reverts, by the
  reason the staking contract gives. Whoever asks at least once in the length of
  every window has it within one cooldown and one window: an attempt too early does
  not begin the cooldown anew. Not claimed while the stake grows, as it does when more
  is deployed or when claims of the other Aave zaps bring staked AAVE, which moves
  the cooldown towards the present.
* `NamingNeverCheaper`: the two ways out agree although one takes fees off and
  the other adds them in front, each with its own divisions; and the two ways in.
* `ReadingComplete`: a node that asks for the ids and then for one balance
  after the other is not refused and has counted every position it started with
  once, although allocations and tokens were added meanwhile. It says nothing
  when something was removed, since the freed place is filled with the last
  element and the node then counts a token twice or not at all: against that
  there is only the lock that each removal takes.
* `RoundsGoOn`: whichever oracles the owner exchanges, some oracle may start the
  next round once it is due, and those that may still answer suffice for the
  minimum of the open one. Oracles removed and added during the round, who have
  to wait for the next, count as able to answer: where they would be needed, only
  the timeout ends the round.
* `EligibilityMatchesSubmit`: what `oracleRoundState` tells an oracle's node is
  what `submit` does, in both directions.
* `TotalIsSum`: the one line of the total, with its scheduled changes of slope,
  equals the sum of the users' lines now and at every later time, however locks
  are made, added to, extended and withdrawn, however late checkpoints are, and
  after the shutdown. `PowerFollowsLocks`: nothing but a change of locks moves
  power at a later time.
* `RolesWithinDeployment`: what a step's constructors look up in the registry is
  what the step has checked, though entries come, go and come back in between.
* `RegisteredWereCreated`: wherever a run is interrupted and whatever the owners
  execute, let fail or discard, nothing is registered that was not created.

### Findings

`MaxWithdrawCanBeTaken` does not hold. `IERC4626.sol` says that `maxWithdraw` is
what can be withdrawn in a `withdraw` call; `IndexToken.maxWithdraw` returns what
the owner's shares convert to, and `withdraw` of that amount burns the shares it
converts back to, after fees and plus one. Right after a first deposit and
without fees this is one share more than the owner has, and the call reverts.

`LatestAnswerIsItsOwn` does not hold. `latestAnswer` is documented as the most
recently reported answer. A round that has its answer from the minimum of
submissions, but not its maximum, still times out, and starting the next round
then overwrites its answer with the one of the round before. Until the next round
is answered, `latestAnswer` has gone back.

`EveryRoleWithinDeployment` does not hold. A comment in `AlphaDeployment` says
that step 2 registers no roles for contracts, and the step checks none but the
Safes; the constructor of the ERC20 allocation it creates gives a role to the
address registered as mAPT. If that entry is another between the first two steps
and is restored before the third, the allocation keeps trusting the other.

Not counted as findings, but worth knowing: shares of the index token can be
transferred, and the arbitrage fee depends on the last deposit to the account that
owns them (the pools refuse transfers). A round requested while no oracle is
enabled, without a timeout, stays open for ever. A script waits for ever for a
transaction that the owners discarded, and says "registered" whatever became of
the registration. Staked AAVE is counted by no allocation, and the zap says so: what is
staked leaves the TVL until it is unwound. A reward fee above 100% is accepted, and a fee
period that is shortened ends the arbitrage fee of earlier deposits at once.

### Fairness

* `RunsEnd` assumes that the operator answers the prompt, that the Safe's service
  and the nodes answer in the end (the script repeats a call that fails), and that
  the owners get round to what is proposed, by executing or discarding it. Nothing
  says that they execute, or that it succeeds. Runs whose transaction is discarded
  are excepted: the script's loop has no way out.

All other properties are of safety, and no fairness is assumed for them. That
`RetriesSucceed` speaks of somebody trying again is part of its statement, not of the
specification.

### Assumptions

* `LatencyAssumption`: Chainlink reports a change of the TVL within `Latency`
  blocks, and every configured lock period is at least that. The code chooses
  its default periods for that reason, and cannot enforce it.
* What a zap says of itself is not assumed to be right: it may name no allocation,
  though it leaves a position, and a claim may bring what it does not name. The zap of
  staked AAVE is one that does ("track only unstaked AAVE"), and the other Aave zaps
  claim staked AAVE. So the TVL falls when AAVE is staked, and nothing in the code
  sees to it that the TVL counts what is deployed. Tokens that stand for a
  position (aTokens, gauge and staked tokens) are not among the tokens of
  `LpAccountV2`: that somebody registers one as an ERC20 token or as a reward
  token, or takes it out with `emergencyExit`, is left out.
* The LP Account's tokens and positions are worth one per unit, and prices do not
  change in `CapitalFlow`: what it adds to the components is the order of
  transactions, locks and reports. Prices and gains change in `PoolTokenV3`,
  `IndexToken` and `MetaPoolTokenV2`.
* In `AssetRegistry` a node that meets a revert gives up, and starts over with a
  new list of ids; how nodes really retry is outside the repository.
* A signature is the signer it recovers to, and the signer may sign anything for
  anyone, also two claims for one nonce. A malformed one recovers to the zero
  address, which `setSigner` accepts: any claim for the next nonce then passes, and
  is still paid once and in order.
* The staking contract of Aave is taken as its users see it: a cooldown, a window, and
  a cooldown that a growing stake moves towards the present. What the stake earns, and
  that it can be slashed, is left out.
* Numbers do not overflow: SafeMath reverts at 256 bits, and rounds, times and
  payments, which are kept in fewer, do not get near their limits.

Assumptions on constants are named `ASSUME`s, which TLC evaluates on the values of
the run; that of `MetaPoolTokenV2`, which is instantiated under another name, is
assumed by `Lending`, as is that of `StakedAaveZap`. Sets that are summed or counted over (pools, tokens, zaps, users, oracles) and
the answers, payments and timeouts a behaviour draws from are finite; some need a
member besides, as a constructor has to be called with something. Beyond that
the assumptions say only what the code takes for granted, such as that the first
LINK covers the reserve of two rounds the constructor asks for.

## Proofs

Proved by TLAPS for every choice of the constants that their assumptions allow.

`Oracle_proofs`, of the adapter:

* `TypeCorrect`: `Spec => []TypeOK`. `TypeOK` is inductive as it stands, one lemma
  for the steps of the contract and one for the environment.
* `AdapterImplementsGate`: `Spec => ImplementsGate`. Initial states map to initial
  states; each action maps to the action of `ValueGate` its comment names, or to a
  stutter. `SubmitGate` and `RetractGate` are what all override steps share;
  `lockFor(0)` after a lock has ended is a stutter, a new block a tick.

`Rewards_proofs`, of the distributor:

* `TypeCorrect` and `LockedStaysWithinBalance`, under `DistributorSpec`: the invariant is `Backed`, the types
  and `LockedWithinBalance` together, since a transfer is within the balance only
  because what is locked is. `LockedWithinBalance` is inductive with them: a
  transfer or a lock looks at what is not locked, time can only end a period, and a
  period that begins over old locks is what `restarted` remembers. Every action of
  the distributor is a transfer or leaves the token alone.
* `ClaimsPaidInOrder`: `PaidInOrder` with the types of the claims is inductive; a
  claim appends to one wallet's payments what its nonce says.

`Deployment_proofs` has the lemmas on the library of named addresses: `SwapAndPopRemoves` (what
EnumerableSet's removal does to a list without repetitions), and that adding,
removing and neither keep `SetInv`, which is `SetMatchesLookup` with types and the
distinctness of the list. On them rest

* `RegistryMatchesLookup` (under the registry's own `RegistrySpec`): for any number of allocations and names, everything listed
  is found under its name and nothing else is.
* `RegisteredAlwaysCreated`: for any number of runs,
  beside or after each other. `ScriptInv` says for each place of a run what it has
  proposed before and what became of that, since only the order of the steps ties
  the registration to the creation; and that what is listed was registered, which
  needs the library's lemmas, because removal moves the last of the list.
* `ReadingAlwaysComplete` (`ReadingComplete`) and `NodesTypeCorrect` (`TypeOK`): a node's
  reading spans several calls, and the registry changes between them. `NodesInv` says,
  while nothing was removed, that what it still asks for is accepted, stands for
  positions it has not counted (`SoundReading`), and makes up with those it has counted
  what was registered when it started. `IdsOfAll` and `IdsCoverPositions` say that the
  ids it gets are all positions, each once: the lists of the allocations, none of them
  in two, put after each other (`ConcatInjective`). Later additions move nothing
  (`AdditionsDisturbNothing`).
* `ListAlwaysMatches` (`ListMatchesMapping`), under `AddressesSpec`, and `DeploymentListMatches`, the
  same under `AlphaSpec`: `EntryKeepsMatch` for one entry; for a batch, by induction
  over its length, which takes the function that the fold is defined by
  (`FoldExists`), and `SwapAndPopRemoves` again for a deletion.
* `RolesAlwaysWithin` (`RolesWithinDeployment`), under `AlphaSpec`: `ChecksCover` says that all a
  step's constructors look up is among what the step checked in the same transaction.
  So it needs no invariant on the registry, which its owner may change between the steps.

`CapitalFlow_proofs`, for any pools, users, zaps, amounts, lock periods and delays:

* `AlwaysFreshWhenReadable` (`FreshWhenReadable`). The invariant `FlowInv`
  says that the report is not behind, or the adapter is locked until the report must
  be there, or the Emergency Safe went past the lock. `TransactionsLock` is the heart
  of it: each transaction that changes what counts locks for the delay of the report
  or keeps a lock that is as long, which is why every period configured has to cover
  the delay (`LatencyAssumption`); all others touch neither the lock nor what counts.
  `CoverStays` draws the conclusion, and `BlockKeepsFlow` uses the environment's
  promise that no block passes which would make the report late.
* `FlowTypeCorrect` (`TypeOK`). `StateTypes` gives the variables' types without what
  the components see of each other, and is inductive: one lemma per transaction. A
  redemption is paid out of the reserve, mAPT is burned out of a pool's balance, a
  strategy is funded out of what the account holds; and what is minted, paid and
  topped up is a natural number because supplies, TVL and prices are, which takes
  the sums of `Sums_proofs`. `TypesFollow` goes back to `TypeOK`.
* `SharesOnlyAtACurrentTvl`, the action property `NoShareAtAStaleTvl`. A pool that
  has lent reads the TVL only if it holds mAPT, and a price can be read when the TVL
  cannot; so `FlowInv` does not suffice, which is silent until there is a first report. `Supplied`
  adds that capital is lent only once there is a report, or while the change that
  the first loan made is covered. It rests on `FundRaisesTvl`: what is lent for mAPT
  is registered and raises the TVL, so that a report is due.
* `RebalancesAlwaysHitTarget` (`RebalanceHitsTarget`). The invariant is `StateTypes` and
  `PricesFixed`, that a unit of each underlyer is worth one and nothing overrides it.
  `Rebalanced` is what either call does, with the mAPT minted or burned off from its
  price by less than one unit, and for all pools in the same direction. So the
  roundings add up to at most one for each pool moved (`MissesAddUp`); `ReportedValue`
  has what follows for the deployed value that the next report gives, and `TopUpOnceMade`
  that a top-up made before is asked for again only by as much as that value is off.

`PoolTokenV3_proofs`, for any pools, users, funds, prices, units, fees and percentages:

* The prover's arithmetic does not get through nested divisions as one step. What the
  pool computes is therefore taken apart into lemmas in which a quotient is only known
  to lie between two products: `SharesForBounds`, `UnderlyerForBounds`, `TruncDivBounds`.
  `MintKeepsWorth`, `BurnKeepsWorth`, `RoundTripGainsNothing`, `TopUpSolves` and `FeeLeft`
  say what follows for the five properties, about natural numbers and not yet about a pool.
* `PoolTypeCorrect`: `TypeOK` is inductive, and says that the numbers are natural and
  no divisor is zero. That no balance falls below zero is the code's doing: a fee may
  exceed what is redeemed (the redemption then fails), a top-up is signed.
* `SharesAlwaysKeepTheirWorth` (`SharesKeepTheirWorth`), `RoundTripsNeverPay`
  (`NoRoundTripProfit`), `TopUpAlwaysMeetsEquation` (`TopUpMeetsEquation`) and
  `ArbitrageFeeAlwaysStays` (`ArbitrageFeeStays`) follow from `TypeOK` and those lemmas.
  Shares are issued and redeemed in one place of one pool, so that the supply, which is
  a sum over the users, changes by as much.

`IndexToken_proofs`, for any users, funds, prices, units, fees and percentages:

* Two conversions each round once or twice, take fees off or add them, and are used in
  four ways. Each is a bound between two sides: `worth`, what shares stand for, and
  `cost`, what as many assets cost (`ConvertToSharesBounds`, `ConvertToAssetsBounds`,
  `AfterFeesBounds`, `BeforeFeesBounds`; two divisions after each other are one,
  `TwoQuotients`). `Steps` sorts the actions: two give shares for at least what they are
  worth (`GivesShares`), two take them for at most that (`TakesShares`), and all others
  leave the supply alone.
* `IndexTypeCorrect`: `TypeOK` is inductive, with `Steps`: nobody owns more shares than
  there are, and neither fee exceeds what it is taken from.
* `NamingIsNeverCheaper` (`NamingNeverCheaper`): naming the shares of a deposit, or the
  assets of a withdrawal, gets no more than naming the other side; `MintNeverCheaper` and
  `WithdrawNeverCheaper` compare what the one asks for with what the other gives for it.
* `SharePriceIsKept` and `EarlyExitAlwaysLeavesFee`, the action properties
  `SharePriceNeverFalls` and `EarlyExitLeavesFee`: `WorthKept` says for any step that
  gives or takes shares within the bounds that what stays is worth as much, but for the
  rounding of the reserve; a step that takes shares says what it leaves of the fee.

`Lending_proofs`, for any pools, top-ups and yields, and any tokens, zaps, swaps and fees:

* `DeployedValuesAlwaysAddUp` (`DeployedValuesAddUp`): `QuotientsAddUp` sums the two
  bounds of each pool's quotient, which gives both that the sum is no more than the TVL
  and that it misses less than one for each.
* `CallsAlwaysFair`, the action property `CallsAreFair`, by the same means: what a call
  moves times the supply, less what it mints or burns times the TVL, is a sum over the
  pools, of which each is between zero and two units. It assumes that amounts are
  counted in units of value (`InUnits`), as they are in the run: where an underlyer's
  unit is smaller, its value is rounded besides, for each pool once more.
* `FeesAlwaysComeFromGains` (`FeesComeFromGains`), the action property of the account.
  `TypeOK` is inductive; `DeployDoes`, `ExchangeDoes` and `ClaimDoes` say which balances
  and positions a step leaves alone, lowers or raises. What a zap names plays no part.
* `RetriesAlwaysSucceed` (`RetriesSucceed`), for any cooldown and window. The bound is not
  inductive: it needs that the cooldown which runs is the one the first vain attempt
  met or began, and that no attempt came after it was over and failed all the same.
  `Waiting` says so, and `WithdrawWaits` that an attempt keeps it.

`Sums_proofs`: the sum over a set is a fold of the community modules, which is
defined by a recursive function over subsets; `TotalUnfolds` gets from its
definition, by induction over the subsets of a finite set, that a sum is any
one value and the sum of the others. The lemmas on it (sums of equal functions, of a
function changed in one place, of subsets, of multiples, of signs and bounds) are all
that the other modules know of sums. Those on products and quotients are what they know of
division.

`Rewards_proofs`, of the escrow, for any users, deposits, and lengths of weeks and of the
longest lock:

* `EscrowInvariant`: `EscrowInv` says where each user's line ends and that the one
  line of the total is the sum of them. `TotalIsSum` is not inductive: it sees only
  what the lines give and not where they bend. `PointsEnd` says that a user's point is
  a line which reaches zero at its end, the start of a week; the ends are
  quantified, since after the shutdown a withdrawn lock leaves its point and its
  scheduled change behind. `LineAddsUp` says that slope and bias of the last point,
  and each scheduled change after it, are sums over the users whose end is later, or
  then. A checkpoint walks the weeks between (`LineAddsUp` holds from one to the next
  because no end lies between them), and then takes the user's old line off and adds
  the new one. That no slope the walk meets is negative, so that the code's clipping
  at zero never acts, follows from it.
* `SupplyIsSumOfBalances` (`TotalIsSum`), `PowerIsThatOfLock` (`PowerMatchesLock`) and
  the action property `OnlyLocksMovePower` (`PowerFollowsLocks`) follow from the
  invariant; `EscrowTypeCorrect` (`TypeOK`) needs `FundsInv` besides: what the escrow
  holds is `supply`, which is the sum of the locked amounts.

`Oracle_proofs`, of the Flux aggregator, for any oracles, rounds, answers, payments and terms:

* `FluxInvariant`: `FluxInv` has one part for each table. `DetailsInv`: a round that
  accepts submissions has fewer than its maximum. `AnswersInv`: only the reporting
  round may lack an answer, and an answer equals that of the round it names.
  `OraclesInv`: who is enabled may join the next round at the latest, nobody has
  reported or started a later round than the reporting one, and no two started the
  same. `TermsInv`: the owner's terms are within what the enabled oracles can do.
  `FinishInv`: those who may still answer the reporting round suffice for its
  minimum, where those who were removed and added again count. With these
  `OneSubmissionEach` and `FundsAddUp` are inductive.
* From it follow `OneSubmissionFromEach`, `FeedCanPay` (`FundsAddUp`),
  `CarriedAnswersStand` (`CarriedAnswers`), `FeedNeverStuck` (`RoundsGoOn`: the
  oracles that do not have to wait outnumber those that do, by a count of enabled
  oracles against the restart delay), `ViewsAgreeWithSubmit`
  (`EligibilityMatchesSubmit`), `FluxTypeCorrect`, and the action property
  `LatestRoundAdvances`.

Only model-checked: `RunsEnd`, which is of liveness. Every other property
that a passing run checks is stated by a theorem.

## Not modelled

* Roles and upgrades: `emergencySetAddressRegistry`, proxies, `initialize` of
  earlier versions, OpenZeppelin's access control. Reentrancy is guarded by
  `nonReentrant`; gas, events and the wording of errors play no part.
* Asset allocations only add up balances of third-party contracts. Zaps and swaps
  keep no state: they call third-party protocols between slippage limits, and what
  they do is what those protocols do. `LpAccountV2` has them as moves of value between
  tokens and positions. One is not such a move and is left out: the zap of
  `protocols/convex/migration` takes a position from a Curve gauge to Convex, from
  one allocation to another, and names none.
* Shares of the pools are never transferred: `_beforeTokenTransfer` refuses, so that
  `PoolTokenV3` has no action for it.
* Contracts superseded by V2 and V3 (`PoolToken`, `PoolTokenV2`, `MetaPoolToken`,
  `LpAccount`, `AddressRegistry`, `GovernanceToken`).
* Of the Flux aggregator the validator, the history getters and the width of the
  counters; of the escrow the history by block number, ownership and the checker of
  contract wallets; of the token allowances and the proxy admin.
* `NewDeployment` repeats the steps of `AlphaDeployment`; the upgrader runs once;
  the factories only create what they are asked for.
* The other scripts deploy once and wait for nobody, or serve test networks and
  demonstrations. The JavaScript of the repository is for the most part tests
  (nearly 26,000 of its 30,700 lines), and its logic is in Solidity and Vyper: the
  models are of the latter, and of the JavaScript of `periphery/`, `safe.js` and
  `aggregator.js`.

What could come next: the index token as a pool of `CapitalFlow`.
