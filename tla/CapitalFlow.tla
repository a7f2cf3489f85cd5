---------------------------- MODULE CapitalFlow ----------------------------
(***************************************************************************)
(* The core of the system put together: users deposit into and redeem from *)
(* the pools, the mAPT lends reserves to the LP Account and brings them    *)
(* back, the LP Account deploys them, the registry decides what counts,    *)
(* Chainlink reports the TVL some blocks later, and the oracle adapter is  *)
(* locked while the report is behind.                                      *)
(*                                                                         *)
(* One action is one transaction: the calls a transaction makes from       *)
(* contract to contract are conjoined.  Every token and every position is  *)
(* worth one unit of value per unit, with aggregators for the prices that  *)
(* never change; the aggregator of the TVL is the one that matters here.   *)
(* Seconds do not pass: neither a heartbeat nor an arbitrage period plays  *)
(* a role, only blocks do.  Zaps and swaps are configured beforehand.      *)
(***************************************************************************)
EXTENDS Integers, FiniteSetsExt

CONSTANTS
    Pools,             \* a pool and its underlyer have the same name
    Users,
    Allocations,
    Zaps, ZapCoins, ZapAllocations, ZapErc20s,
    CountedBy, NoAllocation,
    OtherTokens,       \* tokens of the LP Account that no pool has
    ThreePool,
    TvlFeed,           \* the aggregator of the TVL
    PriceFeed,         \* the aggregator of every price
    Tvl, NoSource,
    Factor,            \* DEFAULT_APT_TO_UNDERLYER_FACTOR, and of the mAPT
    Funds,
    ReservePercentages,
    Periods,           \* lock periods of the adapter and the LP Account
    Values,            \* TVL values the Emergency Safe may submit
    Latency,           \* blocks within which Chainlink reports a new TVL
    MaxBlock,
    MaxShares          \* bound on the APT and mAPT supplies

\* What the protection by locking needs of the chain: Chainlink reports a
\* change of the TVL before any configured lock period is over.
ASSUME LatencyAssumption ==
    /\ Latency \in Nat \ {0}
    /\ Periods \subseteq Nat
    /\ \A p \in Periods : p >= Latency

ASSUME FeedsAssumption == TvlFeed # PriceFeed

ASSUME FlowAssumption ==
    /\ \A S \in {Pools, Users, OtherTokens, Zaps} : IsFiniteSet(S)
    /\ ZapCoins \in [Zaps -> SUBSET (Pools \cup OtherTokens)]
    /\ ZapAllocations \in [Zaps -> SUBSET Allocations]
    /\ CountedBy \in [Zaps -> Allocations \cup {NoAllocation}]
    /\ NoAllocation \notin Allocations
    /\ ThreePool \subseteq Pools \cup OtherTokens
    /\ {Factor, Funds, MaxBlock} \subseteq Nat
    /\ Values \cup ReservePercentages \subseteq Nat /\ ReservePercentages # {}

VARIABLES
    block, feed,
    lockEnd, defaultLockPeriod, chainlinkStalePeriod, tvlSource, assetSources,
    submittedTvlValue, submittedAssetValues,
    apt, userBal, poolBal, lastDepositTime, settings,
    mApt,
    lpBal, position, zaps, swaps, lockPeriod, rewardFee, treasury,
    allocations, erc20Tokens,
    changedAt,     \* history: block in which the tracked TVL changed last
    unguarded      \* history: the Emergency Safe acted, no report since

chainVars == <<block, feed>>
adapterVars == <<lockEnd, defaultLockPeriod, chainlinkStalePeriod, tvlSource,
                 assetSources, submittedTvlValue, submittedAssetValues>>
poolVars == <<apt, userBal, poolBal, lastDepositTime, settings>>
lpVars == <<lpBal, position, zaps, swaps, lockPeriod, rewardFee, treasury>>
registryVars == <<allocations, erc20Tokens>>
vars == <<chainVars, adapterVars, poolVars, mApt, lpVars, registryVars,
          changedAt, unguarded>>

Tokens == Pools \cup OtherTokens
OnePerPool == [p \in Pools |-> 1]

-----------------------------------------------------------------------------
\* The components.

\* totalSupply of the mAPT, which only pools hold.
Lent == MapThenSumSet(LAMBDA p : mApt[p], Pools)

Lp == INSTANCE LpAccountV2 WITH
    ZapRewards <- [z \in Zaps |-> {}],
    Swaps <- {}, SwapIn <- <<>>, SwapOut <- <<>>,
    RewardTokens <- {}, Fees <- {}, FeeDenominator <- 10000,
    LockPeriods <- Periods, MaxGain <- 0, MaxHoldings <- 0

Oracle == INSTANCE OracleAdapter WITH
    Assets <- Pools, Sources <- {TvlFeed, PriceFeed}, Answers <- {},
    StalePeriods <- {1}, Supplies <- {0}, BlockGaps <- {0}, timestamp <- 0,
    mAptSupply <- Lent

TvlRead ==
    IF Oracle!TvlReadable THEN Oracle!GetTvl ELSE 0

Price ==
    [p \in Pools |->
        IF Oracle!AssetPriceReadable(p) THEN Oracle!GetAssetPrice(p) ELSE 0]

MApt == INSTANCE MetaPoolTokenV2 WITH
    MAptFactor <- Factor, MAptUnit <- OnePerPool,
    TopUps <- {}, Yields <- {}, MaxTvl <- 0, MaxMApt <- MaxShares,
    tvl <- TvlRead,
    readable <-
        [p \in Pools |-> Oracle!AssetPriceReadable(p) /\ Oracle!TvlReadable],
    price <- Price,
    lpBal <- [p \in Pools |-> lpBal[p]]

\* getDeployedValue reads the TVL only for a pool that holds mAPT.
Pool == INSTANCE PoolTokenV3 WITH
    Unit <- OnePerPool, WithdrawFees <- {0}, WithdrawFeeDenominator <- 1,
    ArbitrageFees <- {0}, ArbitrageFeePeriods <- {0},
    Prices <- {}, DeployedValues <- {}, SwitchedPools <- {},
    StartTime <- 0, MaxTime <- 0, MaxSupply <- MaxShares,
    price <- Price,
    readable <-
        [p \in Pools |-> Oracle!AssetPriceReadable(p)
                         /\ (mApt[p] > 0 => Oracle!TvlReadable)],
    deployedValue <- [p \in Pools |-> MApt!GetDeployedValue(p)],
    lpBal <- [p \in Pools |-> lpBal[p]],
    now <- 0

FeedCurrent ==
    feed[tvlSource].hasData /\ feed[tvlSource].answer = Lp!TrackedTvl

-----------------------------------------------------------------------------
\* Mutant of both locks: the adapter is left alone.
NoLock == UNCHANGED adapterVars

\* TVL manager and ERC20 allocation lock with the adapter's default period.
DefaultLock == Oracle!Lock

\* LpAccountV2._lockOracleAdapter: a longer lock in place is kept.
LpLock ==
    \/ Oracle!LockFor(lockPeriod)
    \/ ~Oracle!LockForAccepted(lockPeriod) /\ UNCHANGED adapterVars

Init ==
    /\ block = 0
    /\ feed = [s \in {TvlFeed, PriceFeed} |->
           [hasData |-> s = PriceFeed, answer |-> IF s = PriceFeed THEN 1 ELSE 0,
            updatedAt |-> 0]]
    /\ Oracle!AdapterInit
    /\ tvlSource = TvlFeed
    /\ assetSources = [p \in Pools |-> PriceFeed]
    /\ Pool!PoolInit
    /\ MApt!MAptInit
    /\ Lp!HoldingsInit
    /\ zaps = Zaps /\ swaps = {}
    /\ lockPeriod \in Periods
    /\ rewardFee = [t \in Tokens |-> 0]
    /\ Lp!RegistryInit
    /\ changedAt = 0
    /\ unguarded = FALSE

-----------------------------------------------------------------------------
\* Transactions.

Deposit(p, u, n) ==
    /\ Pool!AddLiquidity(p, u, n)
    /\ Pool!TotalSupply(p) + Pool!CalculateMintAmount(p, n) <= MaxShares
    /\ UNCHANGED <<adapterVars, mApt, lpVars, registryVars>>

Redeem(p, u, n) ==
    /\ Pool!Redeem(p, u, n)
    /\ UNCHANGED <<adapterVars, mApt, lpVars, registryVars>>

SetReservePercentage(p, percentage) ==
    /\ Pool!SetReservePercentage(p, percentage)
    /\ UNCHANGED <<adapterVars, mApt, lpVars, registryVars>>

Named(times) == {p \in Pools : times[p] > 0}

\* What a call reads, and divides by, for each pool named.
Quoted(times) ==
    /\ MApt!Quoted(times)
    /\ \A p \in Named(times) : Pool!TopUpComputable(p)

FundLpAccount(times) ==
    LET topUps == [p \in Pools |->
                      IF times[p] > 0 THEN Pool!GetReserveTopUpValue(p) ELSE 0]
        moved == MApt!Moved(times, MApt!FundAmounts(topUps))
    IN  /\ Quoted(times)
        /\ MApt!FundLpAccount(times, topUps)
        /\ MapThenSumSet(LAMBDA p : mApt'[p], Pools) <= MaxShares
        /\ Pool!TransferToLpAccount(moved)
        /\ Lp!Receive(moved)
        /\ Lp!RegisterPoolUnderlyers(Named(times))
        /\ DefaultLock

WithdrawFromLpAccount(times) ==
    LET topUps == [p \in Pools |->
                      IF times[p] > 0 THEN Pool!GetReserveTopUpValue(p) ELSE 0]
        moved == MApt!Moved(times, MApt!WithdrawAmounts(topUps))
    IN  /\ Quoted(times)
        /\ MApt!WithdrawFromLpAccount(times, topUps)
        /\ Lp!TransferToPool(moved)
        /\ Pool!ReceiveFromLpAccount(moved)
        /\ Lp!RegisterPoolUnderlyers(Named(times))
        /\ DefaultLock

DeployStrategy(z, amounts) ==
    /\ Lp!DeployStrategy(z, amounts)
    /\ LpLock
    /\ UNCHANGED <<poolVars, mApt, registryVars>>

UnwindStrategy(z, n, coin) ==
    /\ Lp!UnwindStrategy(z, n, coin)
    /\ LpLock
    /\ UNCHANGED <<poolVars, mApt, registryVars>>

SwapWith3Pool(tokenIn, tokenOut, n) ==
    /\ Lp!SwapWith3Pool(tokenIn, tokenOut, n)
    /\ LpLock
    /\ UNCHANGED <<poolVars, mApt, registryVars>>

RegistryAdmin ==
    /\ \/ \E a \in Allocations :
              Lp!RegisterAssetAllocation(a) \/ Lp!RemoveAssetAllocation(a)
       \/ \E t \in Tokens : Lp!RegisterErc20Token(t) \/ Lp!RemoveErc20Token(t)
    /\ DefaultLock
    /\ UNCHANGED <<poolVars, mApt, lpVars>>

\* The Emergency Safe overrides the TVL, which the adapter allows at any time.
SubmitTvl ==
    /\ \/ \E v \in Values, n \in Periods : Oracle!EmergencySetTvl(v, n)
       \/ Oracle!EmergencyUnsetTvl
    /\ UNCHANGED <<poolVars, mApt, lpVars, registryVars>>

\* Its other powers go past the lock.
Emergency ==
    \/ /\ Oracle!EmergencyUnlock
       /\ UNCHANGED <<poolVars, mApt, lpVars, registryVars>>
    \/ /\ \E t \in Tokens : Lp!EmergencyExit(t)
       /\ UNCHANGED <<adapterVars, poolVars, mApt, registryVars>>

-----------------------------------------------------------------------------
\* Chainlink and the chain.

ReportTvl ==
    /\ Oracle!AnswerUpdated(TvlFeed, Lp!TrackedTvl)
    /\ unguarded' = FALSE
    /\ UNCHANGED <<block, adapterVars, poolVars, mApt, lpVars, registryVars, changedAt>>

\* No block passes that would make the report of a change late.
NewBlock ==
    /\ FeedCurrent \/ block + 1 < changedAt + Latency
    /\ block < MaxBlock
    /\ block' = block + 1
    /\ UNCHANGED <<feed, adapterVars, poolVars, mApt, lpVars, registryVars,
                   changedAt, unguarded>>

-----------------------------------------------------------------------------
UserStep ==
    \E p \in Pools, u \in Users :
        \/ \E n \in 1..userBal[p][u] : Deposit(p, u, n)
        \/ \E n \in 1..apt[p][u] : Redeem(p, u, n)

Calls == [Pools -> 0..1]

LpSafeStep ==
    \/ \E times \in Calls : FundLpAccount(times) \/ WithdrawFromLpAccount(times)
    \/ \E z \in Zaps :
           \/ \E t \in ZapCoins[z] : \E n \in 1..lpBal[t] :
                  DeployStrategy(z, [c \in ZapCoins[z] |->
                                        IF c = t THEN n ELSE 0])
           \/ \E t \in ZapCoins[z] : \E n \in 0..position[z] :
                  UnwindStrategy(z, n, t)
    \/ \E t, u \in ThreePool : \E n \in 1..lpBal[t] : SwapWith3Pool(t, u, n)

AdminStep ==
    \/ \E p \in Pools, r \in ReservePercentages : SetReservePercentage(p, r)
    \/ RegistryAdmin
    \/ SubmitTvl

TvlChangeNoted ==
    changedAt' = IF Lp!TrackedTvl' = Lp!TrackedTvl THEN changedAt ELSE block

Transaction ==
    /\ \/ (UserStep \/ LpSafeStep \/ AdminStep) /\ UNCHANGED unguarded
       \/ Emergency /\ unguarded' = TRUE
    /\ TvlChangeNoted
    /\ UNCHANGED chainVars

Next == Transaction \/ ReportTvl \/ NewBlock

Spec == Init /\ [][Next]_vars

-----------------------------------------------------------------------------
\* The values the variables of every component take.
TypeOK ==
    /\ Oracle!TypeOK
    /\ Pool!TypeOK
    /\ MApt!TypeOK
    /\ Lp!TypeOK
    /\ changedAt \in 0..MaxBlock
    /\ unguarded \in BOOLEAN

\* Whoever can read the TVL from Chainlink reads what the LP Account holds now:
\* every transaction that moves capital, or changes what counts, closes the
\* adapter for long enough.  Only the Emergency Safe can break this.
FreshWhenReadable ==
    Oracle!TvlReadable /\ ~Oracle!HasTvlOverride /\ ~unguarded =>
        Oracle!GetTvl = Lp!TrackedTvl

SharesAtACurrentTvl ==
    apt' # apt \/ mApt' # mApt =>
        \/ FeedCurrent
        \/ Oracle!HasTvlOverride
        \/ unguarded
        \/ \A p \in Pools : mApt[p] = 0 /\ mApt'[p] = 0

\* addLiquidity, redeem, fundLpAccount, withdrawFromLpAccount: shares are only ever
\* minted or burned, APT or mAPT, at a TVL that is current or that the Emergency Safe
\* submitted.
NoShareAtAStaleTvl == [][SharesAtACurrentTvl]_vars

PoolsMoved == {p \in Pools : mApt'[p] # mApt[p]}

\* What a pool asks for at the TVL to be reported.
TopUpOnceReported(p) ==
    Pool!TopUpValue((Lp!TrackedTvl * mApt[p]) \div MApt!MAptSupply, poolBal[p],
                    settings[p].reservePercentage)

\* Less than one unit, and what an mAPT unit is worth for each pool moved.
WithinRounding(topUp) ==
    LET size == IF topUp < 0 THEN -topUp ELSE topUp
    IN  \/ size = 0
        \/ size * MApt!MAptSupply
               < MApt!MAptSupply + Cardinality(PoolsMoved) * Lp!TrackedTvl

MovedPoolsAtTarget ==
    /\ mApt' # mApt /\ FeedCurrent /\ ~Oracle!HasTvlOverride
    /\ Lp!TrackedTvl = 0 <=> MApt!MAptSupply = 0
    /\ \A q \in erc20Tokens' \ erc20Tokens : lpBal[q] = 0
    => \A p \in PoolsMoved : lpBal'[p] = 0 \/ WithinRounding(TopUpOnceReported(p)')

\* getReserveTopUpValue: a rebalance is right the first time, however many pools one
\* call moves capital for.  Once the TVL is reported each of them is at its reserve
\* percentage, but for the rounding, unless the LP Account ran out of its underlyer.
\* It does not say so when the call itself makes something count that was there
\* unregistered, or when there is mAPT worth nothing or value that is no mAPT's.
RebalanceHitsTarget == [][MovedPoolsAtTarget]_vars
=============================================================================
