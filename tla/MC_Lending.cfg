\* The LP Account's claims; the mAPT shares of two pools; staked AAVE.
SPECIFICATION MCSpec
CONSTANTS
    dai = dai
    usdc = usdc
    aaveToken = aaveToken
    lending = lending
    staking = staking
    aaveToDai = aaveToDai
    aaveUsdc = aaveUsdc
    NoAllocation = NoAllocation
    Tokens <- MCTokens
    Allocations = {aaveUsdc}
    Zaps = {lending, staking}
    Swaps = {aaveToDai}
    ZapCoins <- MCZapCoins
    ZapAllocations <- MCZapAllocations
    ZapErc20s <- MCZapErc20s
    ZapRewards <- MCZapRewards
    CountedBy <- MCCountedBy
    SwapIn <- MCSwapIn
    SwapOut <- MCSwapOut
    ThreePool <- MCThreePool
    RewardTokens = {aaveToken}
    Fees = {1, 3}
    FeeDenominator = 2
    LockPeriods = {1}
    MaxGain = 2
    MaxHoldings = 3
    Pools = {p1, p2}
    MAptFactor = 3
    MAptUnit <- MCMAptUnit
    TopUps <- MCTopUps
    Yields <- MCYields
    MaxTvl = 6
    MaxMApt = 9
    Cooldown = 3
    UnstakeWindow = 2
    MaxAave = 2
    MaxTime = 18
SYMMETRY PoolSymmetry
INVARIANTS DeployedValuesAddUp RetriesSucceed
PROPERTIES FeesComeFromGains CallsAreFair
