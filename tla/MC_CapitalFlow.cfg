\* Capital lent, deployed and brought back while the report of the TVL is behind.
SPECIFICATION MCSpec
CONSTANTS
    lending = lending
    staking = staking
    Pools = {p1, p2}
    Users = {u1}
    allocation = allocation
    NoAllocation = NoAllocation
    Allocations = {allocation}
    Zaps = {lending, staking}
    ZapCoins <- MCZapCoins
    ZapAllocations <- MCZapAllocations
    ZapErc20s <- MCZapErc20s
    CountedBy <- MCCountedBy
    OtherTokens = {}
    ThreePool = {p1, p2}
    TvlFeed = TvlFeed
    PriceFeed = PriceFeed
    Tvl = Tvl
    NoSource = NoSource
    Factor = 2
    Funds = 2
    ReservePercentages = {0, 100}
    Periods = {2, 3}
    Values = {1}
    Latency = 2
    MaxBlock = 3
    MaxShares = 4
SYMMETRY PoolSymmetry
INVARIANTS TypeOK FreshWhenReadable
PROPERTIES NoShareAtAStaleTvl RebalanceHitsTarget
