\* Two users, every switch, both fees, prices and deployed values at which divisions round.
SPECIFICATION Spec
CONSTANTS
    Pools = {p1}
    Users = {u1, u2}
    Factor = 2
    Unit <- MCUnit
    WithdrawFees = {0, 1}
    WithdrawFeeDenominator = 4
    ArbitrageFees = {50}
    ArbitrageFeePeriods = {1}
    ReservePercentages = {30}
    Funds = 2
    Prices = {0, 3}
    DeployedValues = {0, 4}
    SwitchedPools = {p1}
    StartTime = 5
    MaxTime = 6
    MaxSupply = 4
SYMMETRY UserSymmetry
INVARIANTS NoRoundTripProfit TopUpMeetsEquation
PROPERTIES SharesKeepTheirWorth ArbitrageFeeStays
