\* What shares are worth in the four ways in and out, and who may use them when.
SPECIFICATION MCSpec
CONSTANTS
    u1 = u1
    u2 = u2
    u3 = u3
    Users = {u1, u2, u3}
    AssetUnit = 2
    ShareUnit = 4
    WithdrawFees = {0, 3}
    WithdrawFeeDenominator = 10
    ArbitrageFees = {50}
    ArbitrageFeePeriods = {1}
    ReservePercentages = {5}
    Funds = 2
    Prices = {0, 2, 3, 5, 7}
    DeployedValues = {0, 1, 4, 9}
    Allowances = {4, Unlimited}
    Unlimited = Unlimited
    Switches = TRUE
    StartTime = 10
    MaxTime = 11
    MaxSupply = 8
SYMMETRY UserSymmetry
INVARIANTS TypeOK NamingNeverCheaper
PROPERTIES SharePriceNeverFalls EarlyExitLeavesFee
