\* maxWithdraw against a withdrawal of that much, without any fee.
SPECIFICATION MCSpec
CONSTANTS
    u1 = u1
    u2 = u2
    u3 = u3
    Users = {u1, u2, u3}
    AssetUnit = 2
    ShareUnit = 4
    WithdrawFees = {0}
    WithdrawFeeDenominator = 10
    ArbitrageFees = {0}
    ArbitrageFeePeriods = {1}
    ReservePercentages = {5}
    Funds = 3
    Prices = {0, 2, 3, 5}
    DeployedValues = {0, 1, 4}
    Allowances = {4, Unlimited}
    Unlimited = Unlimited
    Switches = TRUE
    StartTime = 10
    MaxTime = 11
    MaxSupply = 8
INVARIANT MaxWithdrawCanBeTaken
