---------------------------- MODULE PoolTokenV3 ----------------------------
(***************************************************************************)
(* contracts/pool/PoolTokenV3.sol: the liquidity pools.  A depositor gives *)
(* underlyer and receives APT shares; part of the pool's underlyer is lent *)
(* to the LP Account and shows up as the pool's deployed value; a redeemer *)
(* burns shares and is paid from what is left in the pool, the reserve.    *)
(*                                                                         *)
(* All pools are modelled at once, each variable indexed by pool.  Shares  *)
(* cannot be transferred between users (_beforeTokenTransfer reverts), so  *)
(* AddLiquidity and Redeem are the only ways an APT balance changes.  The  *)
(* allowance of a depositor is taken to cover the deposit.  The oracle,    *)
(* the mAPT and the clock are the environment.                             *)
(***************************************************************************)
EXTENDS PoolMath, FiniteSetsExt

CONSTANTS
    Pools,
    Users,
    Factor,               \* DEFAULT_APT_TO_UNDERLYER_FACTOR
    Unit,                 \* 10**decimals of each pool's underlyer
    WithdrawFees,         \* withdraw fees the admin may set
    WithdrawFeeDenominator,
    ArbitrageFees,        \* arbitrage fees the admin may set, in percent
    ArbitrageFeePeriods,  \* periods the admin may set, in seconds
    ReservePercentages,   \* reserve percentages the admin may set
    Funds,                \* underlyer each user starts with
    Prices,               \* prices the oracle may serve; 0 by submission only
    DeployedValues,       \* values of the deployed capital
    SwitchedPools,        \* pools on which the Emergency Safe acts
    StartTime,            \* timestamp of the first block
    MaxTime,              \* bound: no block later than this
    MaxSupply             \* bound: no deposit brings the supply beyond this

ASSUME PoolConstantsAssumption ==
    /\ IsFiniteSet(Users)
    /\ {} \notin {WithdrawFees, ArbitrageFees, ArbitrageFeePeriods, ReservePercentages}
    /\ Factor \in Nat \ {0}
    /\ Unit \in [Pools -> Nat \ {0}]
    /\ WithdrawFees \subseteq Nat
    /\ WithdrawFeeDenominator \in Nat \ {0}
    /\ ArbitrageFees \subseteq Nat
    /\ ArbitrageFeePeriods \subseteq Nat
    /\ ReservePercentages \subseteq Nat
    /\ Funds \in Nat
    /\ Prices \subseteq Nat
    /\ DeployedValues \subseteq Nat
    /\ SwitchedPools \subseteq Pools
    /\ StartTime \in Nat /\ MaxTime \in Nat /\ MaxSupply \in Nat

VARIABLES
    apt,              \* APT balance of every user in every pool
    userBal,          \* underlyer held by every user
    poolBal,          \* underlyer held by every pool
    lastDepositTime,
    settings,         \* the switches and parameters of every pool
    price,            \* getAssetPrice of each underlyer, from the oracle
    readable,         \* whether the oracle serves what a valuation needs
    deployedValue,    \* getDeployedValue of each pool, from the mAPT
    lpBal,            \* each underlyer held by the LP Account
    now               \* block.timestamp

poolVars == <<apt, userBal, poolBal, lastDepositTime, settings>>
envVars == <<price, readable, deployedValue, lpBal, now>>
vars == <<poolVars, envVars>>

Settings ==
    [paused : BOOLEAN, addLiquidityLock : BOOLEAN, redeemLock : BOOLEAN,
     arbitrageFee : Nat, arbitrageFeePeriod : Nat,
     reservePercentage : Nat, withdrawFee : Nat]

-----------------------------------------------------------------------------
\* Valuation.  These revert unless `readable'.

TotalSupply(p) == MapThenSumSet(LAMBDA u : apt[p][u], Users)

PoolUnderlyerValue(p) == ValueOf(poolBal[p], price[p], Unit[p])

GetPoolTotalValue(p) == PoolUnderlyerValue(p) + deployedValue[p]

\* Mutant: values the pool by its reserve alone.
CalculateMintAmountFromReserve(p, depositAmount) ==
    SharesFor(ValueOf(depositAmount, price[p], Unit[p]),
              PoolUnderlyerValue(p), TotalSupply(p), Factor)

CalculateMintAmount(p, depositAmount) ==
    SharesFor(ValueOf(depositAmount, price[p], Unit[p]),
              GetPoolTotalValue(p), TotalSupply(p), Factor)

\* Mutant: pays the next unit of underlyer.
GetUnderlyerAmountRoundedUp(p, aptAmount) ==
    UnderlyerFor(aptAmount, GetPoolTotalValue(p), TotalSupply(p),
                 price[p], Unit[p]) + 1

GetUnderlyerAmount(p, aptAmount) ==
    UnderlyerFor(aptAmount, GetPoolTotalValue(p), TotalSupply(p),
                 price[p], Unit[p])

\* Mutant: early and late the wrong way round.
IsEarlyRedeemSwapped(p, u) ==
    now - lastDepositTime[p][u] >= settings[p].arbitrageFeePeriod

IsEarlyRedeem(p, u) ==
    now - lastDepositTime[p][u] < settings[p].arbitrageFeePeriod

\* The two fees are computed on the full amount; SafeMath reverts when they
\* exceed it.
Fees(p, u, amount) ==
    (amount * settings[p].withdrawFee) \div WithdrawFeeDenominator
    + IF IsEarlyRedeem(p, u)
      THEN (amount * settings[p].arbitrageFee) \div 100
      ELSE 0

GetUnderlyerAmountWithFee(p, u, aptAmount) ==
    LET amount == GetUnderlyerAmount(p, aptAmount)
    IN  amount - Fees(p, u, amount)

\* Mutant: the reserve is not asked.
ReserveCoversAnything(p, paid) == paid >= 0

ReserveCovers(p, paid) == paid <= poolBal[p]

\* Positive: the reserve is short of its share of the deployed value.
GetReserveTopUpValue(p) ==
    TopUpAmount(deployedValue[p], PoolUnderlyerValue(p),
                settings[p].reservePercentage, price[p], Unit[p])

\* It divides by the price unless there is nothing to move.
TopUpComputable(p) ==
    \/ price[p] > 0
    \/ TopUpValue(deployedValue[p], PoolUnderlyerValue(p),
                  settings[p].reservePercentage) = 0

-----------------------------------------------------------------------------
\* initialize, initializeUpgrade and initializeV3 in turn.  Parameters start
\* at the smallest value of their set; the admin may set any other.
PoolInit ==
    /\ apt = [p \in Pools |-> [u \in Users |-> 0]]
    /\ userBal = [p \in Pools |-> [u \in Users |-> Funds]]
    /\ poolBal = [p \in Pools |-> 0]
    /\ lastDepositTime = [p \in Pools |-> [u \in Users |-> 0]]
    /\ settings \in [Pools ->
           [paused : {FALSE}, addLiquidityLock : {FALSE}, redeemLock : {FALSE},
            arbitrageFee : {Min(ArbitrageFees)},
            arbitrageFeePeriod : {Min(ArbitrageFeePeriods)},
            reservePercentage : {Min(ReservePercentages)},
            withdrawFee : {Min(WithdrawFees)}]]

-----------------------------------------------------------------------------
\* Users.

AddLiquidity(p, u, depositAmount) ==
    /\ ~settings[p].paused
    /\ ~settings[p].addLiquidityLock
    /\ depositAmount > 0
    /\ readable[p]
    /\ depositAmount <= userBal[p][u]
    /\ lastDepositTime' = [lastDepositTime EXCEPT ![p][u] = now]
    /\ apt' = [apt EXCEPT ![p][u] = @ + CalculateMintAmount(p, depositAmount)]
    /\ userBal' = [userBal EXCEPT ![p][u] = @ - depositAmount]
    /\ poolBal' = [poolBal EXCEPT ![p] = @ + depositAmount]
    /\ UNCHANGED settings

Redeem(p, u, aptAmount) ==
    LET amount == GetUnderlyerAmount(p, aptAmount)
        paid == GetUnderlyerAmountWithFee(p, u, aptAmount)
    IN  /\ ~settings[p].paused
        /\ ~settings[p].redeemLock
        /\ aptAmount > 0
        /\ aptAmount <= apt[p][u]
        /\ readable[p]
        /\ price[p] > 0
        /\ Fees(p, u, amount) <= amount
        /\ ReserveCovers(p, paid)
        /\ apt' = [apt EXCEPT ![p][u] = @ - aptAmount]
        /\ userBal' = [userBal EXCEPT ![p][u] = @ + paid]
        /\ poolBal' = [poolBal EXCEPT ![p] = @ - paid]
        /\ UNCHANGED <<lastDepositTime, settings>>

-----------------------------------------------------------------------------
\* The LP Account.  The mAPT moves several pools' underlyer in one call.

TransferToLpAccount(amounts) ==
    /\ \A p \in Pools : amounts[p] > 0 => ~settings[p].paused
    /\ \A p \in Pools : amounts[p] <= poolBal[p]
    /\ poolBal' = [p \in Pools |-> poolBal[p] - amounts[p]]
    /\ UNCHANGED <<apt, userBal, lastDepositTime, settings>>

ReceiveFromLpAccount(amounts) ==
    /\ poolBal' = [p \in Pools |-> poolBal[p] + amounts[p]]
    /\ UNCHANGED <<apt, userBal, lastDepositTime, settings>>

-----------------------------------------------------------------------------
\* The safes.

Set(p, new) ==
    /\ settings' = [settings EXCEPT ![p] = new]
    /\ UNCHANGED <<apt, userBal, poolBal, lastDepositTime>>

EmergencyLock(p) ==
    ~settings[p].paused /\ Set(p, [settings[p] EXCEPT !.paused = TRUE])

EmergencyUnlock(p) ==
    settings[p].paused /\ Set(p, [settings[p] EXCEPT !.paused = FALSE])

EmergencyLockAddLiquidity(p) ==
    Set(p, [settings[p] EXCEPT !.addLiquidityLock = TRUE])

EmergencyUnlockAddLiquidity(p) ==
    Set(p, [settings[p] EXCEPT !.addLiquidityLock = FALSE])

EmergencyLockRedeem(p) ==
    Set(p, [settings[p] EXCEPT !.redeemLock = TRUE])

EmergencyUnlockRedeem(p) ==
    Set(p, [settings[p] EXCEPT !.redeemLock = FALSE])

SetArbitrageFee(p, feePercentage, feePeriod) ==
    Set(p, [settings[p] EXCEPT !.arbitrageFee = feePercentage,
                               !.arbitrageFeePeriod = feePeriod])

SetReservePercentage(p, percentage) ==
    Set(p, [settings[p] EXCEPT !.reservePercentage = percentage])

SetWithdrawFee(p, fee) ==
    Set(p, [settings[p] EXCEPT !.withdrawFee = fee])

\* The whole reserve goes to the Emergency Safe, paused or not.
EmergencyExit(p) ==
    /\ poolBal' = [poolBal EXCEPT ![p] = 0]
    /\ UNCHANGED <<apt, userBal, lastDepositTime, settings>>

-----------------------------------------------------------------------------
UserStep ==
    \E p \in Pools, u \in Users :
        \/ \E n \in 1..userBal[p][u] :
               /\ TotalSupply(p) + CalculateMintAmount(p, n) <= MaxSupply
               /\ AddLiquidity(p, u, n)
        \/ \E n \in 1..apt[p][u] : Redeem(p, u, n)

Only(p, n) == [q \in Pools |-> IF q = p THEN n ELSE 0]

LendStep ==
    \E p \in Pools :
        \/ \E n \in 1..poolBal[p] :
               /\ TransferToLpAccount(Only(p, n))
               /\ lpBal' = [lpBal EXCEPT ![p] = @ + n]
        \/ \E n \in 1..lpBal[p] :
               /\ ReceiveFromLpAccount(Only(p, n))
               /\ lpBal' = [lpBal EXCEPT ![p] = @ - n]

SwitchStep ==
    \E p \in SwitchedPools :
        \/ EmergencyLock(p)
        \/ EmergencyUnlock(p)
        \/ EmergencyLockAddLiquidity(p)
        \/ EmergencyUnlockAddLiquidity(p)
        \/ EmergencyLockRedeem(p)
        \/ EmergencyUnlockRedeem(p)
        \/ EmergencyExit(p)

ParameterStep ==
    \E p \in Pools :
        \/ \E f \in ArbitrageFees, t \in ArbitrageFeePeriods :
               SetArbitrageFee(p, f, t)
        \/ \E r \in ReservePercentages : SetReservePercentage(p, r)
        \/ \E f \in WithdrawFees : SetWithdrawFee(p, f)

\* What the pool sees of the rest of the system, on its own: prices, deployed
\* values and the oracle's state change at any time.
EnvInit ==
    /\ price \in [Pools -> Prices]
    /\ readable \in [Pools -> BOOLEAN]
    /\ deployedValue = [p \in Pools |-> 0]
    /\ lpBal = [p \in Pools |-> 0]
    /\ now = StartTime

ValuesChange ==
    /\ price' \in [Pools -> Prices]
    /\ readable' \in [Pools -> BOOLEAN]
    /\ deployedValue' \in [Pools -> DeployedValues]
    /\ UNCHANGED <<lpBal, now>>

NewBlock ==
    /\ now < MaxTime
    /\ now' = now + 1
    /\ UNCHANGED <<price, readable, deployedValue, lpBal>>

Init == PoolInit /\ EnvInit

PoolStep == UserStep \/ SwitchStep \/ ParameterStep

Next ==
    \/ PoolStep /\ UNCHANGED envVars
    \/ LendStep /\ UNCHANGED <<price, readable, deployedValue, now>>
    \/ (ValuesChange \/ NewBlock) /\ UNCHANGED poolVars

Spec == Init /\ [][Next]_vars

-----------------------------------------------------------------------------
\* The values the variables take.
TypeOK ==
    /\ apt \in [Pools -> [Users -> Nat]]
    /\ userBal \in [Pools -> [Users -> Nat]]
    /\ poolBal \in [Pools -> Nat]
    /\ lastDepositTime \in [Pools -> [Users -> Nat]]
    /\ settings \in [Pools -> Settings]
    /\ price \in [Pools -> Nat]
    /\ readable \in [Pools -> BOOLEAN]
    /\ deployedValue \in [Pools -> Nat]
    /\ lpBal \in [Pools -> Nat]
    /\ now \in Nat

\* Shares keep their worth whoever comes and goes, at any price, deployed value,
\* fee and rounding.  After addLiquidity the total value per share of those who
\* were there has not fallen, also when the fallback ratio applies; after redeem
\* the shares that stay are worth what they were, to within one unit of value of
\* the whole pool.
SharesKeepTheirWorth ==
    [][\A p \in Pools :
           /\ 0 < TotalSupply(p) /\ TotalSupply(p) < TotalSupply(p)' =>
                  GetPoolTotalValue(p)' * TotalSupply(p)
                      >= GetPoolTotalValue(p) * TotalSupply(p)'
           /\ TotalSupply(p)' < TotalSupply(p) =>
                  (GetPoolTotalValue(p)' + 1) * TotalSupply(p)
                      > GetPoolTotalValue(p) * TotalSupply(p)']_vars

\* No account redeems anything within the arbitrage period of its own last
\* deposit without leaving the arbitrage fee in the pool, however deposits,
\* redemptions, blocks and new parameters are interleaved.
ArbitrageFeeStays ==
    [][\A p \in Pools, u \in Users :
           LET fullAmount == GetUnderlyerAmount(p, apt[p][u] - apt'[p][u])
           IN  apt'[p][u] < apt[p][u]
               /\ now < lastDepositTime[p][u] + settings[p].arbitrageFeePeriod
               => 100 * (userBal'[p][u] - userBal[p][u])
                      < (100 - settings[p].arbitrageFee) * fullAmount + 100]_vars

\* A deposit followed by the redemption of the shares it minted never returns
\* more than was deposited, up to one unit of value, unless the pool held value
\* that belonged to no share.
RoundTripValue(p, n) ==
    LET minted == CalculateMintAmount(p, n)
        total == ValueOf(poolBal[p] + n, price[p], Unit[p]) + deployedValue[p]
        supply == TotalSupply(p) + minted
    IN  IF minted = 0
        THEN 0
        ELSE ValueOf(UnderlyerFor(minted, total, supply, price[p], Unit[p]),
                     price[p], Unit[p])

NoRoundTripProfit ==
    \A p \in Pools :
        price[p] > 0 /\ (TotalSupply(p) > 0 \/ GetPoolTotalValue(p) = 0) =>
            \A n \in 1..Funds :
                RoundTripValue(p, n) <= ValueOf(n, price[p], Unit[p]) + 1

\* The equation the code's comment asks of the top-up: moving it between the
\* reserve and the deployed capital leaves the reserve at its percentage of what
\* stays deployed, to within the rounding of one division.
TopUpMeetsEquation ==
    \A p \in Pools :
        LET percentage == settings[p].reservePercentage
            topUp == TopUpValue(deployedValue[p], PoolUnderlyerValue(p), percentage)
            miss == 100 * (PoolUnderlyerValue(p) + topUp)
                    - percentage * (deployedValue[p] - topUp)
        IN  -(100 + percentage) < miss /\ miss < 100 + percentage
=============================================================================
