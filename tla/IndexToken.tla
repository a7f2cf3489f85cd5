----------------------------- MODULE IndexToken -----------------------------
(***************************************************************************)
(* contracts/index/IndexToken.sol: the ERC-4626 successor of the pools,    *)
(* valued as they are.  Shares are given for assets two ways (deposit      *)
(* names the assets, mint the shares) and taken back two ways (redeem      *)
(* names the shares, withdraw the assets), and each way rounds by itself.  *)
(* Who calls, who owns the shares and who receives need not be the same,   *)
(* and shares, unlike those of the pools, may be transferred.              *)
(*                                                                         *)
(* The allowance of a depositor's assets is taken to cover the deposit.    *)
(* The oracle, the mAPT and the clock are the environment.  DepositZap is  *)
(* a caller with an allowance like any other.                              *)
(***************************************************************************)
EXTENDS PoolMath, Sums

CONSTANTS
    Users,
    AssetUnit,            \* 10**decimals of the asset
    ShareUnit,            \* 10**18
    WithdrawFees,         \* withdraw fees the admin may set
    WithdrawFeeDenominator,
    ArbitrageFees,        \* arbitrage fees the admin may set, in percent
    ArbitrageFeePeriods,  \* periods the admin may set, in seconds
    ReservePercentages,   \* reserve percentages the admin may set
    Funds,                \* assets each user starts with
    Prices,               \* prices the oracle may serve; 0 by submission only
    DeployedValues,       \* values of the deployed capital
    Allowances,           \* amounts of shares a user may approve, or Unlimited
    Unlimited,            \* type(uint256).max
    Switches,             \* bound: whether the Emergency Safe acts
    StartTime,            \* timestamp of the first block
    MaxTime,              \* bound: no block later than this
    MaxSupply             \* bound: nothing brings the supply beyond this

ASSUME IndexConstantsAssumption ==
    /\ IsFiniteSet(Users)
    /\ AssetUnit \in Nat \ {0} /\ ShareUnit \in Nat \ {0}
    /\ WithdrawFees \subseteq Nat /\ WithdrawFeeDenominator \in Nat \ {0}
    /\ ArbitrageFees \subseteq Nat /\ ArbitrageFeePeriods \subseteq Nat
    /\ ReservePercentages \subseteq Nat
    /\ {} \notin {WithdrawFees, ArbitrageFees, ArbitrageFeePeriods, ReservePercentages}
    /\ Funds \in Nat
    /\ Prices \subseteq Nat /\ DeployedValues \subseteq Nat
    /\ Allowances \subseteq Nat \cup {Unlimited} /\ Unlimited \notin Nat
    /\ Switches \in BOOLEAN
    /\ StartTime \in Nat /\ MaxTime \in Nat /\ MaxSupply \in Nat

VARIABLES
    balanceOf,         \* shares of every user
    allowance,         \* shares each owner lets each spender take
    assetsOf,          \* assets held by every user
    reserve,           \* assets held by the index token
    lpBal,             \* assets held by the LP Account
    lastDepositTime,
    settings,          \* switches and parameters
    price,             \* getAssetPrice, from the oracle
    readable,          \* whether the oracle serves what a valuation needs
    deployedValue,     \* getDeployedValue, from the mAPT
    now                \* block.timestamp

holdings == <<balanceOf, allowance, assetsOf, reserve, lpBal, lastDepositTime>>
envVars == <<price, readable, deployedValue, now>>
vars == <<holdings, settings, envVars>>

Settings ==
    [paused : BOOLEAN, depositLock : BOOLEAN, redeemLock : BOOLEAN,
     arbitrageFee : Nat, arbitrageFeePeriod : Nat,
     reservePercentage : Nat, withdrawFee : Nat]

-----------------------------------------------------------------------------
\* Conversions.  They revert unless the oracle is readable, except for those
\* at the fixed ratio, and when they divide by zero.

TotalSupply == Total(balanceOf, Users)

GetPoolTotalValue == ValueOf(reserve, price, AssetUnit) + deployedValue

ConvertibleToShares == TotalSupply = 0 \/ (readable /\ GetPoolTotalValue > 0)

ConvertToShares(assets) ==
    IF TotalSupply = 0
    THEN (assets * ShareUnit) \div AssetUnit
    ELSE ((assets * TotalSupply * price) \div GetPoolTotalValue) \div AssetUnit

ConvertibleToAssets == TotalSupply = 0 \/ (readable /\ price > 0)

ConvertToAssets(shares) ==
    IF TotalSupply = 0
    THEN (shares * AssetUnit) \div ShareUnit
    ELSE ((shares * GetPoolTotalValue * AssetUnit) \div price) \div TotalSupply

\* Mutant: early and late the wrong way round.
HasArbFeeSwapped(owner) == now - lastDepositTime[owner] >= settings.arbitrageFeePeriod

HasArbFee(owner) == now - lastDepositTime[owner] < settings.arbitrageFeePeriod

\* _getAssetAmountAfterFees
AfterFees(assets, owner) ==
    assets - (assets * settings.withdrawFee) \div WithdrawFeeDenominator
           - IF HasArbFee(owner) THEN (assets * settings.arbitrageFee) \div 100 ELSE 0

\* What is left of one unit after fees, as a fraction of `Whole'; nothing
\* left makes the division revert.
Whole == WithdrawFeeDenominator * 100

Left(owner) ==
    Whole - settings.withdrawFee * 100
          - IF HasArbFee(owner) THEN settings.arbitrageFee * WithdrawFeeDenominator ELSE 0

\* Mutant: adds the fee to the assets, where it has to be part of the whole.
BeforeFeesAdded(assets, owner) == assets + (assets * (Whole - Left(owner))) \div Whole

\* _getAssetAmountBeforeFees
BeforeFees(assets, owner) == (assets * Whole) \div Left(owner)

\* Mutant: rounds in favour of whoever mints.
PreviewMintExact(shares) == ConvertToAssets(shares)

PreviewMint(shares) == ConvertToAssets(shares) + 1

PreviewRedeem(shares, owner) == AfterFees(ConvertToAssets(shares), owner)

\* Mutant: rounds in favour of whoever withdraws.
PreviewWithdrawExact(assets, owner) == ConvertToShares(BeforeFees(assets, owner))

PreviewWithdraw(assets, owner) == ConvertToShares(BeforeFees(assets, owner)) + 1

\* Mutant: the reserve is not asked.
ReserveCoversAnything(assets) == assets >= 0

ReserveCovers(assets) == assets <= reserve

MaxWithdraw(owner) == ConvertToAssets(balanceOf[owner])

-----------------------------------------------------------------------------
\* initialize.  Parameters start at the smallest value of their set; the admin
\* may set any other.
Init ==
    /\ balanceOf = [u \in Users |-> 0]
    /\ allowance = [u \in Users |-> [v \in Users |-> 0]]
    /\ assetsOf = [u \in Users |-> Funds]
    /\ reserve = 0 /\ lpBal = 0
    /\ lastDepositTime = [u \in Users |-> 0]
    /\ settings = [paused |-> FALSE, depositLock |-> FALSE, redeemLock |-> FALSE,
                   arbitrageFee |-> Min(ArbitrageFees),
                   arbitrageFeePeriod |-> Min(ArbitrageFeePeriods),
                   reservePercentage |-> Min(ReservePercentages),
                   withdrawFee |-> Min(WithdrawFees)]
    /\ price \in Prices
    /\ readable \in BOOLEAN
    /\ deployedValue = 0
    /\ now = StartTime

-----------------------------------------------------------------------------
\* Shares against assets.

DepositsOpen == ~settings.paused /\ ~settings.depositLock

Give(caller, receiver, assets, shares) ==
    /\ assets <= assetsOf[caller]
    /\ TotalSupply + shares <= MaxSupply
    /\ lastDepositTime' = [lastDepositTime EXCEPT ![receiver] = now]
    /\ balanceOf' = [balanceOf EXCEPT ![receiver] = @ + shares]
    /\ assetsOf' = [assetsOf EXCEPT ![caller] = @ - assets]
    /\ reserve' = reserve + assets
    /\ UNCHANGED <<allowance, lpBal, settings>>

Deposit(caller, receiver, assets) ==
    /\ DepositsOpen
    /\ assets > 0
    /\ ConvertibleToShares
    /\ Give(caller, receiver, assets, ConvertToShares(assets))

Mint(caller, receiver, shares) ==
    /\ DepositsOpen
    /\ shares > 0
    /\ ConvertibleToAssets
    /\ Give(caller, receiver, PreviewMint(shares), shares)

RedemptionsOpen == ~settings.paused /\ ~settings.redeemLock

SpendAllowance(owner, spender, shares) ==
    IF spender = owner \/ allowance[owner][spender] = Unlimited
    THEN UNCHANGED allowance
    ELSE /\ shares <= allowance[owner][spender]
         /\ allowance' = [allowance EXCEPT ![owner][spender] = @ - shares]

Take(caller, receiver, owner, assets, shares) ==
    /\ shares <= balanceOf[owner]
    /\ ReserveCovers(assets)
    /\ SpendAllowance(owner, caller, shares)
    /\ balanceOf' = [balanceOf EXCEPT ![owner] = @ - shares]
    /\ assetsOf' = [assetsOf EXCEPT ![receiver] = @ + assets]
    /\ reserve' = reserve - assets
    /\ UNCHANGED <<lpBal, lastDepositTime, settings>>

Redeem(caller, receiver, owner, shares) ==
    /\ RedemptionsOpen
    /\ shares > 0
    /\ ConvertibleToAssets
    /\ PreviewRedeem(shares, owner) >= 0
    /\ Take(caller, receiver, owner, PreviewRedeem(shares, owner), shares)

Withdraw(caller, receiver, owner, assets) ==
    /\ RedemptionsOpen
    /\ assets > 0
    /\ Left(owner) > 0
    /\ ConvertibleToShares
    /\ Take(caller, receiver, owner, assets, PreviewWithdraw(assets, owner))

-----------------------------------------------------------------------------
\* Shares as ERC20 tokens: transfer, transferFrom and approve.
\* transferFrom counts an unlimited allowance down from 2^256 - 1, which no supply
\* exhausts: it stays Unlimited.

Transfer(spender, owner, receiver, shares) ==
    /\ shares <= balanceOf[owner]
    /\ IF spender = owner
       THEN UNCHANGED allowance
       ELSE /\ allowance[owner][spender] # Unlimited => shares <= allowance[owner][spender]
            /\ allowance' = [allowance EXCEPT ![owner][spender] =
                                 IF @ = Unlimited THEN @ ELSE @ - shares]
    /\ balanceOf' = [u \in Users |->
           balanceOf[u] - (IF u = owner THEN shares ELSE 0)
                        + (IF u = receiver THEN shares ELSE 0)]
    /\ UNCHANGED <<assetsOf, reserve, lpBal, lastDepositTime, settings>>

Approve(owner, spender, shares) ==
    /\ allowance' = [allowance EXCEPT ![owner][spender] = shares]
    /\ UNCHANGED <<balanceOf, assetsOf, reserve, lpBal, lastDepositTime, settings>>

-----------------------------------------------------------------------------
\* The LP Account and the safes.

TransferToLpAccount(amount) ==
    /\ ~settings.paused
    /\ amount <= reserve
    /\ reserve' = reserve - amount
    /\ lpBal' = lpBal + amount
    /\ UNCHANGED <<balanceOf, allowance, assetsOf, lastDepositTime, settings>>

ReceiveFromLpAccount(amount) ==
    /\ amount <= lpBal
    /\ reserve' = reserve + amount
    /\ lpBal' = lpBal - amount
    /\ UNCHANGED <<balanceOf, allowance, assetsOf, lastDepositTime, settings>>

EmergencyExit ==
    /\ reserve' = 0
    /\ UNCHANGED <<balanceOf, allowance, assetsOf, lpBal, lastDepositTime, settings>>

Set(new) == settings' = new /\ UNCHANGED holdings

EmergencyLock == ~settings.paused /\ Set([settings EXCEPT !.paused = TRUE])
EmergencyUnlock == settings.paused /\ Set([settings EXCEPT !.paused = FALSE])
EmergencyLockDeposit == Set([settings EXCEPT !.depositLock = TRUE])
EmergencyUnlockDeposit == Set([settings EXCEPT !.depositLock = FALSE])
EmergencyLockRedeem == Set([settings EXCEPT !.redeemLock = TRUE])
EmergencyUnlockRedeem == Set([settings EXCEPT !.redeemLock = FALSE])

SetArbitrageFee(feePercentage, feePeriod) ==
    Set([settings EXCEPT !.arbitrageFee = feePercentage,
                         !.arbitrageFeePeriod = feePeriod])

SetReservePercentage(percentage) ==
    Set([settings EXCEPT !.reservePercentage = percentage])

SetWithdrawFee(fee) == Set([settings EXCEPT !.withdrawFee = fee])

-----------------------------------------------------------------------------
UserStep ==
    \E caller, other \in Users :
        \/ \E n \in 1..Funds : Deposit(caller, other, n)
        \/ \E n \in 1..MaxSupply : Mint(caller, other, n)
        \/ \E owner \in Users :
               \/ \E n \in 1..balanceOf[owner] : Redeem(caller, other, owner, n)
               \/ \E n \in 1..reserve : Withdraw(caller, other, owner, n)
               \/ \E n \in 1..balanceOf[owner] : Transfer(caller, owner, other, n)
        \/ caller # other /\ \E n \in Allowances : Approve(caller, other, n)

LendStep ==
    \/ \E n \in 1..reserve : TransferToLpAccount(n)
    \/ \E n \in 1..lpBal : ReceiveFromLpAccount(n)

SwitchStep ==
    /\ Switches
    /\ \/ EmergencyLock \/ EmergencyUnlock
       \/ EmergencyLockDeposit \/ EmergencyUnlockDeposit
       \/ EmergencyLockRedeem \/ EmergencyUnlockRedeem
       \/ EmergencyExit

ParameterStep ==
    \/ \E f \in ArbitrageFees, t \in ArbitrageFeePeriods : SetArbitrageFee(f, t)
    \/ \E r \in ReservePercentages : SetReservePercentage(r)
    \/ \E f \in WithdrawFees : SetWithdrawFee(f)

ValuesChange ==
    /\ price' \in Prices
    /\ readable' \in BOOLEAN
    /\ deployedValue' \in DeployedValues
    /\ UNCHANGED now

NewBlock ==
    /\ now < MaxTime
    /\ now' = now + 1
    /\ UNCHANGED <<price, readable, deployedValue>>

Next ==
    \/ (UserStep \/ LendStep \/ SwitchStep \/ ParameterStep) /\ UNCHANGED envVars
    \/ (ValuesChange \/ NewBlock) /\ UNCHANGED <<holdings, settings>>

Spec == Init /\ [][Next]_vars

-----------------------------------------------------------------------------
\* The values the variables take.
TypeOK ==
    /\ balanceOf \in [Users -> Nat]
    /\ allowance \in [Users -> [Users -> Nat \cup {Unlimited}]]
    /\ assetsOf \in [Users -> Nat]
    /\ reserve \in Nat /\ lpBal \in Nat
    /\ lastDepositTime \in [Users -> Nat]
    /\ settings \in Settings
    /\ price \in Nat /\ readable \in BOOLEAN /\ deployedValue \in Nat
    /\ now \in Nat

\* Whichever of deposit, mint, redeem and withdraw is called, with whatever fees,
\* the value behind each share that was there before and stays does not fall by
\* more than one unit of value for all of them together.
SharePriceKept ==
    TotalSupply > 0 /\ TotalSupply' > 0 /\ TotalSupply' # TotalSupply =>
        (GetPoolTotalValue' + 1) * TotalSupply > GetPoolTotalValue * TotalSupply'

\* deposit, mint, redeem and withdraw keep it, and nothing else mints or burns.
SharePriceNeverFalls == [][SharePriceKept]_vars

\* previewMint, previewWithdraw: to name what comes out is never cheaper than to name
\* what goes in.  Shares named to mint cost at least the assets that deposit would give
\* them for; assets named to withdraw cost at least the shares that redeem would pay
\* them for, so that the fee added in front is no smaller than the fee taken off behind.
NamingNeverCheaper ==
    ConvertibleToShares /\ ConvertibleToAssets =>
        /\ \A shares \in 1..MaxSupply : ConvertToShares(PreviewMint(shares)) >= shares
        /\ TotalSupply > 0 =>
               \A owner \in Users, assets \in 1..Funds : Left(owner) > 0 =>
                   PreviewRedeem(PreviewWithdraw(assets, owner), owner) >= assets

\* Who redeems or withdraws within the period of the owner's last deposit leaves the
\* arbitrage fee behind, whoever calls, whoever receives and whichever way it goes, as
\* long as the asset has a price.
EarlyOwnerPaysFee ==
    ConvertibleToAssets => \A owner \in Users :
        TotalSupply' < TotalSupply /\ balanceOf'[owner] < balanceOf[owner]
        /\ now < lastDepositTime[owner] + settings.arbitrageFeePeriod
        => 100 * (reserve - reserve')
               < (100 - settings.arbitrageFee)
                     * ConvertToAssets(balanceOf[owner] - balanceOf'[owner]) + 100

\* redeem and withdraw, by whatever caller.
EarlyExitLeavesFee == [][EarlyOwnerPaysFee]_vars

\* IERC4626.sol:166, of maxWithdraw: it returns what the owner can withdraw in a withdraw call.
MaxWithdrawCanBeTaken ==
    ConvertibleToShares /\ ConvertibleToAssets =>
        \A owner \in Users : MaxWithdraw(owner) > 0 /\ Left(owner) > 0 =>
            PreviewWithdraw(MaxWithdraw(owner), owner) <= balanceOf[owner]
=============================================================================
