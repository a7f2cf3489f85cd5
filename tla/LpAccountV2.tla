---------------------------- MODULE LpAccountV2 ----------------------------
(***************************************************************************)
(* contracts/lpaccount/LpAccountV2.sol: the account that holds the capital *)
(* lent by the pools and deploys it.  Zaps move tokens into and out of a   *)
(* strategy's position, swaps exchange one token for another, a claim      *)
(* collects reward tokens and sends a fee to the treasury.                 *)
(*                                                                         *)
(* The protocols behind zaps and swaps are external: one unit of any token *)
(* or of any position is worth the same, and an exchange neither gains nor *)
(* loses.  The account only knows of a zap what the zap says: it may name  *)
(* no allocation although it leaves a position, as that of stkAAVE does,   *)
(* and a claim may bring what it does not name.  The tokens that stand for *)
(* a position are not among Tokens.  The lock that ends most operations is *)
(* added by the composing module.                                          *)
(***************************************************************************)
EXTENDS TvlManager, Sums

CONSTANTS
    Zaps,            \* deployed zap contracts
    Swaps,           \* deployed swap contracts
    ZapCoins,        \* tokens a zap deploys from and unwinds to
    ZapAllocations,  \* assetAllocations() of a zap, possibly none
    ZapErc20s,       \* erc20Allocations() of a zap: reward tokens, mostly
    ZapRewards,      \* what claiming through a zap may bring: tokens, whether
                     \* the zap names them or not, and units of positions
    CountedBy,       \* the allocation that counts the position of a zap
    NoAllocation,    \* CountedBy of a position that nothing counts
    SwapIn, SwapOut, \* the two tokens of a swap
    ThreePool,       \* coins of the Curve 3pool
    RewardTokens,    \* tokens the admin may register a reward fee for
    Fees,            \* reward fees the admin may register
    FeeDenominator,  \* 10000: fees are in basis points
    LockPeriods,     \* lock periods the admin may set
    MaxGain,         \* bound on what one claim collects of a token
    MaxHoldings      \* bound on everything the account holds

ASSUME LpConstantsAssumption ==
    /\ IsFiniteSet(Tokens) /\ IsFiniteSet(Zaps)
    /\ ZapCoins \in [Zaps -> SUBSET Tokens]
    /\ ZapAllocations \in [Zaps -> SUBSET Allocations]
    /\ ZapErc20s \in [Zaps -> SUBSET Tokens]
    /\ ZapRewards \in [Zaps -> SUBSET (Tokens \cup Zaps)]
    /\ CountedBy \in [Zaps -> Allocations \cup {NoAllocation}]
    /\ NoAllocation \notin Allocations
    /\ Tokens \cap Zaps = {}
    /\ SwapIn \in [Swaps -> Tokens]
    /\ SwapOut \in [Swaps -> Tokens]
    /\ ThreePool \subseteq Tokens
    /\ RewardTokens \subseteq Tokens
    /\ Fees \subseteq Nat
    /\ FeeDenominator \in Nat \ {0}
    /\ LockPeriods \subseteq Nat
    /\ MaxGain \in Nat /\ MaxHoldings \in Nat

VARIABLES
    lpBal,         \* balance of every token
    position,      \* what is deployed through every zap
    zaps,          \* names registered
    swaps,         \* names registered
    lockPeriod,
    rewardFee,     \* fee of each token, 0 when it is no reward token
    treasury       \* tokens received by the treasury safe

lpVars == <<lpBal, position, zaps, swaps, lockPeriod, rewardFee, treasury>>
holdings == <<lpBal, position, treasury>>
lpConfig == <<zaps, swaps, lockPeriod, rewardFee>>

\* What the Chainlink nodes add up.
Counted == {z \in Zaps : CountedBy[z] \in allocations}

TrackedTvl == Total(lpBal, erc20Tokens) + Total(position, Counted)

HoldingsInit ==
    /\ lpBal = [t \in Tokens |-> 0]
    /\ position = [z \in Zaps |-> 0]
    /\ treasury = [t \in Tokens |-> 0]

ConfigInit ==
    /\ zaps = {}
    /\ swaps = {}
    /\ lockPeriod \in LockPeriods
    /\ rewardFee = [t \in Tokens |-> 0]

-----------------------------------------------------------------------------
\* The LP Safe.

\* A token transfer reverts when the balance is too small.
Held(amounts) == \A t \in DOMAIN amounts : amounts[t] <= lpBal[t]

CheckAllocationRegistrations(names) == IsAssetAllocationRegistered(names)

CheckErc20Registrations(names) ==
    \A z \in names : IsErc20TokenRegistered(ZapErc20s[z])

DeployStrategy(z, amounts) ==
    /\ z \in zaps
    /\ CheckAllocationRegistrations(ZapAllocations[z])
    /\ CheckErc20Registrations({z})
    /\ Held(amounts)
    /\ lpBal' = [t \in Tokens |->
           IF t \in ZapCoins[z] THEN lpBal[t] - amounts[t] ELSE lpBal[t]]
    /\ position' = [position EXCEPT ![z] = @ + Total(amounts, ZapCoins[z])]
    /\ UNCHANGED <<treasury, lpConfig>>

\* No registration is looked at.  Nothing is moved when the zap of stkAAVE only
\* starts its cooldown (StakedAaveZap).
UnwindStrategy(z, amount, coin) ==
    /\ z \in zaps
    /\ coin \in ZapCoins[z]
    /\ amount <= position[z]
    /\ position' = [position EXCEPT ![z] = @ - amount]
    /\ lpBal' = [lpBal EXCEPT ![coin] = @ + amount]
    /\ UNCHANGED <<treasury, lpConfig>>

Exchange(tokenIn, tokenOut, amount) ==
    /\ amount <= lpBal[tokenIn]
    /\ lpBal' = [lpBal EXCEPT ![tokenIn] = @ - amount, ![tokenOut] = @ + amount]
    /\ UNCHANGED <<position, treasury, lpConfig>>

Swap(s, amount) ==
    /\ s \in swaps
    /\ IsErc20TokenRegistered({SwapIn[s], SwapOut[s]})
    /\ Exchange(SwapIn[s], SwapOut[s], amount)

\* No registration is looked at.
SwapWith3Pool(tokenIn, tokenOut, amount) ==
    /\ tokenIn \in ThreePool /\ tokenOut \in ThreePool
    /\ tokenIn # tokenOut
    /\ Exchange(tokenIn, tokenOut, amount)

\* Mutant: takes the fee on the whole balance.
RewardFeeOnBalance(t, gain) ==
    ((lpBal[t] + gain) * rewardFee[t]) \div FeeDenominator

\* The fee of a reward token is taken on what all the zaps together collected.
RewardFee(t, gain) == (gain * rewardFee[t]) \div FeeDenominator

SendFeesToTreasurySafe(balances, fees) ==
    /\ \A t \in Tokens : fees[t] <= balances[t]
    /\ lpBal' = [t \in Tokens |-> balances[t] - fees[t]]
    /\ treasury' = [t \in Tokens |-> treasury[t] + fees[t]]

Claim(names, gains) ==
    /\ names \subseteq zaps
    /\ CheckErc20Registrations(names)
    /\ SendFeesToTreasurySafe([t \in Tokens |-> lpBal[t] + gains[t]],
                              [t \in Tokens |-> RewardFee(t, gains[t])])
    /\ position' = [z \in Zaps |-> position[z] + gains[z]]
    /\ UNCHANGED lpConfig

-----------------------------------------------------------------------------
\* The mAPT moves several underlyers in one call.

TransferToPool(amounts) ==
    /\ Held(amounts)
    /\ lpBal' = [t \in Tokens |->
           IF t \in DOMAIN amounts THEN lpBal[t] - amounts[t] ELSE lpBal[t]]
    /\ UNCHANGED <<position, treasury, lpConfig>>

Receive(amounts) ==
    /\ lpBal' = [t \in Tokens |->
           IF t \in DOMAIN amounts THEN lpBal[t] + amounts[t] ELSE lpBal[t]]
    /\ UNCHANGED <<position, treasury, lpConfig>>

-----------------------------------------------------------------------------
\* The admin and the Emergency Safe.

RegisterZap(z) ==
    /\ z \notin zaps
    /\ zaps' = zaps \cup {z}
    /\ UNCHANGED <<holdings, swaps, lockPeriod, rewardFee>>

RemoveZap(z) ==
    /\ z \in zaps
    /\ zaps' = zaps \ {z}
    /\ UNCHANGED <<holdings, swaps, lockPeriod, rewardFee>>

RegisterSwap(s) ==
    /\ s \notin swaps
    /\ swaps' = swaps \cup {s}
    /\ UNCHANGED <<holdings, zaps, lockPeriod, rewardFee>>

RemoveSwap(s) ==
    /\ s \in swaps
    /\ swaps' = swaps \ {s}
    /\ UNCHANGED <<holdings, zaps, lockPeriod, rewardFee>>

SetLockPeriod(period) ==
    /\ lockPeriod' = period
    /\ UNCHANGED <<holdings, zaps, swaps, rewardFee>>

RegisterRewardFee(t, fee) ==
    /\ fee # 0
    /\ rewardFee' = [rewardFee EXCEPT ![t] = fee]
    /\ UNCHANGED <<holdings, zaps, swaps, lockPeriod>>

RemoveRewardFee(t) ==
    /\ rewardFee' = [rewardFee EXCEPT ![t] = 0]
    /\ UNCHANGED <<holdings, zaps, swaps, lockPeriod>>

EmergencyExit(t) ==
    /\ lpBal' = [lpBal EXCEPT ![t] = 0]
    /\ UNCHANGED <<position, treasury, lpConfig>>
-----------------------------------------------------------------------------
\* The account on its own: tokens arrive, the registry changes.

vars == <<lpVars, registryVars>>

\* What zaps may collect: some units of each of their rewards.
Rewards(names) == UNION {ZapRewards[z] : z \in names}

Gains(names) ==
    {[x \in Tokens \cup Zaps |-> IF x \in Rewards(names) THEN g[x] ELSE 0] :
        g \in [Rewards(names) -> 0..MaxGain]}

Init == HoldingsInit /\ ConfigInit /\ RegistryInit

Deploy ==
    \E z \in Zaps : \E amounts \in [ZapCoins[z] -> 0..MaxHoldings] :
        DeployStrategy(z, amounts)

Unwind ==
    \E z \in Zaps, c \in Tokens : \E n \in 0..position[z] : UnwindStrategy(z, n, c)

SwapRegistered ==
    \E s \in Swaps : \E n \in 1..lpBal[SwapIn[s]] : Swap(s, n)

SwapStablecoins ==
    \E t, u \in Tokens : \E n \in 1..lpBal[t] : SwapWith3Pool(t, u, n)

ClaimRewards ==
    \E names \in SUBSET Zaps : \E gains \in Gains(names) :
        /\ Total(lpBal, Tokens) + Total(position, Zaps)
               + Total(treasury, Tokens) + Total(gains, Tokens \cup Zaps) <= MaxHoldings
        /\ Claim(names, gains)

Transfer ==
    \E t \in Tokens : \E n \in 1..MaxHoldings :
        \/ TransferToPool([x \in {t} |-> n])
        \/ /\ Total(lpBal, Tokens) + Total(position, Zaps)
                  + Total(treasury, Tokens) + n <= MaxHoldings
           /\ Receive([x \in {t} |-> n])

AdminStep ==
    \/ \E z \in Zaps : RegisterZap(z) \/ RemoveZap(z)
    \/ \E s \in Swaps : RegisterSwap(s) \/ RemoveSwap(s)
    \/ \E p \in LockPeriods : SetLockPeriod(p)
    \/ \E t \in RewardTokens, f \in Fees : RegisterRewardFee(t, f)
    \/ \E t \in RewardTokens : RemoveRewardFee(t)
    \/ \E t \in Tokens : EmergencyExit(t)

Exchanges == Deploy \/ Unwind \/ SwapRegistered \/ SwapStablecoins

LpSafeStep == Exchanges \/ ClaimRewards

Next ==
    \/ (LpSafeStep \/ Transfer \/ AdminStep) /\ UNCHANGED registryVars
    \/ RegistryStep /\ UNCHANGED lpVars

Spec == Init /\ [][Next]_vars

-----------------------------------------------------------------------------
\* The values the variables take.
TypeOK ==
    /\ lpBal \in [Tokens -> Nat]
    /\ position \in [Zaps -> Nat]
    /\ zaps \subseteq Zaps
    /\ swaps \subseteq Swaps
    /\ lockPeriod \in Nat
    /\ rewardFee \in [Tokens -> Nat]
    /\ treasury \in [Tokens -> Nat]
    /\ allocations \subseteq Allocations
    /\ erc20Tokens \subseteq Tokens

\* claim: the treasury is paid out of what was collected, never out of what the
\* account already held, as long as no registered fee exceeds 100%.
FeesComeFromGains ==
    [][ClaimRewards /\ (\A t \in Tokens : rewardFee[t] <= FeeDenominator) =>
           \A t \in Tokens : lpBal'[t] >= lpBal[t]]_vars
=============================================================================
