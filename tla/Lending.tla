------------------------------ MODULE Lending ------------------------------
(***************************************************************************)
(* What holds the capital the pools lend, each on its own: the LP Account  *)
(* with its registrations (LpAccountV2), the mAPT whose shares say what is *)
(* whose (MetaPoolTokenV2), and the one zap whose unwinding takes several  *)
(* calls (StakedAaveZap).  CapitalFlow is the first two together.          *)
(***************************************************************************)
EXTENDS LpAccountV2

CONSTANTS
    Pools, MAptFactor, MAptUnit, TopUps, Yields, MaxTvl, MaxMApt,
    Cooldown, UnstakeWindow, MaxAave, MaxTime

VARIABLES
    mApt, tvl, readable, price,
    lent,            \* what the mAPT sees of the LP Account's balances
    now, aave, staked, cooldownStart, tryingSince, lastTry

shareVars == <<mApt, tvl, readable, price, lent>>
stakingVars == <<now, aave, staked, cooldownStart, tryingSince, lastTry>>

Shares == INSTANCE MetaPoolTokenV2 WITH lpBal <- lent

Staking == INSTANCE StakedAaveZap

ASSUME SharesAssumption == Shares!MAptConstantsAssumption
ASSUME StakingConstants == Staking!StakingAssumption

-----------------------------------------------------------------------------
\* getDeployedValue: what the pools are told they own adds up to the TVL.
DeployedValuesAddUp == Shares!DeployedValuesAddUp

\* fundLpAccount, withdrawFromLpAccount: every pool named pays for its mAPT, or burns
\* it for what it takes, at one TVL and supply.
CallsAreFair == Shares!CallsAreFair

\* unwindStrategy of stkAAVE: who tries again in every unstake window has AAVE back
\* within one cooldown and one window.
RetriesSucceed == Staking!RetriesSucceed
=============================================================================
