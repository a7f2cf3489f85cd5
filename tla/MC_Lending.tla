------------------------------ MODULE MC_Lending ------------------------------
(***************************************************************************)
(* Small instances of LpAccountV2, MetaPoolTokenV2 and StakedAaveZap for   *)
(* TLC.  A behaviour is one of one of them, chosen at the start.           *)
(*                                                                         *)
(* The account: two coins of the 3pool, and AAVE; a zap that lends dai and *)
(* one that stakes AAVE, which no allocation counts; claims through the    *)
(* first bring AAVE and stkAAVE, which it names neither; one swap, fees up *)
(* to 150%.  The mAPT: two interchangeable pools, lists that name a pool   *)
(* twice, gains and losses between the calls.  The stake: three units of   *)
(* time of cooldown, a window of two.                                      *)
(***************************************************************************)
EXTENDS Lending, TLC

CONSTANTS dai, usdc, aaveToken, lending, staking, aaveToDai, aaveUsdc

VARIABLE running

MCTokens == {dai, usdc, aaveToken}
MCZapCoins == [z \in Zaps |-> IF z = lending THEN {dai} ELSE {aaveToken}]
MCZapAllocations == [z \in Zaps |-> IF z = lending THEN {aaveUsdc} ELSE {}]
MCZapErc20s == MCZapCoins
MCZapRewards == [z \in Zaps |-> IF z = lending THEN {aaveToken, staking} ELSE {aaveToken}]
MCCountedBy == [z \in Zaps |-> IF z = lending THEN aaveUsdc ELSE NoAllocation]
MCSwapIn == [s \in Swaps |-> aaveToken]
MCSwapOut == [s \in Swaps |-> dai]
MCThreePool == {dai, usdc}

MCMAptUnit == [p \in Pools |-> 1]
MCTopUps == -2..2
MCYields == {-1, 1}

PoolSymmetry == Permutations(Pools)

MCInit ==
    /\ running \in {"account", "shares", "stake"}
    /\ Init
    /\ Shares!Init
    /\ Staking!Init

MCNext ==
    /\ UNCHANGED running
    /\ \/ running = "account" /\ Next /\ UNCHANGED <<shareVars, stakingVars>>
       \/ running = "shares" /\ Shares!Next /\ UNCHANGED <<vars, stakingVars>>
       \/ running = "stake" /\ Staking!Next /\ UNCHANGED <<vars, shareVars>>

MCSpec == MCInit /\ [][MCNext]_<<running, vars, shareVars, stakingVars>>
=============================================================================
