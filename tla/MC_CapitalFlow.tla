--------------------------- MODULE MC_CapitalFlow ---------------------------
(***************************************************************************)
(* Small instances of CapitalFlow for TLC, with two zaps over all          *)
(* underlyers, the position of one of which is counted.  The constants     *)
(* hold all that any instance uses; each takes only what it lists.  A      *)
(* behaviour is one of one instance, chosen at the start together with the *)
(* pools that play a part in it.                                           *)
(***************************************************************************)
EXTENDS CapitalFlow, TLC

CONSTANTS lending, staking, allocation

VARIABLES instance, inPlay

MCZapCoins == [z \in Zaps |-> Pools]
MCZapAllocations == [z \in Zaps |-> IF z = lending THEN {allocation} ELSE {}]
MCZapErc20s == [z \in Zaps |-> {}]
MCCountedBy == [z \in Zaps |-> IF z = lending THEN allocation ELSE NoAllocation]

Least == [pools |-> 1, zap |-> lending, periods |-> {Min(Periods)}, submitted |-> FALSE,
          percentages |-> {0}, funds |-> 1, shares |-> 2, blocks |-> MaxBlock]

Instances ==
    \* Two pools, calls that name both, 3pool swaps between their underlyers.
    [two |-> [Least EXCEPT !.pools = 2],
    \* Capital that no longer counts once it is deployed.
     uncounted |-> [Least EXCEPT !.zap = staking],
    \* Locks of two lengths, and the Emergency Safe submitting and retracting TVLs.
     one |-> [Least EXCEPT !.periods = Periods, !.submitted = TRUE],
    \* Capital lent and brought back as the reserve percentage changes, in fewer blocks.
     rebalance |-> [Least EXCEPT !.percentages = ReservePercentages, !.funds = Funds,
                                 !.shares = MaxShares, !.blocks = MaxBlock - 1]]

Within(given) ==
    /\ block <= given.blocks
    /\ erc20Tokens \subseteq inPlay
    /\ Lent <= given.shares
    /\ \A p \in inPlay : Pool!TotalSupply(p) <= given.shares

\* The steps that give a choice, with the inputs of one instance.
UserStepWithin(given) ==
    \E p \in inPlay, u \in Users :
        \/ \E n \in 1..(userBal[p][u] - (Funds - given.funds)) : Deposit(p, u, n)
        \/ \E n \in 1..apt[p][u] : Redeem(p, u, n)

LpSafeStepWithin(given) ==
    \/ \E times \in {c \in Calls : Named(c) \subseteq inPlay} :
           FundLpAccount(times) \/ WithdrawFromLpAccount(times)
    \/ \E z \in {given.zap}, t \in inPlay :
           \/ \E n \in 1..lpBal[t] :
                  DeployStrategy(z, [c \in ZapCoins[z] |-> IF c = t THEN n ELSE 0])
           \/ \E n \in 0..position[z] : UnwindStrategy(z, n, t)
    \/ \E t, u \in inPlay : \E n \in 1..lpBal[t] : SwapWith3Pool(t, u, n)

AdminStepWithin(given) ==
    \/ \E p \in inPlay, r \in given.percentages : SetReservePercentage(p, r)
    \/ RegistryAdmin
    \/ given.submitted /\ SubmitTvl

MCInit ==
    /\ Init
    /\ instance \in DOMAIN Instances /\ inPlay \in SUBSET Pools
    /\ Cardinality(inPlay) = Instances[instance].pools
    /\ {lockPeriod, defaultLockPeriod} \subseteq Instances[instance].periods

StepWithin(given) ==
    UserStepWithin(given) \/ LpSafeStepWithin(given) \/ AdminStepWithin(given)

MCNext ==
    /\ UNCHANGED <<instance, inPlay>>
    /\ \/ /\ \/ StepWithin(Instances[instance]) /\ UNCHANGED unguarded
             \/ Emergency /\ unguarded' = TRUE
          /\ TvlChangeNoted
          /\ UNCHANGED chainVars
       \/ ReportTvl
       \/ NewBlock
    /\ Within(Instances[instance])'

MCSpec == MCInit /\ [][MCNext]_<<instance, inPlay, vars>>

PoolSymmetry == Permutations(Pools)
=============================================================================
