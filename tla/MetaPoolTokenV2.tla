-------------------------- MODULE MetaPoolTokenV2 --------------------------
(***************************************************************************)
(* contracts/mapt/MetaPoolTokenV2.sol: the mAPT, the share token of the    *)
(* capital deployed through the LP Account.  Only pools hold it.  The LP   *)
(* Safe calls fundLpAccount to lend pools' excess reserves to the LP       *)
(* Account and withdrawFromLpAccount to top reserves up again; both mint   *)
(* or burn mAPT for each pool in the list at the current TVL, both compute *)
(* every amount before they mint, burn or move anything, and both lock the *)
(* oracle adapter when they are done.                                      *)
(*                                                                         *)
(* A call's pool list is a bag, `times': how often each pool is named.     *)
(* The order of the list does not matter because all amounts come first.   *)
(* The pools, the oracle and the LP Account's balances are the             *)
(* environment; CapitalFlow replaces them by the components.               *)
(***************************************************************************)
EXTENDS PoolMath, Sums

CONSTANTS
    Pools,
    MAptFactor,    \* DEFAULT_MAPT_TO_UNDERLYER_FACTOR
    MAptUnit,      \* 10**decimals of each pool's underlyer
    TopUps,        \* what pools may ask for (getReserveTopUpValue)
    Yields,        \* gains and losses of the deployed capital
    MaxTvl,        \* bound: the TVL stays below this
    MaxMApt        \* bound: no call mints beyond this supply

\* What the constants are; the modules that give them values assume it.
MAptConstantsAssumption ==
    /\ IsFiniteSet(Pools)
    /\ MAptFactor \in Nat \ {0}
    /\ MAptUnit \in [Pools -> Nat \ {0}]
    /\ TopUps \subseteq Int
    /\ Yields \subseteq Int
    /\ MaxTvl \in Nat /\ MaxMApt \in Nat

VARIABLES
    mApt,         \* mAPT balance of each pool
    tvl,          \* getTvl of the oracle adapter
    readable,     \* whether the oracle serves the TVL and the prices
    price,        \* price of each pool's underlyer
    lpBal         \* each underlyer held by the LP Account

-----------------------------------------------------------------------------
MAptSupply == Total(mApt, Pools)

\* Mutant: each pool is told one unit of value more.
GetDeployedValueRoundedUp(p) ==
    IF MAptSupply = 0 \/ mApt[p] = 0
    THEN 0
    ELSE (tvl * mApt[p]) \div MAptSupply + 1

\* Does not read the TVL when there is nothing to value.
GetDeployedValue(p) ==
    IF MAptSupply = 0 \/ mApt[p] = 0
    THEN 0
    ELSE (tvl * mApt[p]) \div MAptSupply

CalculateDelta(p, amount) ==
    SharesFor(ValueOf(amount, price[p], MAptUnit[p]), tvl, MAptSupply, MAptFactor)

\* `topUp': what getReserveTopUpValue answers, positive for a deficit.
FundAmount(topUp) == IF topUp < 0 THEN -topUp ELSE 0

\* Top-ups are capped by what the LP Account holds.
WithdrawAmount(p, topUp) ==
    LET wanted == IF topUp > 0 THEN topUp ELSE 0
    IN  IF wanted > lpBal[p] THEN lpBal[p] ELSE wanted

\* An amount worth no mAPT is not moved (_mintAndTransfer, _burnAndTransfer).
Moved(times, amounts) ==
    [p \in Pools |->
        IF CalculateDelta(p, amounts[p]) = 0 THEN 0 ELSE times[p] * amounts[p]]

\* Mutant: a pool named twice counts once.
DeltasOnce(times, amounts) ==
    [p \in Pools |-> IF times[p] > 0 THEN CalculateDelta(p, amounts[p]) ELSE 0]

Deltas(times, amounts) ==
    [p \in Pools |-> times[p] * CalculateDelta(p, amounts[p])]

FundAmounts(topUps) == [p \in Pools |-> FundAmount(topUps[p])]

WithdrawAmounts(topUps) == [p \in Pools |-> WithdrawAmount(p, topUps[p])]

MAptInit == mApt = [p \in Pools |-> 0]

\* The prices and the TVL are read for every pool named, also for one that has
\* nothing to move.
Quoted(times) == \A p \in Pools : times[p] > 0 => readable[p]

MultipleMint(times, amounts) ==
    LET minted == Deltas(times, amounts)
    IN  mApt' = [p \in Pools |-> mApt[p] + minted[p]]

\* Burning more than a pool's balance reverts.
Burnable(burned) == \A p \in Pools : burned[p] <= mApt[p]

MultipleBurn(times, amounts) ==
    LET burned == Deltas(times, amounts)
    IN  /\ Burnable(burned)
        /\ mApt' = [p \in Pools |-> mApt[p] - burned[p]]

\* The amounts returned by Moved go from the pools to the LP Account.
FundLpAccount(times, topUps) ==
    /\ Quoted(times)
    /\ MultipleMint(times, FundAmounts(topUps))

\* The amounts returned by Moved go from the LP Account to the pools, which
\* reverts when a pool named twice asks for more than there is.
WithdrawFromLpAccount(times, topUps) ==
    LET moved == Moved(times, WithdrawAmounts(topUps))
    IN  /\ Quoted(times)
        /\ \A p \in Pools : moved[p] <= lpBal[p]
        /\ MultipleBurn(times, WithdrawAmounts(topUps))

-----------------------------------------------------------------------------
\* The mAPT on its own: between two calls the pools want anything, the capital
\* gains or loses value, and the TVL feed has caught up with what was moved.

envVars == <<tvl, readable, price, lpBal>>
vars == <<mApt, envVars>>

Calls == {times \in [Pools -> 0..2] : \E p \in Pools : times[p] > 0}

ValueMoved(amounts) ==
    Total([p \in Pools |-> ValueOf(amounts[p], price[p], MAptUnit[p])], Pools)

Fund ==
    \E times \in Calls, topUps \in [Pools -> TopUps] :
        LET moved == Moved(times, FundAmounts(topUps))
        IN  /\ FundLpAccount(times, topUps)
            /\ Total(mApt', Pools) <= MaxMApt
            /\ tvl + ValueMoved(moved) <= MaxTvl
            /\ tvl' = tvl + ValueMoved(moved)
            /\ lpBal' = [p \in Pools |-> lpBal[p] + moved[p]]
            /\ UNCHANGED <<readable, price>>

\* The TVL counts what is withdrawn.
Withdraw ==
    \E times \in Calls, topUps \in [Pools -> TopUps] :
        LET moved == Moved(times, WithdrawAmounts(topUps))
        IN  /\ WithdrawFromLpAccount(times, topUps)
            /\ ValueMoved(moved) <= tvl
            /\ tvl' = tvl - ValueMoved(moved)
            /\ lpBal' = [p \in Pools |-> lpBal[p] - moved[p]]
            /\ UNCHANGED <<readable, price>>

\* The TVL is at least the value of the underlyers the LP Account holds.
Yield ==
    \E y \in Yields :
        /\ tvl + y >= ValueMoved(lpBal)
        /\ tvl + y <= MaxTvl
        /\ tvl' = tvl + y
        /\ UNCHANGED <<mApt, readable, price, lpBal>>

Init ==
    /\ MAptInit
    /\ tvl = 0
    /\ readable = [p \in Pools |-> TRUE]
    /\ price = [p \in Pools |-> 1]
    /\ lpBal = [p \in Pools |-> 0]

Next == Fund \/ Withdraw \/ Yield

Spec == Init /\ [][Next]_vars

-----------------------------------------------------------------------------
\* The values the variables take.
TypeOK ==
    /\ mApt \in [Pools -> Nat]
    /\ tvl \in Nat
    /\ readable \in [Pools -> BOOLEAN]
    /\ price \in [Pools -> Nat]
    /\ lpBal \in [Pools -> Nat]

\* However many pools a call names, and however often.  fundLpAccount: the mAPT
\* already minted loses nothing to a pool that is funded, and the funded pools
\* lose less than one mAPT unit each time to the others.  withdrawFromLpAccount:
\* the pools topped up gain less than one mAPT unit for each time they are named,
\* at the expense of the mAPT that stays.
CallsAreFair ==
    [][LET gain == tvl' * MAptSupply - tvl * MAptSupply'
           most == 2 * Cardinality(Pools) * tvl
       IN  tvl > 0 =>
               /\ 0 < MAptSupply /\ MAptSupply < MAptSupply' => gain \in 0..(most - 1)
               /\ MAptSupply' < MAptSupply => -gain \in 0..(most - 1)]_vars

\* What the pools are told they own adds up to no more than the TVL, and misses
\* it by less than one unit of value per pool.
DeployedValuesAddUp ==
    LET sum == Total([p \in Pools |-> GetDeployedValue(p)], Pools)
    IN  /\ sum <= tvl
        /\ MAptSupply > 0 => tvl < sum + Cardinality(Pools)
=============================================================================
