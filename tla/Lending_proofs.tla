---------------------------- MODULE Lending_proofs ----------------------------
(***************************************************************************)
(* Proofs about the mAPT, the LP Account and the zap of stkAAVE, for any   *)
(* pools, lists of pools, top-ups and yields, for any tokens, zaps, swaps, *)
(* fees and registrations, and for any cooldown and unstake window.        *)
(*                                                                         *)
(* The mAPT's two properties are about sums over the pools of quotients,   *)
(* each known to within less than one; the account's is about what a claim *)
(* leaves of each balance, the zap's about when attempts to unwind meet    *)
(* the window.                                                             *)
(***************************************************************************)
EXTENDS Lending, Sums_proofs

-----------------------------------------------------------------------------
\* The mAPT: what its numbers are.

LEMMA MAptConstants ==
    /\ IsFiniteSet(Pools) /\ MAptFactor \in Nat
    /\ \A p \in Pools : MAptUnit[p] \in Nat /\ MAptUnit[p] > 0
    /\ TopUps \subseteq Int /\ Yields \subseteq Int
<1>1. /\ Shares!IsFiniteSet(Pools) /\ MAptFactor \in Nat \ {0}
      /\ MAptUnit \in [Pools -> Nat \ {0}]
      /\ TopUps \subseteq Int /\ Yields \subseteq Int
    BY SharesAssumption DEF Shares!MAptConstantsAssumption
<1>2. \A n \in Nat \ {0} : n \in Nat /\ n > 0
    OBVIOUS
<1>3. \A p \in Pools : MAptUnit[p] \in Nat \ {0}
    BY <1>1
<1>4. IsFiniteSet(Pools)
    BY <1>1, Zenon DEF Shares!IsFiniteSet, IsFiniteSet
<1> QED
    BY <1>1, <1>2, <1>3, <1>4

LEMMA MAptTotals ==
    /\ \A f, S : Shares!Total(f, S) = Total(f, S)
    /\ Shares!MAptSupply = Total(mApt, Pools)
    /\ Shares!MAptSupply' = Total(mApt', Pools)
<1>1. ASSUME NEW f, NEW S PROVE Shares!Total(f, S) = Total(f, S)
    BY DEF Shares!Total, Shares!MapThenSumSet, Shares!MapThenFoldSet, Total, MapThenSumSet,
           MapThenFoldSet
<1>2. Shares!MAptSupply = Total(mApt, Pools)
    BY <1>1 DEF Shares!MAptSupply
<1>3. Shares!MAptSupply' = Total(mApt', Pools)
    BY DEF Shares!MAptSupply, Shares!Total, Shares!MapThenSumSet, Shares!MapThenFoldSet, Total,
           MapThenSumSet, MapThenFoldSet
<1> QED
    BY <1>1, <1>2, <1>3

LEMMA MAptSupplyNat ==
    ASSUME Shares!TypeOK
    PROVE  Shares!MAptSupply \in Nat /\ (Shares!MAptSupply > 0 => Pools # {})
<1>1. Total(mApt, Pools) \in Nat
    BY MAptConstants, TotalOfNaturals DEF Shares!TypeOK
<1>2. Pools = {} => Total(mApt, Pools) = 0
    BY TotalOfNone
<1> QED
    BY <1>1, <1>2, MAptTotals

\* An amount of a pool's underlyer has a natural value.
LEMMA MAptValueNat ==
    ASSUME Shares!TypeOK, NEW p \in Pools, NEW amount \in Nat
    PROVE  Shares!ValueOf(amount, price[p], MAptUnit[p]) \in Nat
<1>1. price[p] * amount \in Nat
    BY ProductAndQuotient DEF Shares!TypeOK
<1> DEFINE product == price[p] * amount
<1> HIDE DEF product
<1>2. product \div MAptUnit[p] \in Nat
    BY <1>1, MAptConstants, ProductAndQuotient DEF product
<1> QED
    BY <1>2 DEF Shares!ValueOf, product

LEMMA DeltaNat ==
    ASSUME Shares!TypeOK, NEW p \in Pools, NEW amount \in Nat
    PROVE  Shares!CalculateDelta(p, amount) \in Nat
<1> DEFINE value == Shares!ValueOf(amount, price[p], MAptUnit[p])
           supply == Shares!MAptSupply
           product == value * supply
<1>1. value \in Nat /\ supply \in Nat /\ tvl \in Nat /\ MAptFactor \in Nat
    BY MAptValueNat, MAptSupplyNat, MAptConstants DEF Shares!TypeOK
<1>2. Shares!CalculateDelta(p, amount) =
          IF tvl = 0 \/ supply = 0 THEN value * MAptFactor ELSE product \div tvl
    BY DEF Shares!CalculateDelta, Shares!SharesFor
<1> HIDE DEF value, supply
<1>3. product \in Nat /\ value * MAptFactor \in Nat
    BY <1>1, ProductAndQuotient
<1> HIDE DEF product
<1>4. tvl > 0 => product \div tvl \in Nat
    BY <1>1, <1>3, ProductAndQuotient
<1> QED
    BY <1>1, <1>2, <1>3, <1>4

\* What a call moves of every pool's underlyer, and what it mints or burns for it.
LEMMA CallNumbers ==
    ASSUME Shares!TypeOK, NEW times \in [Pools -> 0..2], NEW amounts \in [Pools -> Nat]
    PROVE  /\ Shares!Moved(times, amounts) \in [Pools -> Nat]
           /\ Shares!Deltas(times, amounts) \in [Pools -> Nat]
<1>1. ASSUME NEW p \in Pools
      PROVE  /\ times[p] * amounts[p] \in Nat
             /\ times[p] * Shares!CalculateDelta(p, amounts[p]) \in Nat
    <2>1. times[p] \in Nat /\ amounts[p] \in Nat /\ Shares!CalculateDelta(p, amounts[p]) \in Nat
        BY DeltaNat
    <2> QED
        BY <2>1, ProductAndQuotient
<1> QED
    BY <1>1 DEF Shares!Moved, Shares!Deltas

LEMMA AmountsNat ==
    ASSUME Shares!TypeOK, NEW topUps \in [Pools -> TopUps]
    PROVE  /\ Shares!FundAmounts(topUps) \in [Pools -> Nat]
           /\ Shares!WithdrawAmounts(topUps) \in [Pools -> Nat]
<1>1. ASSUME NEW p \in Pools
      PROVE  /\ Shares!FundAmount(topUps[p]) \in Nat
             /\ Shares!WithdrawAmount(p, topUps[p]) \in Nat
    <2>1. topUps[p] \in Int /\ lent[p] \in Nat
        BY MAptConstants DEF Shares!TypeOK
    <2> QED
        BY <2>1 DEF Shares!FundAmount, Shares!WithdrawAmount
<1> QED
    BY <1>1 DEF Shares!FundAmounts, Shares!WithdrawAmounts

\* The value of what is moved is the total of its values.
LEMMA ValueMovedIsTotal ==
    ASSUME Shares!TypeOK, NEW amounts \in [Pools -> Nat]
    PROVE  Shares!ValueMoved(amounts) \in Nat
<1> DEFINE values == [p \in Pools |-> Shares!ValueOf(amounts[p], price[p], MAptUnit[p])]
<1>1. \A p \in Pools : values[p] \in Nat
    BY MAptValueNat
<1>2. Shares!ValueMoved(amounts) = Total(values, Pools)
    BY MAptTotals DEF Shares!ValueMoved
<1> HIDE DEF values
<1> QED
    BY <1>1, <1>2, MAptConstants, TotalOfNaturals

-----------------------------------------------------------------------------
LEMMA InitShares == ASSUME Shares!Init PROVE Shares!TypeOK
BY DEF Shares!Init, Shares!MAptInit, Shares!TypeOK

LEMMA FundKeepsShares == ASSUME Shares!TypeOK, Shares!Fund PROVE Shares!TypeOK'
<1>1. PICK times \in [Pools -> 0..2], topUps \in [Pools -> TopUps] :
          /\ Shares!FundLpAccount(times, topUps)
          /\ tvl' = tvl + Shares!ValueMoved(Shares!Moved(times, Shares!FundAmounts(topUps)))
          /\ lent' = [p \in Pools |->
                 lent[p] + Shares!Moved(times, Shares!FundAmounts(topUps))[p]]
          /\ UNCHANGED <<readable, price>>
    BY DEF Shares!Fund, Shares!Calls
<1> DEFINE amounts == Shares!FundAmounts(topUps)
           moved == Shares!Moved(times, amounts)
           minted == Shares!Deltas(times, amounts)
<1>2. amounts \in [Pools -> Nat]
    BY AmountsNat
<1> HIDE DEF amounts
<1>3. moved \in [Pools -> Nat] /\ minted \in [Pools -> Nat]
    BY <1>2, CallNumbers
<1>4. mApt' = [p \in Pools |-> mApt[p] + minted[p]]
    BY <1>1 DEF Shares!FundLpAccount, Shares!MultipleMint, amounts
<1> HIDE DEF moved, minted
<1>5. Shares!ValueMoved(moved) \in Nat
    BY <1>3, ValueMovedIsTotal
<1>6. tvl' = tvl + Shares!ValueMoved(moved) /\ lent' = [p \in Pools |-> lent[p] + moved[p]]
    BY <1>1 DEF moved, amounts
<1> QED
    BY <1>1, <1>3, <1>4, <1>5, <1>6 DEF Shares!TypeOK

LEMMA WithdrawKeepsShares == ASSUME Shares!TypeOK, Shares!Withdraw PROVE Shares!TypeOK'
<1>1. PICK times \in [Pools -> 0..2], topUps \in [Pools -> TopUps] :
          LET moved == Shares!Moved(times, Shares!WithdrawAmounts(topUps))
          IN  /\ Shares!WithdrawFromLpAccount(times, topUps)
              /\ Shares!ValueMoved(moved) <= tvl
              /\ tvl' = tvl - Shares!ValueMoved(moved)
              /\ lent' = [p \in Pools |-> lent[p] - moved[p]]
              /\ UNCHANGED <<readable, price>>
    BY DEF Shares!Withdraw, Shares!Calls
<1> DEFINE amounts == Shares!WithdrawAmounts(topUps)
           moved == Shares!Moved(times, amounts)
           burned == Shares!Deltas(times, amounts)
<1>2. amounts \in [Pools -> Nat]
    BY AmountsNat
<1> HIDE DEF amounts
<1>3. moved \in [Pools -> Nat] /\ burned \in [Pools -> Nat]
    BY <1>2, CallNumbers
<1>4. /\ mApt' = [p \in Pools |-> mApt[p] - burned[p]]
      /\ \A p \in Pools : burned[p] <= mApt[p]
      /\ \A p \in Pools : moved[p] <= lent[p]
    BY <1>1 DEF Shares!WithdrawFromLpAccount, Shares!MultipleBurn, Shares!Burnable, amounts
<1>5. /\ tvl' = tvl - Shares!ValueMoved(moved) /\ Shares!ValueMoved(moved) <= tvl
      /\ lent' = [p \in Pools |-> lent[p] - moved[p]]
      /\ UNCHANGED <<readable, price>>
    BY <1>1 DEF amounts
<1> HIDE DEF moved, burned
<1>6. Shares!ValueMoved(moved) \in Nat
    BY <1>3, ValueMovedIsTotal
<1> QED
    BY <1>3, <1>4, <1>5, <1>6 DEF Shares!TypeOK

LEMMA YieldKeepsShares == ASSUME Shares!TypeOK, Shares!Yield PROVE Shares!TypeOK'
<1>1. PICK y \in Yields : /\ tvl + y >= Shares!ValueMoved(lent)
                          /\ tvl' = tvl + y
                          /\ UNCHANGED <<mApt, readable, price, lent>>
    BY DEF Shares!Yield
<1>2. Shares!ValueMoved(lent) \in Nat /\ y \in Int
    BY ValueMovedIsTotal, MAptConstants DEF Shares!TypeOK
<1> QED
    BY <1>1, <1>2 DEF Shares!TypeOK

LEMMA SharesStep == ASSUME Shares!TypeOK, [Shares!Next]_(Shares!vars) PROVE Shares!TypeOK'
<1>1. CASE UNCHANGED Shares!vars
    BY <1>1 DEF Shares!vars, Shares!envVars, Shares!TypeOK
<1> QED
    BY <1>1, FundKeepsShares, WithdrawKeepsShares, YieldKeepsShares DEF Shares!Next

LEMMA SharesTyped == Shares!Spec => []Shares!TypeOK
<1>1. Shares!Init => Shares!TypeOK
    BY InitShares
<1>2. Shares!TypeOK /\ [Shares!Next]_(Shares!vars) => Shares!TypeOK'
    BY SharesStep
<1> QED
    BY <1>1, <1>2, PTL DEF Shares!Spec

-----------------------------------------------------------------------------
\* What the pools are told they own.

\* Quotients of shares add up to the whole but for less than one each.
LEMMA QuotientsAddUp ==
    ASSUME NEW S, IsFiniteSet(S), S # {}, NEW whole \in Nat, NEW part, NEW told, NEW supply \in Nat,
           supply > 0, supply = Total(part, S),
           \A x \in S : /\ part[x] \in Nat /\ told[x] \in Nat
                        /\ supply * told[x] <= whole * part[x]
                        /\ whole * part[x] < supply * told[x] + supply
    PROVE  Total(told, S) <= whole /\ whole < Total(told, S) + Cardinality(S)
<1> DEFINE owned == [x \in S |-> whole * part[x]]
           paid == [x \in S |-> supply * told[x]]
           one == [x \in S |-> 1]
           step == [x \in S |-> supply * one[x]]
           above == [x \in S |-> owned[x] + one[x]]
           reach == [x \in S |-> paid[x] + step[x]]
           sum == Total(told, S)
           size == Cardinality(S)
<1>1. \A x \in S : owned[x] \in Nat /\ paid[x] \in Nat
    BY ProductAndQuotient
<1>2. \A x \in S : one[x] = 1 /\ step[x] = supply
    OBVIOUS
<1>3. \A x \in S : above[x] = owned[x] + one[x] /\ reach[x] = paid[x] + step[x]
    OBVIOUS
<1>4. \A x \in S : owned[x] = whole * part[x] /\ paid[x] = supply * told[x]
    OBVIOUS
<1>5. \A x \in S : step[x] = supply * one[x]
    OBVIOUS
<1> HIDE DEF owned, paid, one, step, above, reach
<1>6. \A x \in S : paid[x] <= owned[x] /\ owned[x] < paid[x] + supply
    BY <1>4
<1>7. sum \in Nat /\ size \in Nat /\ size > 0
    BY TotalOfNaturals, FS_CardinalityType, FS_EmptySet
<1>8. Total(owned, S) = whole * supply
    BY <1>4, TotalScales
<1>9. Total(paid, S) = supply * sum
    BY <1>4, TotalScales
<1>10. Total(one, S) = size
    BY <1>2, TotalOfOnes
<1>11. Total(step, S) = supply * size
    BY <1>2, <1>5, <1>10, TotalScales
<1> HIDE DEF sum, size
<1>12. Total(above, S) = whole * supply + size
    BY <1>1, <1>2, <1>3, <1>8, <1>10, TotalAdds
<1>13. Total(reach, S) = supply * sum + supply * size
    BY <1>1, <1>2, <1>3, <1>9, <1>11, TotalAdds
<1>14. \A x \in S : above[x] \in Int /\ reach[x] \in Int /\ above[x] <= reach[x]
    BY <1>1, <1>2, <1>3, <1>6
<1>15. Total(paid, S) <= Total(owned, S) /\ Total(above, S) <= Total(reach, S)
    BY <1>1, <1>6, <1>14, TotalMonotonic
<1>16. supply * sum <= supply * whole
    BY <1>7, <1>8, <1>9, <1>15
<1>17. supply * whole < supply * (sum + size)
    <2>1. whole * supply = supply * whole /\ supply * whole \in Nat
        BY ProductAndQuotient
    <2>2. supply * (sum + size) = supply * sum + supply * size
        BY <1>7
    <2>3. supply * sum \in Nat /\ supply * size \in Nat
        BY <1>7, ProductAndQuotient
    <2> QED
        BY <1>7, <1>12, <1>13, <1>15, <2>1, <2>2, <2>3
<1> QED
    BY <1>7, <1>16, <1>17, Cancel DEF sum, size

LEMMA PoolsAreCounted == Shares!Cardinality(Pools) = Cardinality(Pools)
BY Zenon DEF Shares!Cardinality, Cardinality

LEMMA TypedValuesAddUp == ASSUME Shares!TypeOK PROVE DeployedValuesAddUp
<1> DEFINE told == [p \in Pools |-> Shares!GetDeployedValue(p)]
           supply == Shares!MAptSupply
<1>1. /\ supply \in Nat /\ supply = Total(mApt, Pools) /\ (supply > 0 => Pools # {})
      /\ tvl \in Nat /\ IsFiniteSet(Pools) /\ \A p \in Pools : mApt[p] \in Nat
    BY MAptSupplyNat, MAptTotals, MAptConstants DEF Shares!TypeOK
<1>2. \A p \in Pools :
          told[p] = IF supply = 0 \/ mApt[p] = 0 THEN 0 ELSE (tvl * mApt[p]) \div supply
    BY DEF Shares!GetDeployedValue
<1>3. Shares!Total(told, Pools) = Total(told, Pools)
    BY MAptTotals
<1> HIDE DEF told, supply
<1>4. Total(told, Pools) <= tvl /\ (supply > 0 => tvl < Total(told, Pools) + Cardinality(Pools))
    <2>1. CASE supply = 0
        <3>1. Total(told, Pools) = 0
            BY <1>1, <1>2, <2>1, TotalOfZeros
        <3> QED
            BY <1>1, <2>1, <3>1
    <2>2. CASE supply > 0
        <3>1. ASSUME NEW p \in Pools
              PROVE  /\ told[p] \in Nat
                     /\ supply * told[p] <= tvl * mApt[p]
                     /\ tvl * mApt[p] < supply * told[p] + supply
            <4> DEFINE product == tvl * mApt[p]
            <4>1. product \in Nat /\ product \in Int /\ supply \in Nat
                BY <1>1, ProductAndQuotient
            <4>2. mApt[p] = 0 => product = 0
                BY <1>1
            <4>3. told[p] = IF mApt[p] = 0 THEN 0 ELSE product \div supply
                BY <1>2, <2>2
            <4> HIDE DEF product
            <4>4. CASE mApt[p] = 0
                BY <1>1, <2>2, <4>2, <4>3, <4>4 DEF product
            <4>5. CASE mApt[p] # 0
                <5>1. product \div supply \in Nat
                    BY <2>2, <4>1, ProductAndQuotient
                <5>2. /\ supply * (product \div supply) <= product
                      /\ product < supply * (product \div supply) + supply
                    BY <2>2, <4>1, Quotient
                <5>3. told[p] = product \div supply
                    BY <4>3, <4>5
                <5> QED
                    BY <5>1, <5>2, <5>3 DEF product
            <4> QED
                BY <4>4, <4>5
        <3> QED
            BY <1>1, <2>2, <3>1, QuotientsAddUp
    <2> QED
        BY <1>1, <2>1, <2>2
<1> QED
    BY <1>3, <1>4, PoolsAreCounted DEF DeployedValuesAddUp, Shares!DeployedValuesAddUp, told, supply

\* getDeployedValue: for any pools, shares and TVL, what the pools are told they own is
\* never more than there is, and misses less than one unit of value for each.
THEOREM DeployedValuesAlwaysAddUp == Shares!Spec => []DeployedValuesAddUp
<1>1. Shares!TypeOK => DeployedValuesAddUp
    BY TypedValuesAddUp
<1> QED
    BY <1>1, SharesTyped, PTL

-----------------------------------------------------------------------------
\* What a call costs.

\* Amounts are counted in units of value, as they are where one unit of the underlyer is
\* worth one.
InUnits == \A p \in Pools : MAptUnit[p] = 1

AtPar == Shares!TypeOK /\ \A p \in Pools : price[p] = 1

\* What one pool pays, or is paid, is worth its mAPT to within one unit each time.
LEMMA OnePoolIsFair ==
    ASSUME NEW value \in Nat, NEW supply \in Nat, NEW whole \in Nat, whole > 0, NEW n \in 0..2
    PROVE  LET delta == (value * supply) \div whole
           IN  /\ supply * (n * value) - whole * (n * delta) \in 0..(2 * (whole - 1))
               /\ delta \in Nat
<1> DEFINE product == value * supply
           delta == product \div whole
           rest == product - whole * delta
<1>1. product \in Nat
    BY ProductAndQuotient
<1> HIDE DEF product
<1>2. delta \in Nat /\ whole * delta <= product /\ product < whole * delta + whole
    BY <1>1, ProductAndQuotient, Quotient
<1> HIDE DEF delta
<1>3. whole * delta \in Nat
    BY <1>2, ProductAndQuotient
<1>4. rest \in 0..(whole - 1)
    BY <1>1, <1>2, <1>3
<1>5. supply * (n * value) - whole * (n * delta) = n * rest
    <2>1. supply * (n * value) = n * product
        BY DEF product
    <2>2. whole * (n * delta) = n * (whole * delta)
        BY <1>2
    <2>3. n * rest = n * product - n * (whole * delta)
        BY <1>1, <1>3
    <2> QED
        BY <2>1, <2>2, <2>3
<1> HIDE DEF rest
<1>6. n * rest \in 0..(2 * (whole - 1))
    <2>1. CASE n = 0
        BY <1>4, <2>1
    <2>2. CASE n = 1
        BY <1>4, <2>2
    <2>3. CASE n = 2
        BY <1>4, <2>3
    <2> QED
        BY <2>1, <2>2, <2>3
<1> QED
    BY <1>2, <1>5, <1>6 DEF delta, product

\* A call, however often it names a pool: what is moved is worth what is minted or burned
\* to within one mAPT unit for each time a pool may be named.
LEMMA CallIsFair ==
    ASSUME InUnits, AtPar, NEW times \in [Pools -> 0..2], NEW amounts \in [Pools -> Nat],
           tvl > 0, Shares!MAptSupply > 0
    PROVE  LET worth == Shares!ValueMoved(Shares!Moved(times, amounts))
               minted == Total(Shares!Deltas(times, amounts), Pools)
           IN  /\ worth \in Nat /\ minted \in Nat
               /\ worth * Shares!MAptSupply - tvl * minted
                      \in 0..(2 * Cardinality(Pools) * tvl - 1)
<1> DEFINE supply == Shares!MAptSupply
           moved == Shares!Moved(times, amounts)
           deltas == Shares!Deltas(times, amounts)
           values == [p \in Pools |-> Shares!ValueOf(moved[p], price[p], MAptUnit[p])]
           paid == [p \in Pools |-> supply * values[p]]
           debit == -tvl
           cost == [p \in Pools |-> debit * deltas[p]]
           gap == [p \in Pools |-> paid[p] + cost[p]]
           none == [p \in Pools |-> 0]
           one == [p \in Pools |-> 1]
           most == [p \in Pools |-> (2 * (tvl - 1)) * one[p]]
           worth == Total(values, Pools)
           minted == Total(deltas, Pools)
           size == Cardinality(Pools)
<1>1. /\ supply \in Nat /\ supply > 0 /\ Pools # {} /\ tvl \in Nat /\ IsFiniteSet(Pools)
    BY MAptSupplyNat, MAptConstants DEF AtPar, Shares!TypeOK
<1>2. moved \in [Pools -> Nat] /\ deltas \in [Pools -> Nat]
    BY CallNumbers DEF AtPar
<1>3. ASSUME NEW p \in Pools, NEW x \in Nat
      PROVE  Shares!ValueOf(x, price[p], MAptUnit[p]) = x
    BY DEF Shares!ValueOf, AtPar, InUnits
<1>4. \A p \in Pools : values[p] = moved[p] /\ values[p] \in Nat
    BY <1>2, <1>3
<1>5. ASSUME NEW p \in Pools
      PROVE  supply * moved[p] - tvl * deltas[p] \in 0..(2 * (tvl - 1))
    <2> DEFINE value == amounts[p]
               delta == (value * supply) \div tvl
               n == times[p]
    <2>1. value \in Nat /\ n \in 0..2
        OBVIOUS
    <2>2. Shares!CalculateDelta(p, amounts[p]) = delta
        BY <1>1, <1>3, <2>1 DEF Shares!CalculateDelta, Shares!SharesFor
    <2>3. moved[p] = IF delta = 0 THEN 0 ELSE n * value
        BY <2>2 DEF Shares!Moved
    <2>4. deltas[p] = n * delta
        BY <2>2 DEF Shares!Deltas
    <2>5. supply * (n * value) - tvl * (n * delta) \in 0..(2 * (tvl - 1))
        BY <1>1, <2>1, OnePoolIsFair
    <2> HIDE DEF moved, deltas, delta, n, value
    <2>6. CASE delta = 0
        <3>1. moved[p] = 0 /\ deltas[p] = 0
            BY <2>1, <2>3, <2>4, <2>6 DEF n
        <3> QED
            BY <1>1, <3>1
    <2>7. CASE delta # 0
        BY <2>3, <2>4, <2>5, <2>7
    <2> QED
        BY <2>6, <2>7
<1>6. Shares!ValueMoved(moved) = worth
    BY MAptTotals DEF Shares!ValueMoved
<1>7. /\ \A p \in Pools : paid[p] = supply * values[p]
      /\ \A p \in Pools : cost[p] = debit * deltas[p]
      /\ \A p \in Pools : gap[p] = paid[p] + cost[p]
      /\ \A p \in Pools : most[p] = (2 * (tvl - 1)) * one[p]
      /\ \A p \in Pools : one[p] = 1 /\ none[p] = 0
    OBVIOUS
<1> HIDE DEF supply, moved, deltas, values, paid, debit, cost, gap, none, one, most
<1>8. worth \in Nat /\ minted \in Nat /\ size \in Nat /\ size > 0
    BY <1>1, <1>2, <1>4, TotalOfNaturals, FS_CardinalityType, FS_EmptySet
<1>9. ASSUME NEW p \in Pools
      PROVE  /\ paid[p] \in Int /\ cost[p] \in Int /\ gap[p] \in Int
             /\ 0 <= gap[p] /\ gap[p] <= most[p] /\ most[p] \in Int
    <2>1. paid[p] = supply * moved[p] /\ cost[p] = debit * deltas[p]
        BY <1>4, <1>7
    <2>2. supply * moved[p] \in Nat /\ tvl * deltas[p] \in Nat
        BY <1>1, <1>2, ProductAndQuotient
    <2>3. debit * deltas[p] = -(tvl * deltas[p])
        BY <1>1, <1>2 DEF debit
    <2>4. most[p] = 2 * (tvl - 1)
        BY <1>1, <1>7
    <2> QED
        BY <1>1, <1>5, <1>7, <2>1, <2>2, <2>3, <2>4
<1>10. Total(paid, Pools) = supply * worth
    BY <1>1, <1>4, <1>7, TotalScales
<1>11. Total(cost, Pools) = debit * minted
    <2>1. debit \in Int
        BY <1>1 DEF debit
    <2> QED
        BY <1>1, <1>2, <1>7, <2>1, TotalScales
<1>12. Total(one, Pools) = size
    BY <1>1, <1>7, TotalOfOnes
<1>13. Total(most, Pools) = (2 * (tvl - 1)) * size
    BY <1>1, <1>7, <1>12, TotalScales
<1>14. Total(none, Pools) = 0
    BY <1>1, <1>7, TotalOfZeros
<1> HIDE DEF worth, minted, size
<1>15. Total(gap, Pools) = supply * worth + debit * minted
    BY <1>1, <1>7, <1>9, <1>10, <1>11, TotalAdds
<1>16. 0 <= Total(gap, Pools) /\ Total(gap, Pools) <= (2 * (tvl - 1)) * size
    BY <1>1, <1>7, <1>9, <1>13, <1>14, TotalMonotonic
<1>17. worth * supply - tvl * minted \in 0..(2 * size * tvl - 1)
    <2>1. supply * worth = worth * supply /\ worth * supply \in Nat
        BY <1>1, <1>8, ProductAndQuotient
    <2>2. debit * minted = -(tvl * minted) /\ tvl * minted \in Nat
        BY <1>1, <1>8, ProductAndQuotient DEF debit
    <2>3. (2 * (tvl - 1)) * size = 2 * size * tvl - 2 * size /\ 2 * size * tvl \in Int
        BY <1>1, <1>8
    <2> QED
        BY <1>8, <1>15, <1>16, <2>1, <2>2, <2>3
<1> QED
    BY <1>6, <1>8, <1>17 DEF worth, minted, size, supply, moved, deltas

Fairness ==
    LET gain == tvl' * Shares!MAptSupply - tvl * Shares!MAptSupply'
        most == 2 * Shares!Cardinality(Pools) * tvl
    IN  tvl > 0 =>
            /\ 0 < Shares!MAptSupply /\ Shares!MAptSupply < Shares!MAptSupply'
                   => gain \in 0..(most - 1)
            /\ Shares!MAptSupply' < Shares!MAptSupply => -gain \in 0..(most - 1)

\* What a step does to TVL and supply, when worth is moved and minted.
LEMMA GainOfCall ==
    ASSUME NEW whole \in Nat, NEW supply \in Nat, NEW worth \in Nat, NEW minted \in Nat
    PROVE  /\ (whole + worth) * supply - whole * (supply + minted)
                  = worth * supply - whole * minted
           /\ -((whole - worth) * supply - whole * (supply - minted))
                  = worth * supply - whole * minted
OBVIOUS

LEMMA FundIsFair == ASSUME InUnits, AtPar, Shares!Fund PROVE Fairness
<1>1. PICK times \in [Pools -> 0..2], topUps \in [Pools -> TopUps] :
          /\ Shares!FundLpAccount(times, topUps)
          /\ tvl' = tvl + Shares!ValueMoved(Shares!Moved(times, Shares!FundAmounts(topUps)))
    BY DEF Shares!Fund, Shares!Calls
<1> DEFINE amounts == Shares!FundAmounts(topUps)
           worth == Shares!ValueMoved(Shares!Moved(times, amounts))
           deltas == Shares!Deltas(times, amounts)
           minted == Total(deltas, Pools)
           supply == Shares!MAptSupply
           most == 2 * Cardinality(Pools) * tvl
<1>2. amounts \in [Pools -> Nat] /\ supply \in Nat /\ tvl \in Nat /\ IsFiniteSet(Pools)
    BY AmountsNat, MAptSupplyNat, MAptConstants DEF AtPar, Shares!TypeOK
<1>3. mApt' = [p \in Pools |-> mApt[p] + deltas[p]] /\ tvl' = tvl + worth
    BY <1>1 DEF Shares!FundLpAccount, Shares!MultipleMint
<1> HIDE DEF amounts
<1>4. deltas \in [Pools -> Nat] /\ worth \in Nat
    BY <1>2, CallNumbers, ValueMovedIsTotal DEF AtPar
<1>5. tvl > 0 /\ supply > 0 => worth * supply - tvl * minted \in 0..(most - 1)
    BY <1>2, CallIsFair
<1> HIDE DEF worth, deltas
<1>6. Total(mApt', Pools) = Total(mApt, Pools) + minted /\ minted \in Nat
    <2>1. \A p \in Pools : mApt[p] \in Int /\ deltas[p] \in Nat /\ mApt'[p] = mApt[p] + deltas[p]
        BY <1>3, <1>4 DEF AtPar, Shares!TypeOK
    <2> QED
        BY <1>2, <2>1, TotalAdds, TotalOfNaturals
<1> HIDE DEF minted
<1>7. Shares!MAptSupply' = supply + minted
    BY <1>6, MAptTotals
<1> HIDE DEF supply, most
<1>8. tvl' * supply - tvl * Shares!MAptSupply' = worth * supply - tvl * minted
    BY <1>2, <1>3, <1>4, <1>6, <1>7, GainOfCall
<1>9. ~ Shares!MAptSupply' < supply
    BY <1>2, <1>6, <1>7
<1>10. most = 2 * Shares!Cardinality(Pools) * tvl
    BY PoolsAreCounted DEF most
<1>11. tvl > 0 /\ 0 < supply => tvl' * supply - tvl * Shares!MAptSupply' \in 0..(most - 1)
    BY <1>5, <1>8
<1> QED
    BY <1>9, <1>10, <1>11 DEF Fairness, supply

LEMMA WithdrawIsFair == ASSUME InUnits, AtPar, Shares!Withdraw PROVE Fairness
<1>1. PICK times \in [Pools -> 0..2], topUps \in [Pools -> TopUps] :
          /\ Shares!WithdrawFromLpAccount(times, topUps)
          /\ tvl' = tvl - Shares!ValueMoved(Shares!Moved(times, Shares!WithdrawAmounts(topUps)))
    BY DEF Shares!Withdraw, Shares!Calls
<1> DEFINE amounts == Shares!WithdrawAmounts(topUps)
           worth == Shares!ValueMoved(Shares!Moved(times, amounts))
           deltas == Shares!Deltas(times, amounts)
           burned == Total(deltas, Pools)
           supply == Shares!MAptSupply
           most == 2 * Cardinality(Pools) * tvl
<1>2. amounts \in [Pools -> Nat] /\ supply \in Nat /\ tvl \in Nat /\ IsFiniteSet(Pools)
    BY AmountsNat, MAptSupplyNat, MAptConstants DEF AtPar, Shares!TypeOK
<1>3. mApt' = [p \in Pools |-> mApt[p] - deltas[p]] /\ tvl' = tvl - worth
    BY <1>1 DEF Shares!WithdrawFromLpAccount, Shares!MultipleBurn
<1> HIDE DEF amounts
<1>4. deltas \in [Pools -> Nat] /\ worth \in Nat
    BY <1>2, CallNumbers, ValueMovedIsTotal DEF AtPar
<1>5. tvl > 0 /\ supply > 0 => worth * supply - tvl * burned \in 0..(most - 1)
    BY <1>2, CallIsFair
<1> HIDE DEF worth, deltas
<1>6. Total(mApt, Pools) = Total(mApt', Pools) + burned /\ burned \in Nat
      /\ Total(mApt', Pools) \in Int
    <2>1. \A p \in Pools : mApt'[p] \in Int /\ deltas[p] \in Nat /\ mApt[p] = mApt'[p] + deltas[p]
        BY <1>3, <1>4 DEF AtPar, Shares!TypeOK
    <2> QED
        BY <1>2, <2>1, TotalAdds, TotalOfNaturals, TotalType
<1> HIDE DEF burned
<1>7. Shares!MAptSupply' = supply - burned
    BY <1>6, MAptTotals
<1> HIDE DEF supply, most
<1>8. -(tvl' * supply - tvl * Shares!MAptSupply') = worth * supply - tvl * burned
    BY <1>2, <1>3, <1>4, <1>6, <1>7, GainOfCall
<1>9. ~ supply < Shares!MAptSupply'
    BY <1>2, <1>6, <1>7
<1>10. most = 2 * Shares!Cardinality(Pools) * tvl
    BY PoolsAreCounted DEF most
<1>11. Shares!MAptSupply' < supply => supply > 0
    <2>1. \A p \in Pools : mApt'[p] \in Nat
        BY WithdrawKeepsShares DEF AtPar, Shares!TypeOK
    <2>2. Shares!MAptSupply' \in Nat
        BY <1>2, <2>1, MAptTotals, TotalOfNaturals
    <2> QED
        BY <1>2, <2>2
<1>12. tvl > 0 /\ 0 < supply => -(tvl' * supply - tvl * Shares!MAptSupply') \in 0..(most - 1)
    BY <1>5, <1>8
<1> QED
    BY <1>9, <1>10, <1>11, <1>12 DEF Fairness, supply

LEMMA OthersAreFair ==
    ASSUME AtPar, mApt' = mApt
    PROVE  Fairness
<1>1. Shares!MAptSupply' = Shares!MAptSupply /\ Shares!MAptSupply \in Nat
    BY MAptTotals, MAptSupplyNat DEF AtPar
<1> QED
    BY <1>1 DEF Fairness

LEMMA AtParStays == ASSUME AtPar, [Shares!Next]_(Shares!vars) PROVE AtPar'
<1>1. price' = price
    BY DEF Shares!Next, Shares!Fund, Shares!Withdraw, Shares!Yield, Shares!vars, Shares!envVars
<1> QED
    BY <1>1, SharesStep DEF AtPar

\* fundLpAccount, withdrawFromLpAccount: for any pools, amounts and lists of pools, what a
\* call moves is worth what it mints or burns to within one mAPT unit for each time a pool
\* is named, so that no pool pays for another.
THEOREM CallsAlwaysFair ==
    ASSUME InUnits
    PROVE  Shares!Spec => CallsAreFair
<1>1. Shares!Init => AtPar
    BY InitShares DEF AtPar, Shares!Init
<1>2. AtPar /\ [Shares!Next]_(Shares!vars) => AtPar'
    BY AtParStays
<1>3. AtPar /\ [Shares!Next]_(Shares!vars) => [Fairness]_(Shares!vars)
    <2> SUFFICES ASSUME AtPar, Shares!Next PROVE Fairness
        OBVIOUS
    <2>1. CASE Shares!Yield
        BY <2>1, OthersAreFair DEF Shares!Yield
    <2> QED
        BY <2>1, FundIsFair, WithdrawIsFair DEF Shares!Next
<1>4. Shares!Spec => [][Fairness]_(Shares!vars)
    BY <1>1, <1>2, <1>3, PTL DEF Shares!Spec
<1> QED
    BY <1>4 DEF Fairness, CallsAreFair, Shares!CallsAreFair

-----------------------------------------------------------------------------
\* The LP Account: its balances, positions and fees are natural numbers.

LEMMA ZapNames ==
    /\ \A z \in Zaps : ZapCoins[z] \subseteq Tokens
    /\ \A s \in Swaps : SwapIn[s] \in Tokens /\ SwapOut[s] \in Tokens
    /\ IsFiniteSet(Tokens) /\ IsFiniteSet(Zaps)
    /\ Fees \subseteq Nat /\ LockPeriods \subseteq Nat /\ FeeDenominator \in Nat /\ FeeDenominator > 0
BY LpConstantsAssumption

LEMMA InitAccount == ASSUME Init PROVE TypeOK
BY ZapNames DEF Init, HoldingsInit, ConfigInit, RegistryInit, TypeOK

LEMMA DeployDoes ==
    ASSUME TypeOK, NEW z \in Zaps, NEW amounts \in [ZapCoins[z] -> 0..MaxHoldings],
           DeployStrategy(z, amounts)
    PROVE  /\ lpBal' \in [Tokens -> Nat] /\ position' \in [Zaps -> Nat]
<1>1. ZapCoins[z] \subseteq Tokens /\ IsFiniteSet(ZapCoins[z])
    BY ZapNames, FS_Subset
<1>2. \A t \in ZapCoins[z] : amounts[t] \in Nat /\ amounts[t] <= lpBal[t]
    BY LpConstantsAssumption DEF DeployStrategy, Held
<1> DEFINE deployed == Total(amounts, ZapCoins[z])
<1>3. deployed \in Nat
    BY <1>1, <1>2, TotalOfNaturals
<1>4. /\ lpBal' = [t \in Tokens |->
              IF t \in ZapCoins[z] THEN lpBal[t] - amounts[t] ELSE lpBal[t]]
      /\ position' = [position EXCEPT ![z] = @ + deployed]
    BY DEF DeployStrategy
<1> HIDE DEF deployed
<1> QED
    BY <1>1, <1>2, <1>3, <1>4 DEF TypeOK

LEMMA ExchangeDoes ==
    ASSUME TypeOK, NEW from \in Tokens, NEW to \in Tokens, NEW n \in Nat, Exchange(from, to, n)
    PROVE  /\ lpBal' \in [Tokens -> Nat]
           /\ \A t \in Tokens \ {from, to} : lpBal'[t] = lpBal[t]
           /\ UNCHANGED <<position, treasury, lpConfig>>
BY DEF Exchange, TypeOK

\* The fee of a claim, and that it is no more than the gain when it is no more than all.
LEMMA FeeBounds ==
    ASSUME TypeOK, NEW t \in Tokens, NEW gain \in Nat
    PROVE  /\ RewardFee(t, gain) \in Nat
           /\ gain = 0 => RewardFee(t, gain) = 0
           /\ rewardFee[t] <= FeeDenominator => RewardFee(t, gain) <= gain
<1> DEFINE rate == rewardFee[t]
           product == gain * rate
           fee == product \div FeeDenominator
<1>1. rate \in Nat /\ FeeDenominator \in Nat /\ FeeDenominator > 0
    BY ZapNames DEF TypeOK
<1>2. RewardFee(t, gain) = fee
    BY DEF RewardFee
<1> HIDE DEF rate
<1>3. product \in Nat /\ (gain = 0 => product = 0)
    BY <1>1, ProductAndQuotient
<1>4. rate <= FeeDenominator => product <= FeeDenominator * gain
    <2>1. rate <= FeeDenominator => gain * rate <= gain * FeeDenominator
        BY <1>1, ProductsOrder
    <2>2. gain * FeeDenominator = FeeDenominator * gain
        BY <1>1
    <2> QED
        BY <2>1, <2>2
<1> HIDE DEF product
<1>5. fee \in Nat /\ FeeDenominator * fee <= product
    BY <1>1, <1>3, ProductAndQuotient, Quotient
<1> HIDE DEF fee
<1>6. FeeDenominator * fee <= 0 => fee <= 0
    BY <1>1, <1>5
<1>7. FeeDenominator * fee \in Nat /\ FeeDenominator * gain \in Nat
    BY <1>1, <1>5, ProductAndQuotient
<1>8. rate <= FeeDenominator => fee <= gain
    BY <1>1, <1>3, <1>4, <1>5, <1>7, Cancel
<1> QED
    BY <1>2, <1>3, <1>5, <1>6, <1>8 DEF rate

LEMMA ClaimDoes ==
    ASSUME TypeOK, NEW names \in SUBSET Zaps, NEW gains \in Gains(names), Claim(names, gains)
    PROVE  /\ lpBal' \in [Tokens -> Nat] /\ treasury' \in [Tokens -> Nat]
           /\ position' \in [Zaps -> Nat]
           /\ UNCHANGED lpConfig
           /\ \A t \in Tokens : rewardFee[t] <= FeeDenominator => lpBal[t] <= lpBal'[t]
<1> DEFINE fees == [t \in Tokens |-> RewardFee(t, gains[t])]
<1>1. \A x \in Tokens \cup Zaps : gains[x] \in Nat
    BY LpConstantsAssumption DEF Gains
<1>2. \A t \in Tokens : /\ fees[t] \in Nat
                        /\ rewardFee[t] <= FeeDenominator => fees[t] <= gains[t]
    BY <1>1, FeeBounds
<1>3. /\ lpBal' = [t \in Tokens |-> (lpBal[t] + gains[t]) - fees[t]]
      /\ treasury' = [t \in Tokens |-> treasury[t] + fees[t]]
      /\ position' = [z \in Zaps |-> position[z] + gains[z]]
      /\ \A t \in Tokens : fees[t] <= lpBal[t] + gains[t]
      /\ UNCHANGED lpConfig
    BY DEF Claim, SendFeesToTreasurySafe
<1> HIDE DEF fees
<1>4. position' \in [Zaps -> Nat]
    BY <1>1, <1>3 DEF TypeOK
<1> QED
    BY <1>1, <1>2, <1>3, <1>4 DEF TypeOK

-----------------------------------------------------------------------------
\* Every step keeps the types.

LEMMA AccountStepTyped ==
    ASSUME TypeOK, LpSafeStep, UNCHANGED registryVars
    PROVE  TypeOK'
<1> USE DEF registryVars
<1>1. ASSUME NEW z \in Zaps, NEW amounts \in [ZapCoins[z] -> 0..MaxHoldings],
             DeployStrategy(z, amounts)
      PROVE  TypeOK'
    BY <1>1, DeployDoes DEF DeployStrategy, lpConfig, TypeOK
<1>2. ASSUME NEW z \in Zaps, NEW c \in Tokens, NEW n \in 0..position[z], UnwindStrategy(z, n, c)
      PROVE  TypeOK'
    BY <1>2 DEF UnwindStrategy, lpConfig, TypeOK
<1>3. ASSUME NEW s \in Swaps, NEW n \in 1..lpBal[SwapIn[s]], Swap(s, n)
      PROVE  TypeOK'
    <2>1. SwapIn[s] \in Tokens /\ SwapOut[s] \in Tokens
        BY ZapNames
    <2>2. n \in Nat
        BY <2>1 DEF TypeOK
    <2> QED
        BY <1>3, <2>1, <2>2, ExchangeDoes DEF Swap, lpConfig, TypeOK
<1>4. ASSUME NEW t \in Tokens, NEW u \in Tokens, NEW n \in 1..lpBal[t], SwapWith3Pool(t, u, n)
      PROVE  TypeOK'
    <2>1. n \in Nat
        BY DEF TypeOK
    <2> QED
        BY <1>4, <2>1, ExchangeDoes DEF SwapWith3Pool, lpConfig, TypeOK
<1>5. ASSUME NEW names \in SUBSET Zaps, NEW gains \in Gains(names), Claim(names, gains)
      PROVE  TypeOK'
    BY <1>5, ClaimDoes DEF lpConfig, TypeOK
<1> QED
    BY <1>1, <1>2, <1>3, <1>4, <1>5
    DEF LpSafeStep, Exchanges, Deploy, Unwind, SwapRegistered, SwapStablecoins, ClaimRewards

LEMMA TransferTyped ==
    ASSUME TypeOK, Transfer, UNCHANGED registryVars
    PROVE  TypeOK'
<1>1. PICK t \in Tokens, n \in 1..MaxHoldings :
          TransferToPool([x \in {t} |-> n]) \/ Receive([x \in {t} |-> n])
    BY DEF Transfer
<1>2. n \in Nat
    BY LpConstantsAssumption
<1>3. CASE TransferToPool([x \in {t} |-> n])
    <2>1. n <= lpBal[t]
        BY <1>3 DEF TransferToPool, Held
    <2>2. lpBal' = [x \in Tokens |-> IF x = t THEN lpBal[x] - n ELSE lpBal[x]]
        BY <1>3 DEF TransferToPool
    <2> QED
        BY <1>2, <1>3, <2>1, <2>2 DEF TransferToPool, lpConfig, registryVars, TypeOK
<1>4. CASE Receive([x \in {t} |-> n])
    <2>1. lpBal' = [x \in Tokens |-> IF x = t THEN lpBal[x] + n ELSE lpBal[x]]
        BY <1>4 DEF Receive
    <2> QED
        BY <1>2, <1>4, <2>1 DEF Receive, lpConfig, registryVars, TypeOK
<1> QED
    BY <1>1, <1>3, <1>4

LEMMA AdminTyped ==
    ASSUME TypeOK, AdminStep, UNCHANGED registryVars
    PROVE  TypeOK'
<1> USE ZapNames DEF TypeOK, registryVars, holdings
<1>1. ASSUME NEW z \in Zaps, RegisterZap(z) \/ RemoveZap(z) PROVE TypeOK'
    BY <1>1 DEF RegisterZap, RemoveZap
<1>2. ASSUME NEW s \in Swaps, RegisterSwap(s) \/ RemoveSwap(s) PROVE TypeOK'
    BY <1>2 DEF RegisterSwap, RemoveSwap
<1>3. ASSUME NEW p \in LockPeriods, SetLockPeriod(p) PROVE TypeOK'
    BY <1>3 DEF SetLockPeriod
<1>4. ASSUME NEW t, NEW f \in Fees, RegisterRewardFee(t, f) PROVE TypeOK'
    BY <1>4 DEF RegisterRewardFee
<1>5. ASSUME NEW t, RemoveRewardFee(t) PROVE TypeOK'
    BY <1>5 DEF RemoveRewardFee
<1>6. ASSUME NEW t, EmergencyExit(t) PROVE TypeOK'
    BY <1>6 DEF EmergencyExit, lpConfig
<1> QED
    BY <1>1, <1>2, <1>3, <1>4, <1>5, <1>6 DEF AdminStep

LEMMA AccountKeepsTypes == ASSUME TypeOK, [Next]_vars PROVE TypeOK'
<1>1. CASE UNCHANGED vars
    BY <1>1 DEF vars, lpVars, registryVars, TypeOK
<1>2. CASE RegistryStep /\ UNCHANGED lpVars
    BY <1>2 DEF RegistryStep, RegisterAssetAllocation, RemoveAssetAllocation, RegisterErc20Token,
                RemoveErc20Token, lpVars, TypeOK
<1> QED
    BY <1>1, <1>2, AccountStepTyped, TransferTyped, AdminTyped DEF Next

LEMMA AccountTyped == Spec => []TypeOK
<1>1. Init => TypeOK
    BY InitAccount
<1>2. TypeOK /\ [Next]_vars => TypeOK'
    BY AccountKeepsTypes
<1> QED
    BY <1>1, <1>2, PTL DEF Spec

-----------------------------------------------------------------------------
\* claim: for any rewards and fees, what the treasury gets of a token is no more than what
\* was collected of it, as long as no registered fee exceeds 100%.
THEOREM FeesAlwaysComeFromGains == Spec => FeesComeFromGains
<1>1. ASSUME TypeOK, ClaimRewards, \A t \in Tokens : rewardFee[t] <= FeeDenominator
      PROVE  \A t \in Tokens : lpBal'[t] >= lpBal[t]
    <2>1. PICK names \in SUBSET Zaps : \E gains \in Gains(names) : Claim(names, gains)
        BY <1>1 DEF ClaimRewards
    <2>2. lpBal' \in [Tokens -> Nat] /\ \A t \in Tokens : lpBal[t] <= lpBal'[t]
        BY <1>1, <2>1, ClaimDoes
    <2> QED
        BY <1>1, <2>2 DEF TypeOK
<1>2. TypeOK /\ [Next]_vars
          => [ClaimRewards /\ (\A t \in Tokens : rewardFee[t] <= FeeDenominator) =>
                  \A t \in Tokens : lpBal'[t] >= lpBal[t]]_vars
    BY <1>1
<1> QED
    BY <1>2, AccountTyped, PTL DEF Spec, FeesComeFromGains

-----------------------------------------------------------------------------
\* The stake: when attempts to unwind meet the window.

LEMMA StakingNumbers ==
    Cooldown \in Nat /\ UnstakeWindow \in Nat /\ UnstakeWindow > 0 /\ MaxAave \in Nat
BY StakingConstants DEF Staking!StakingAssumption

\* Of a row of vain attempts: the cooldown the first met, or began, is the one that still
\* runs, none was made after it was over, and the last is no longer ago than a window.
Waiting ==
    /\ tryingSince - Cooldown <= cooldownStart /\ cooldownStart <= tryingSince
    /\ lastTry <= cooldownStart + Cooldown
    /\ tryingSince <= lastTry /\ lastTry <= now
    /\ now <= lastTry + UnstakeWindow

StakeInv ==
    /\ now \in Nat /\ Cooldown + UnstakeWindow < now
    /\ aave \in Nat /\ staked \in Nat
    /\ cooldownStart \in 0..now
    /\ tryingSince \in Nat /\ lastTry \in Nat
    /\ tryingSince # 0 => Waiting

LEMMA InitStake == ASSUME Staking!Init PROVE StakeInv
BY StakingNumbers DEF Staking!Init, Staking!Never, StakeInv

LEMMA WithdrawWaits ==
    ASSUME StakeInv, NEW n \in Nat, Staking!Withdraw(n)
    PROVE  StakeInv'
<1> USE StakingNumbers
<1>1. CASE Staking!Redeem(n) /\ Staking!GiveUp /\ UNCHANGED now
    BY <1>1 DEF Staking!Redeem, Staking!GiveUp, Staking!Never, StakeInv
<1>2. ASSUME ~Staking!WindowOpen,
             tryingSince' = IF tryingSince = 0 THEN now ELSE tryingSince,
             lastTry' = now,
             \/ Staking!WindowFinished /\ cooldownStart' = now
             \/ ~Staking!WindowFinished /\ UNCHANGED cooldownStart,
             UNCHANGED <<aave, staked, now>>
      PROVE  StakeInv'
    <2>1. CASE Staking!WindowFinished
        <3>1. tryingSince = 0
            BY <2>1 DEF Staking!WindowFinished, StakeInv, Waiting
        <3> QED
            BY <1>2, <2>1, <3>1 DEF StakeInv, Waiting
    <2>2. CASE ~Staking!WindowFinished
        <3>1. now <= cooldownStart + Cooldown
            BY <1>2, <2>2 DEF Staking!WindowFinished, Staking!WindowOpen, StakeInv
        <3> QED
            BY <1>2, <2>2, <3>1 DEF StakeInv, Waiting
    <2> QED
        BY <2>1, <2>2
<1> QED
    BY <1>1, <1>2 DEF Staking!Withdraw, Staking!RestartsCooldown, Staking!Never

LEMMA StakeStep == ASSUME StakeInv, [Staking!Next]_(Staking!vars) PROVE StakeInv'
<1> USE StakingNumbers
<1>1. CASE UNCHANGED Staking!vars
    BY <1>1 DEF Staking!vars, Staking!stakeVars, Staking!attempts, StakeInv, Waiting
<1>2. ASSUME NEW n \in 1..aave, Staking!Stake(n) PROVE StakeInv'
    BY <1>2 DEF Staking!Stake, Staking!CooldownMoved, Staking!GiveUp, Staking!Never, StakeInv
<1>3. ASSUME NEW n \in 1..staked, Staking!Withdraw(n) PROVE StakeInv'
    <2>1. n \in Nat
        BY DEF StakeInv
    <2> QED
        BY <1>3, <2>1, WithdrawWaits
<1>4. ASSUME NEW n \in 1..(MaxAave - aave - staked), Staking!Claim(n) PROVE StakeInv'
    BY <1>4 DEF Staking!Claim, Staking!attempts, StakeInv, Waiting
<1>5. ASSUME NEW n \in 1..(MaxAave - aave - staked), Staking!Rewarded(n) PROVE StakeInv'
    BY <1>5 DEF Staking!Rewarded, Staking!CooldownMoved, Staking!GiveUp, Staking!Never, StakeInv
<1>6. CASE Staking!Tick
    <2>1. /\ now' = now + 1 /\ UNCHANGED <<aave, staked, cooldownStart>>
          /\ \/ tryingSince' = 0 /\ lastTry' = 0
             \/ /\ tryingSince = 0 \/ now' - lastTry <= UnstakeWindow
                /\ UNCHANGED <<tryingSince, lastTry>>
        BY <1>6 DEF Staking!Tick, Staking!GiveUp, Staking!Never, Staking!stakeVars,
                    Staking!attempts, StakeInv
    <2> QED
        BY <2>1 DEF StakeInv, Waiting
<1> QED
    BY <1>1, <1>2, <1>3, <1>4, <1>5, <1>6 DEF Staking!Next

\* unwindStrategy of stkAAVE: for any cooldown and window, and whenever the attempts are
\* made, whoever makes one in every unstake window waits no longer than one cooldown and
\* one window for AAVE.
THEOREM RetriesAlwaysSucceed == Staking!Spec => []RetriesSucceed
<1>1. Staking!Init => StakeInv
    BY InitStake
<1>2. StakeInv /\ [Staking!Next]_(Staking!vars) => StakeInv'
    BY StakeStep
<1>3. StakeInv => RetriesSucceed
    BY StakingNumbers
    DEF StakeInv, Waiting, RetriesSucceed, Staking!RetriesSucceed, Staking!Never
<1> QED
    BY <1>1, <1>2, <1>3, PTL DEF Staking!Spec
=============================================================================
