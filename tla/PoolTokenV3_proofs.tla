-------------------------- MODULE PoolTokenV3_proofs --------------------------
(***************************************************************************)
(* The arithmetic of the pools, for any amounts, prices, fees and units    *)
(* and in any order of steps: shares keep their worth through deposits and *)
(* redemptions, a round trip gains nothing, an early redemption leaves its *)
(* fee, and a top-up solves its equation.                                  *)
(*                                                                         *)
(* Each rests on one lemma about natural numbers, in which a quotient is   *)
(* only known to be between two products; TypeOK, which is inductive, says *)
(* that the pools' numbers are natural and no divisor is zero.             *)
(***************************************************************************)
EXTENDS PoolTokenV3, Sums_proofs

-----------------------------------------------------------------------------
\* Arithmetic.

\* _calculateMintAmount: shares for a value cost at least what a share is worth.
LEMMA SharesForBounds ==
    ASSUME NEW value \in Nat, NEW total \in Nat, NEW supply \in Nat, NEW factor \in Nat
    PROVE  /\ SharesFor(value, total, supply, factor) \in Nat
           /\ total > 0 /\ supply > 0 =>
                  total * SharesFor(value, total, supply, factor) <= value * supply
<1>1. value * supply \in Nat /\ value * factor \in Nat
    BY ProductAndQuotient
<1>2. CASE total = 0 \/ supply = 0
    BY <1>1, <1>2 DEF SharesFor
<1>3. CASE total > 0 /\ supply > 0
    <2> DEFINE product == value * supply
    <2> HIDE DEF product
    <2>1. product \in Nat
        BY <1>1 DEF product
    <2>2. product \div total \in Nat /\ total * (product \div total) <= product
        BY <1>3, <2>1, ProductAndQuotient, Quotient
    <2>3. SharesFor(value, total, supply, factor) = product \div total
        BY <1>3 DEF SharesFor, product
    <2> QED
        BY <1>3, <2>2, <2>3 DEF product
<1> QED
    BY <1>2, <1>3

\* getUnderlyerAmount: the underlyer paid for shares is worth no more than they are.
LEMMA UnderlyerForBounds ==
    ASSUME NEW shares \in Nat, NEW total \in Nat, NEW supply \in Nat, supply > 0,
           NEW cost \in Nat, cost > 0, NEW unit \in Nat
    PROVE  /\ UnderlyerFor(shares, total, supply, cost, unit) \in Nat
           /\ supply * (cost * UnderlyerFor(shares, total, supply, cost, unit))
                  <= shares * total * unit
<1> DEFINE product == shares * total * unit
           scaled == product \div supply
           amount == scaled \div cost
<1>1. shares * total \in Nat
    BY ProductAndQuotient
<1>2. product \in Nat
    BY <1>1, ProductAndQuotient
<1>3. UnderlyerFor(shares, total, supply, cost, unit) = amount
    BY DEF UnderlyerFor
<1> HIDE DEF product
<1>4. scaled \in Nat /\ supply * scaled <= product
    BY <1>2, ProductAndQuotient, Quotient
<1> HIDE DEF scaled
<1>5. amount \in Nat /\ cost * amount <= scaled
    BY <1>4, ProductAndQuotient, Quotient
<1> HIDE DEF amount
<1>6. cost * amount \in Nat
    BY <1>5, ProductAndQuotient
<1>7. supply * (cost * amount) <= supply * scaled
    BY <1>4, <1>5, <1>6, ProductsOrder
<1>8. supply * (cost * amount) \in Nat /\ supply * scaled \in Nat
    BY <1>4, <1>6, ProductAndQuotient
<1> QED
    BY <1>2, <1>3, <1>4, <1>5, <1>7, <1>8 DEF product

\* A deposit: the value per share does not fall.
LEMMA MintKeepsWorth ==
    ASSUME NEW value \in Nat, NEW total \in Nat, NEW supply \in Nat, supply > 0,
           NEW factor \in Nat, NEW totalAfter \in Nat, total + value <= totalAfter
    PROVE  totalAfter * supply >= total * (supply + SharesFor(value, total, supply, factor))
<1> DEFINE minted == SharesFor(value, total, supply, factor)
<1>1. minted \in Nat /\ (total > 0 => total * minted <= value * supply)
    BY SharesForBounds
<1> HIDE DEF minted
<1>2. (total + value) * supply <= totalAfter * supply
    BY ProductsOrder
<1>3. (total + value) * supply = total * supply + value * supply
    OBVIOUS
<1>4. total * (supply + minted) = total * supply + total * minted
    BY <1>1
<1>5. total = 0 => total * minted = 0
    BY <1>1
<1>6. value * supply \in Nat /\ total * supply \in Nat /\ totalAfter * supply \in Nat
      /\ total * minted \in Nat
    BY <1>1, ProductAndQuotient
<1>7. total * minted <= value * supply
    BY <1>1, <1>5, <1>6
<1>8. total * (supply + minted) <= totalAfter * supply
    BY <1>2, <1>3, <1>4, <1>6, <1>7
<1>9. total * (supply + minted) \in Int
    BY <1>4, <1>6
<1> QED
    BY <1>6, <1>8, <1>9 DEF minted

\* A redemption: what stays is worth what it was, to within one unit of value.
LEMMA BurnKeepsWorth ==
    ASSUME NEW reserve \in Nat, NEW cost \in Nat, cost > 0, NEW unit \in Nat, unit > 0,
           NEW deployed \in Nat, NEW supply \in Nat, supply > 0, NEW burned \in Nat,
           NEW paid \in Nat, paid <= reserve,
           paid <= UnderlyerFor(burned, ValueOf(reserve, cost, unit) + deployed, supply, cost, unit)
    PROVE  (ValueOf(reserve - paid, cost, unit) + deployed + 1) * supply
               > (ValueOf(reserve, cost, unit) + deployed) * (supply - burned)
<1> DEFINE all == cost * reserve
           gone == cost * paid
           before == all \div unit
           after == (all - gone) \div unit
           total == before + deployed
           amount == UnderlyerFor(burned, total, supply, cost, unit)
<1>1. all \in Nat /\ gone \in Nat
    BY ProductAndQuotient
<1>2. cost * (reserve - paid) = all - gone
    OBVIOUS
<1>3. ValueOf(reserve, cost, unit) = before /\ ValueOf(reserve - paid, cost, unit) = after
    BY <1>2 DEF ValueOf
<1>4. before \in Nat /\ unit * before <= all
    BY <1>1, ProductAndQuotient, Quotient
<1>5. after \in Int /\ all - gone < unit * after + unit
    BY <1>1, Quotient
<1>6. paid <= amount
    BY <1>3
<1> HIDE DEF before, after
<1>7. total \in Nat
    BY <1>4
<1> HIDE DEF total
<1>8. amount \in Nat /\ supply * (cost * amount) <= burned * total * unit
    BY <1>7, UnderlyerForBounds
<1> HIDE DEF amount
<1>9. supply * gone <= burned * total * unit
    <2>1. gone <= cost * amount /\ cost * amount \in Nat
        BY <1>6, <1>8, ProductsOrder, ProductAndQuotient
    <2>2. supply * gone <= supply * (cost * amount)
        BY <1>1, <2>1, ProductsOrder
    <2>3. burned * total \in Nat /\ burned * total * unit \in Nat
        BY <1>7, ProductAndQuotient
    <2>4. supply * gone \in Nat /\ supply * (cost * amount) \in Nat
        BY <1>1, <2>1, ProductAndQuotient
    <2> QED
        BY <1>8, <2>2, <2>3, <2>4
<1> HIDE DEF all, gone
\* The value that leaves, in parts of a unit, times the supply.
<1> DEFINE lost == before - after - 1
           due == burned * total
<1>10. due \in Nat /\ lost \in Int
    BY <1>4, <1>5, <1>7, ProductAndQuotient
<1>11. unit * lost < gone
    <2>1. unit * lost = unit * before - (unit * after + unit)
        BY <1>4, <1>5
    <2>2. unit * before \in Int /\ unit * after \in Int
        BY <1>4, <1>5
    <2> QED
        BY <1>1, <1>4, <1>5, <2>1, <2>2
<1> HIDE DEF lost
<1>12. supply * (unit * lost) < supply * gone
    BY <1>1, <1>10, <1>11, Cancel
<1>13. supply * (unit * lost) = unit * (supply * lost) /\ supply * lost \in Int
    BY <1>10
<1>14. burned * total * unit = unit * due
    BY <1>10
<1>15. unit * (supply * lost) < unit * due
    <2>1. supply * gone \in Int /\ unit * due \in Int /\ unit * (supply * lost) \in Int
        BY <1>1, <1>10, <1>13
    <2> QED
        BY <1>9, <1>12, <1>13, <1>14, <2>1
<1>16. supply * lost < due
    BY <1>10, <1>13, <1>15, Cancel
<1>17. (after + deployed + 1) * supply = total * supply - supply * lost
    <2>1. after + deployed + 1 = total - lost
        BY <1>4, <1>5 DEF total, lost
    <2>2. (total - lost) * supply = total * supply - supply * lost
        BY <1>7, <1>10
    <2> QED
        BY <2>1, <2>2
<1>18. total * (supply - burned) = total * supply - due
    BY <1>7
<1>19. total * supply \in Int
    BY <1>7
<1>20. (after + deployed + 1) * supply > total * (supply - burned)
    BY <1>10, <1>13, <1>16, <1>17, <1>18, <1>19
<1> QED
    BY <1>3, <1>20 DEF total

\* A deposit and the redemption of its shares.
LEMMA RoundTripGainsNothing ==
    ASSUME NEW value \in Nat, NEW total \in Nat, NEW supply \in Nat, supply > 0 \/ total = 0,
           NEW factor \in Nat, NEW totalAfter \in Nat, totalAfter <= total + value + 1,
           NEW cost \in Nat, cost > 0, NEW unit \in Nat, unit > 0,
           NEW minted \in Nat, minted > 0, minted = SharesFor(value, total, supply, factor)
    PROVE  ValueOf(UnderlyerFor(minted, totalAfter, supply + minted, cost, unit), cost, unit)
               <= value + 1
<1> DEFINE shares == supply + minted
           amount == UnderlyerFor(minted, totalAfter, shares, cost, unit)
           back == ValueOf(amount, cost, unit)
<1>1. shares \in Nat /\ shares > 0
    OBVIOUS
<1> HIDE DEF shares
<1>2. amount \in Nat /\ shares * (cost * amount) <= minted * totalAfter * unit
    BY <1>1, UnderlyerForBounds
<1>3. cost * amount \in Nat
    BY <1>2, ProductAndQuotient
<1>4. back \in Nat /\ unit * back <= cost * amount
    BY <1>3, ProductAndQuotient, Quotient DEF ValueOf
<1> HIDE DEF amount, back
<1>5. shares * back <= minted * totalAfter
    <2>1. unit * back \in Nat /\ shares * back \in Nat /\ minted * totalAfter \in Nat
        BY <1>1, <1>4, ProductAndQuotient
    <2>2. shares * (unit * back) <= shares * (cost * amount)
        BY <1>1, <1>3, <1>4, <2>1, ProductsOrder
    <2>3. shares * (unit * back) = unit * (shares * back)
        BY <1>1, <1>4
    <2>4. minted * totalAfter * unit = unit * (minted * totalAfter)
        OBVIOUS
    <2>5. /\ shares * (cost * amount) \in Nat /\ unit * (minted * totalAfter) \in Nat
          /\ unit * (shares * back) \in Nat
        BY <1>1, <1>3, <2>1, ProductAndQuotient
    <2>6. unit * (shares * back) <= unit * (minted * totalAfter)
        BY <1>2, <2>2, <2>3, <2>4, <2>5
    <2> QED
        BY <2>1, <2>6, Cancel
<1>6. minted * totalAfter <= minted * total + minted * (value + 1)
    <2>1. minted * totalAfter <= minted * (total + (value + 1))
        BY ProductsOrder
    <2>2. minted * (total + (value + 1)) = minted * total + minted * (value + 1)
        OBVIOUS
    <2> QED
        BY <2>1, <2>2
<1>7. minted * total <= supply * (value + 1)
    <2>1. CASE total = 0
        <3>1. minted * total = 0 /\ supply * (value + 1) \in Nat
            BY <2>1, ProductAndQuotient
        <3> QED
            BY <3>1
    <2>2. CASE total > 0
        <3>1. total * minted <= value * supply
            BY <2>2, SharesForBounds
        <3>2. supply * (value + 1) = value * supply + supply /\ minted * total = total * minted
            OBVIOUS
        <3>3. value * supply \in Nat /\ total * minted \in Nat
            BY ProductAndQuotient
        <3> QED
            BY <3>1, <3>2, <3>3
    <2> QED
        BY <2>1, <2>2
<1>8. shares * (value + 1) = supply * (value + 1) + minted * (value + 1)
    BY DEF shares
<1>9. shares * back <= shares * (value + 1)
    <2>1. /\ shares * back \in Nat /\ minted * totalAfter \in Nat /\ minted * total \in Nat
          /\ minted * (value + 1) \in Nat /\ supply * (value + 1) \in Nat
        BY <1>1, <1>4, ProductAndQuotient
    <2> QED
        BY <1>5, <1>6, <1>7, <1>8, <2>1
<1> QED
    BY <1>1, <1>4, <1>9, Cancel DEF shares, amount, back

\* Rounding towards zero is off by less than the divisor.
LEMMA TruncDivBounds ==
    ASSUME NEW a \in Int, NEW b \in Nat, b > 0
    PROVE  /\ TruncDiv(a, b) \in Int
           /\ -b < b * TruncDiv(a, b) - a /\ b * TruncDiv(a, b) - a < b
<1>1. CASE a >= 0
    <2>1. a \div b \in Int /\ b * (a \div b) <= a /\ a < b * (a \div b) + b
        BY Quotient
    <2> DEFINE q == a \div b
    <2>2. TruncDiv(a, b) = q
        BY <1>1 DEF TruncDiv
    <2> HIDE DEF q
    <2>3. b * q \in Int /\ b * q <= a /\ a < b * q + b /\ q \in Int
        BY <2>1 DEF q
    <2> QED
        BY <2>2, <2>3
<1>2. CASE a < 0
    <2>1. (-a) \div b \in Int /\ b * ((-a) \div b) <= -a /\ -a < b * ((-a) \div b) + b
        BY Quotient
    <2> DEFINE q == (-a) \div b
    <2>2. TruncDiv(a, b) = -q
        BY <1>2 DEF TruncDiv
    <2> HIDE DEF q
    <2>3. b * q \in Int /\ b * q <= -a /\ -a < b * q + b /\ q \in Int
        BY <2>1 DEF q
    <2>4. b * (-q) = -(b * q)
        BY <2>3
    <2> QED
        BY <2>2, <2>3, <2>4
<1> QED
    BY <1>1, <1>2

\* _getReserveTopUpValue solves its equation, to within the rounding of the division.
LEMMA TopUpSolves ==
    ASSUME NEW deployed \in Nat, NEW reserve \in Nat, NEW percentage \in Nat
    PROVE  LET topUp == TopUpValue(deployed, reserve, percentage)
               miss == 100 * (reserve + topUp) - percentage * (deployed - topUp)
           IN  -(100 + percentage) < miss /\ miss < 100 + percentage
<1> DEFINE b == percentage + 100
           a == deployed * percentage - reserve * 100
           topUp == TopUpValue(deployed, reserve, percentage)
<1>1. deployed * percentage \in Nat /\ a \in Int /\ b \in Nat /\ b > 0
    BY ProductAndQuotient
<1>2. topUp = TruncDiv(a, b)
    BY DEF TopUpValue
<1> HIDE DEF a, b
<1>3. topUp \in Int /\ -b < b * topUp - a /\ b * topUp - a < b
    BY <1>1, <1>2, TruncDivBounds
<1> HIDE DEF topUp
<1>4. 100 * (reserve + topUp) - percentage * (deployed - topUp) = b * topUp - a
    <2>1. percentage * (deployed - topUp) = deployed * percentage - percentage * topUp
        BY <1>3
    <2>2. b * topUp = percentage * topUp + 100 * topUp
        BY <1>3 DEF b
    <2>3. percentage * topUp \in Int
        BY <1>3
    <2> QED
        BY <1>1, <1>3, <2>1, <2>2, <2>3 DEF a
<1>5. 100 * (reserve + topUp) - percentage * (deployed - topUp) \in Int
    BY <1>1, <1>3, <1>4
<1> QED
    BY <1>3, <1>4, <1>5 DEF topUp, b

\* What is paid after the arbitrage fee, whatever the other fee.
LEMMA FeeLeft ==
    ASSUME NEW amount \in Nat, NEW fee \in Nat, NEW otherFee \in Nat
    PROVE  100 * (amount - (otherFee + (amount * fee) \div 100)) < (100 - fee) * amount + 100
<1> DEFINE product == amount * fee
           q == product \div 100
<1>1. product \in Nat
    BY ProductAndQuotient
<1> HIDE DEF product
<1>2. q \in Int /\ 100 * q <= product /\ product < 100 * q + 100
    BY <1>1, Quotient
<1> HIDE DEF q
<1>3. 100 * (amount - (otherFee + q)) < 100 * amount - product + 100
    BY <1>1, <1>2
<1>4. (100 - fee) * amount = 100 * amount - product
    BY DEF product
<1> QED
    BY <1>3, <1>4 DEF product, q

-----------------------------------------------------------------------------
\* The pools' numbers.

LEMMA PoolConstants ==
    /\ IsFiniteSet(Users) /\ Factor \in Nat /\ Funds \in Nat
    /\ \A p \in Pools : Unit[p] \in Nat /\ Unit[p] > 0
    /\ WithdrawFees \subseteq Nat /\ WithdrawFees # {}
    /\ ArbitrageFees \subseteq Nat /\ ArbitrageFees # {}
    /\ ArbitrageFeePeriods \subseteq Nat /\ ArbitrageFeePeriods # {}
    /\ ReservePercentages \subseteq Nat /\ ReservePercentages # {}
    /\ WithdrawFeeDenominator \in Nat /\ WithdrawFeeDenominator > 0
    /\ Prices \subseteq Nat /\ DeployedValues \subseteq Nat /\ StartTime \in Nat
BY PoolConstantsAssumption

LEMMA ValueOfNat ==
    ASSUME NEW amount \in Nat, NEW cost \in Nat, NEW unit \in Nat, unit > 0
    PROVE  ValueOf(amount, cost, unit) \in Nat
<1>1. cost * amount \in Nat
    BY ProductAndQuotient
<1> QED
    BY <1>1, ProductAndQuotient DEF ValueOf

\* What values and shares of a pool are.
LEMMA PoolNumbers ==
    ASSUME TypeOK, NEW p \in Pools
    PROVE  /\ price[p] \in Nat /\ Unit[p] \in Nat /\ Unit[p] > 0 /\ poolBal[p] \in Nat
           /\ deployedValue[p] \in Nat
           /\ PoolUnderlyerValue(p) \in Nat /\ GetPoolTotalValue(p) \in Nat
           /\ TotalSupply(p) \in Nat /\ \A u \in Users : apt[p][u] <= TotalSupply(p)
<1>1. /\ price[p] \in Nat /\ Unit[p] \in Nat /\ Unit[p] > 0 /\ poolBal[p] \in Nat
      /\ deployedValue[p] \in Nat
    BY PoolConstants DEF TypeOK
<1>2. PoolUnderlyerValue(p) \in Nat
    BY <1>1, ValueOfNat DEF PoolUnderlyerValue
<1>3. GetPoolTotalValue(p) \in Nat
    BY <1>1, <1>2 DEF GetPoolTotalValue
<1>4. TotalSupply(p) \in Nat /\ \A u \in Users : apt[p][u] <= TotalSupply(p)
    <2>1. \A u \in Users : apt[p][u] \in Nat
        BY DEF TypeOK
    <2>2. TotalSupply(p) = Total(apt[p], Users)
        BY DEF TotalSupply, Total
    <2> QED
        BY <2>1, <2>2, TotalOfNaturals, PoolConstants
<1> QED
    BY <1>1, <1>2, <1>3, <1>4

LEMMA MintedNat ==
    ASSUME TypeOK, NEW p \in Pools, NEW n \in Nat
    PROVE  CalculateMintAmount(p, n) \in Nat
<1>1. ValueOf(n, price[p], Unit[p]) \in Nat
    BY PoolNumbers, ValueOfNat
<1> QED
    BY <1>1, PoolNumbers, PoolConstants, SharesForBounds DEF CalculateMintAmount

\* What is paid is natural, and no more than the shares are worth.
LEMMA PaidNat ==
    ASSUME TypeOK, NEW p \in Pools, NEW u \in Users, NEW n \in 1..apt[p][u], Redeem(p, u, n)
    PROVE  /\ GetUnderlyerAmount(p, n) \in Nat /\ TotalSupply(p) > 0
           /\ Fees(p, u, GetUnderlyerAmount(p, n)) \in Nat
           /\ GetUnderlyerAmountWithFee(p, u, n) \in Nat
           /\ GetUnderlyerAmountWithFee(p, u, n) <= GetUnderlyerAmount(p, n)
           /\ GetUnderlyerAmountWithFee(p, u, n) <= poolBal[p]
<1> DEFINE amount == GetUnderlyerAmount(p, n)
           fees == Fees(p, u, amount)
           paid == GetUnderlyerAmountWithFee(p, u, n)
           fee1 == settings[p].withdrawFee
           fee2 == settings[p].arbitrageFee
<1>1. n \in Nat /\ n > 0 /\ n <= apt[p][u] /\ apt[p][u] \in Nat
    BY DEF TypeOK
<1>2. price[p] > 0 /\ fees <= amount /\ paid <= poolBal[p] /\ paid = amount - fees
    BY DEF Redeem, ReserveCovers, GetUnderlyerAmountWithFee
<1>3. TotalSupply(p) \in Nat /\ TotalSupply(p) > 0
    BY <1>1, PoolNumbers
<1>4. amount \in Nat
    BY <1>1, <1>2, <1>3, PoolNumbers, UnderlyerForBounds DEF GetUnderlyerAmount
<1> HIDE DEF amount
<1>5. fees \in Nat
    <2>1. fee1 \in Nat /\ fee2 \in Nat
        BY DEF TypeOK, Settings
    <2> HIDE DEF fee1, fee2
    <2>2. amount * fee1 \in Nat /\ amount * fee2 \in Nat
        BY <1>4, <2>1, ProductAndQuotient
    <2>3. (amount * fee1) \div WithdrawFeeDenominator \in Nat /\ (amount * fee2) \div 100 \in Nat
        BY <2>2, PoolConstants, ProductAndQuotient
    <2> QED
        BY <2>3 DEF Fees, fee1, fee2
<1> HIDE DEF fees, paid
<1>6. paid \in Nat /\ paid <= amount
    BY <1>2, <1>4, <1>5
<1> QED
    BY <1>2, <1>3, <1>4, <1>5, <1>6 DEF paid, fees, amount

\* An entry of a table that changes.
LEMMA EntryChanges ==
    ASSUME NEW f \in [Pools -> [Users -> Nat]], NEW p \in Pools, NEW u \in Users, NEW x \in Nat
    PROVE  [f EXCEPT ![p][u] = x] \in [Pools -> [Users -> Nat]]
OBVIOUS

\* addLiquidity, with what it changes.
LEMMA DepositDoes ==
    ASSUME TypeOK, NEW p \in Pools, NEW u \in Users, NEW n \in 1..userBal[p][u],
           AddLiquidity(p, u, n)
    PROVE  /\ n \in Nat /\ CalculateMintAmount(p, n) \in Nat
           /\ apt' = [apt EXCEPT ![p][u] = apt[p][u] + CalculateMintAmount(p, n)]
           /\ poolBal' = [poolBal EXCEPT ![p] = poolBal[p] + n]
           /\ apt' \in [Pools -> [Users -> Nat]] /\ userBal' \in [Pools -> [Users -> Nat]]
           /\ lastDepositTime' \in [Pools -> [Users -> Nat]] /\ poolBal' \in [Pools -> Nat]
           /\ UNCHANGED settings
<1> DEFINE m == CalculateMintAmount(p, n)
<1>1. /\ n \in Nat /\ userBal[p][u] \in Nat /\ userBal[p][u] - n \in Nat /\ apt[p][u] \in Nat
      /\ now \in Nat /\ poolBal[p] + n \in Nat
    BY DEF TypeOK
<1>2. m \in Nat
    BY <1>1, MintedNat
<1>3. /\ lastDepositTime' = [lastDepositTime EXCEPT ![p][u] = now]
      /\ apt' = [apt EXCEPT ![p][u] = apt[p][u] + m]
      /\ userBal' = [userBal EXCEPT ![p][u] = userBal[p][u] - n]
      /\ poolBal' = [poolBal EXCEPT ![p] = poolBal[p] + n]
      /\ UNCHANGED settings
    BY DEF AddLiquidity
<1> HIDE DEF m
<1>4. apt[p][u] + m \in Nat
    BY <1>1, <1>2
<1>5. /\ apt' \in [Pools -> [Users -> Nat]] /\ userBal' \in [Pools -> [Users -> Nat]]
      /\ lastDepositTime' \in [Pools -> [Users -> Nat]]
    BY <1>1, <1>3, <1>4, EntryChanges DEF TypeOK
<1>6. poolBal' \in [Pools -> Nat]
    BY <1>1, <1>3 DEF TypeOK
<1> QED
    BY <1>1, <1>2, <1>3, <1>5, <1>6 DEF m

\* redeem, with what it changes.
LEMMA RedeemDoes ==
    ASSUME TypeOK, NEW p \in Pools, NEW u \in Users, NEW n \in 1..apt[p][u], Redeem(p, u, n)
    PROVE  /\ n \in Nat /\ n > 0
           /\ apt' = [apt EXCEPT ![p][u] = apt[p][u] - n]
           /\ userBal' = [userBal EXCEPT ![p][u] = userBal[p][u] + GetUnderlyerAmountWithFee(p, u, n)]
           /\ poolBal' = [poolBal EXCEPT ![p] = poolBal[p] - GetUnderlyerAmountWithFee(p, u, n)]
           /\ apt' \in [Pools -> [Users -> Nat]] /\ userBal' \in [Pools -> [Users -> Nat]]
           /\ poolBal' \in [Pools -> Nat]
           /\ UNCHANGED <<lastDepositTime, settings>>
<1> DEFINE paid == GetUnderlyerAmountWithFee(p, u, n)
<1>1. n \in Nat /\ n > 0 /\ apt[p][u] \in Nat /\ userBal[p][u] \in Nat
      /\ poolBal[p] \in Nat /\ apt[p][u] - n \in Nat
    BY DEF TypeOK
<1>2. /\ apt' = [apt EXCEPT ![p][u] = apt[p][u] - n]
      /\ userBal' = [userBal EXCEPT ![p][u] = userBal[p][u] + paid]
      /\ poolBal' = [poolBal EXCEPT ![p] = poolBal[p] - paid]
      /\ UNCHANGED <<lastDepositTime, settings>>
    BY DEF Redeem
<1>3. paid \in Nat /\ paid <= poolBal[p]
    BY PaidNat
<1> HIDE DEF paid
<1>4. userBal[p][u] + paid \in Nat /\ poolBal[p] - paid \in Nat
    BY <1>1, <1>3
<1>5. apt' \in [Pools -> [Users -> Nat]] /\ userBal' \in [Pools -> [Users -> Nat]]
    BY <1>1, <1>2, <1>4, EntryChanges DEF TypeOK
<1>6. poolBal' \in [Pools -> Nat]
    BY <1>2, <1>4 DEF TypeOK
<1> QED
    BY <1>1, <1>2, <1>5, <1>6 DEF paid

-----------------------------------------------------------------------------
\* The types are inductive.

LEMMA InitPool == ASSUME Init PROVE TypeOK
<1>1. /\ apt = [p \in Pools |-> [u \in Users |-> 0]]
      /\ userBal = [p \in Pools |-> [u \in Users |-> Funds]]
      /\ poolBal = [p \in Pools |-> 0]
      /\ lastDepositTime = [p \in Pools |-> [u \in Users |-> 0]]
    BY DEF Init, PoolInit
<1>2. settings \in [Pools -> Settings]
    <2>1. /\ Min(ArbitrageFees) \in Nat /\ Min(ArbitrageFeePeriods) \in Nat
          /\ Min(ReservePercentages) \in Nat /\ Min(WithdrawFees) \in Nat
        BY PoolConstants, LeastOfNaturals
    <2> QED
        BY <2>1 DEF Init, PoolInit, Settings
<1>3. /\ price \in [Pools -> Nat] /\ readable \in [Pools -> BOOLEAN]
      /\ deployedValue \in [Pools -> Nat] /\ lpBal \in [Pools -> Nat] /\ now \in Nat
    BY PoolConstants DEF Init, EnvInit
<1> QED
    BY <1>1, <1>2, <1>3, PoolConstants DEF TypeOK

\* Settings with one or two of them changed are settings.
LEMMA SettingsChange ==
    ASSUME NEW s \in Settings, NEW b \in BOOLEAN, NEW n \in Nat, NEW m \in Nat
    PROVE  /\ [s EXCEPT !.paused = b] \in Settings
           /\ [s EXCEPT !.addLiquidityLock = b] \in Settings
           /\ [s EXCEPT !.redeemLock = b] \in Settings
           /\ [s EXCEPT !.arbitrageFee = n, !.arbitrageFeePeriod = m] \in Settings
           /\ [s EXCEPT !.reservePercentage = n] \in Settings
           /\ [s EXCEPT !.withdrawFee = n] \in Settings
<1>1. [s EXCEPT !.paused = b] \in Settings
    BY DEF Settings
<1>2. [s EXCEPT !.addLiquidityLock = b] \in Settings
    BY DEF Settings
<1>3. [s EXCEPT !.redeemLock = b] \in Settings
    BY DEF Settings
<1>4. [s EXCEPT !.arbitrageFee = n, !.arbitrageFeePeriod = m] \in Settings
    BY DEF Settings
<1>5. [s EXCEPT !.reservePercentage = n] \in Settings
    BY DEF Settings
<1>6. [s EXCEPT !.withdrawFee = n] \in Settings
    BY DEF Settings
<1> QED
    BY <1>1, <1>2, <1>3, <1>4, <1>5, <1>6

\* One change of the settings.
LEMMA SetKeepsTypes ==
    ASSUME TypeOK, NEW p \in Pools, NEW new \in Settings, Set(p, new), UNCHANGED envVars
    PROVE  TypeOK'
<1>1. settings' \in [Pools -> Settings]
    BY DEF Set, TypeOK
<1> QED
    BY <1>1 DEF Set, TypeOK, envVars

LEMMA SwitchKeepsTypes ==
    ASSUME TypeOK, SwitchStep, UNCHANGED envVars
    PROVE  TypeOK'
<1> PICK p \in SwitchedPools :
            \/ EmergencyLock(p) \/ EmergencyUnlock(p)
            \/ EmergencyLockAddLiquidity(p) \/ EmergencyUnlockAddLiquidity(p)
            \/ EmergencyLockRedeem(p) \/ EmergencyUnlockRedeem(p)
            \/ EmergencyExit(p)
    BY DEF SwitchStep
<1>1. p \in Pools
    BY PoolConstantsAssumption
<1>2. CASE EmergencyExit(p)
    BY <1>1, <1>2 DEF EmergencyExit, TypeOK, envVars
<1>3. CASE ~EmergencyExit(p)
    <2>1. PICK new : Set(p, new) /\ new \in {[settings[p] EXCEPT !.paused = TRUE],
                [settings[p] EXCEPT !.paused = FALSE],
                [settings[p] EXCEPT !.addLiquidityLock = TRUE],
                [settings[p] EXCEPT !.addLiquidityLock = FALSE],
                [settings[p] EXCEPT !.redeemLock = TRUE],
                [settings[p] EXCEPT !.redeemLock = FALSE]}
        BY <1>3 DEF EmergencyLock, EmergencyUnlock, EmergencyLockAddLiquidity,
            EmergencyUnlockAddLiquidity, EmergencyLockRedeem, EmergencyUnlockRedeem
    <2>2. new \in Settings
        <3>1. settings[p] \in Settings
            BY <1>1 DEF TypeOK
        <3> QED
            BY <2>1, <3>1, SettingsChange
    <2> QED
        BY <1>1, <2>1, <2>2, SetKeepsTypes
<1> QED
    BY <1>2, <1>3

LEMMA ParameterKeepsTypes ==
    ASSUME TypeOK, ParameterStep, UNCHANGED envVars
    PROVE  TypeOK'
<1>1. ASSUME NEW p \in Pools, NEW f \in ArbitrageFees, NEW t \in ArbitrageFeePeriods,
             SetArbitrageFee(p, f, t)
      PROVE  TypeOK'
    <2> DEFINE new == [settings[p] EXCEPT !.arbitrageFee = f, !.arbitrageFeePeriod = t]
    <2>1. new \in Settings
        <3>1. settings[p] \in Settings
            BY DEF TypeOK
        <3> QED
            BY <3>1, PoolConstants, SettingsChange
    <2> QED
        BY <1>1, <2>1, SetKeepsTypes DEF SetArbitrageFee
<1>2. ASSUME NEW p \in Pools, NEW r \in ReservePercentages, SetReservePercentage(p, r)
      PROVE  TypeOK'
    <2> DEFINE new == [settings[p] EXCEPT !.reservePercentage = r]
    <2>1. new \in Settings
        <3>1. settings[p] \in Settings
            BY DEF TypeOK
        <3> QED
            BY <3>1, PoolConstants, SettingsChange
    <2> QED
        BY <1>2, <2>1, SetKeepsTypes DEF SetReservePercentage
<1>3. ASSUME NEW p \in Pools, NEW f \in WithdrawFees, SetWithdrawFee(p, f)
      PROVE  TypeOK'
    <2> DEFINE new == [settings[p] EXCEPT !.withdrawFee = f]
    <2>1. new \in Settings
        <3>1. settings[p] \in Settings
            BY DEF TypeOK
        <3> QED
            BY <3>1, PoolConstants, SettingsChange
    <2> QED
        BY <1>3, <2>1, SetKeepsTypes DEF SetWithdrawFee
<1> QED
    BY <1>1, <1>2, <1>3 DEF ParameterStep

LEMMA LendKeepsTypes ==
    ASSUME TypeOK, LendStep, UNCHANGED <<price, readable, deployedValue, now>>
    PROVE  TypeOK'
<1>1. ASSUME NEW p \in Pools, NEW n \in 1..poolBal[p], TransferToLpAccount(Only(p, n)),
             lpBal' = [lpBal EXCEPT ![p] = lpBal[p] + n]
      PROVE  TypeOK'
    <2>1. n \in Nat /\ poolBal[p] \in Nat /\ n <= poolBal[p]
        BY DEF TypeOK
    <2>2. poolBal' = [q \in Pools |-> poolBal[q] - (IF q = p THEN n ELSE 0)]
          /\ UNCHANGED <<apt, userBal, lastDepositTime, settings>>
        BY <1>1 DEF TransferToLpAccount, Only
    <2>3. poolBal' \in [Pools -> Nat] /\ lpBal' \in [Pools -> Nat]
        BY <1>1, <2>1, <2>2 DEF TypeOK
    <2> QED
        BY <2>2, <2>3 DEF TypeOK
<1>2. ASSUME NEW p \in Pools, NEW n \in 1..lpBal[p], ReceiveFromLpAccount(Only(p, n)),
             lpBal' = [lpBal EXCEPT ![p] = lpBal[p] - n]
      PROVE  TypeOK'
    <2>1. n \in Nat /\ lpBal[p] \in Nat /\ n <= lpBal[p]
        BY DEF TypeOK
    <2>2. poolBal' = [q \in Pools |-> poolBal[q] + (IF q = p THEN n ELSE 0)]
          /\ UNCHANGED <<apt, userBal, lastDepositTime, settings>>
        BY <1>2 DEF ReceiveFromLpAccount, Only
    <2>3. poolBal' \in [Pools -> Nat] /\ lpBal' \in [Pools -> Nat]
        BY <1>2, <2>1, <2>2 DEF TypeOK
    <2> QED
        BY <2>2, <2>3 DEF TypeOK
<1> QED
    BY <1>1, <1>2 DEF LendStep

LEMMA UserKeepsTypes ==
    ASSUME TypeOK, UserStep, UNCHANGED envVars
    PROVE  TypeOK'
BY DepositDoes, RedeemDoes DEF UserStep, TypeOK, envVars

LEMMA NextKeepsTypes ==
    ASSUME TypeOK, [Next]_vars
    PROVE  TypeOK'
<1>1. CASE ValuesChange /\ UNCHANGED poolVars
    BY <1>1, PoolConstants DEF ValuesChange, poolVars, TypeOK
<1>2. CASE NewBlock /\ UNCHANGED poolVars
    BY <1>2 DEF NewBlock, poolVars, TypeOK
<1>3. CASE UNCHANGED vars
    BY <1>3 DEF vars, poolVars, envVars, TypeOK
<1> QED
    BY <1>1, <1>2, <1>3, UserKeepsTypes, SwitchKeepsTypes, ParameterKeepsTypes, LendKeepsTypes
    DEF Next, PoolStep

\* addLiquidity, redeem and the transfers of the mAPT: no balance is ever overdrawn.
THEOREM PoolTypeCorrect == Spec => []TypeOK
BY InitPool, NextKeepsTypes, PTL DEF Spec

-----------------------------------------------------------------------------
\* Who changes shares.

LEMMA SupplyIsTotal ==
    ASSUME NEW p
    PROVE  /\ TotalSupply(p) = Total(apt[p], Users)
           /\ TotalSupply(p)' = Total(apt'[p], Users)
<1>1. TotalSupply(p) = Total(apt[p], Users)
    BY DEF TotalSupply, Total
<1>2. TotalSupply(p)' = Total(apt'[p], Users)
    BY DEF TotalSupply, Total, MapThenSumSet, MapThenFoldSet
<1> QED
    BY <1>1, <1>2

\* The supply of the pool whose share changes, and of the others.
LEMMA SupplyChanges ==
    ASSUME TypeOK, NEW p \in Pools, NEW u \in Users, NEW x \in Nat,
           apt' = [apt EXCEPT ![p][u] = x]
    PROVE  /\ TotalSupply(p)' = TotalSupply(p) + (x - apt[p][u])
           /\ \A q \in Pools \ {p} : TotalSupply(q)' = TotalSupply(q)
<1>1. /\ apt'[p] = [apt[p] EXCEPT ![u] = x]
      /\ \A q \in Pools \ {p} : apt'[q] = apt[q]
    BY DEF TypeOK
<1>2. \A q \in Pools : /\ TotalSupply(q) = Total(apt[q], Users)
                       /\ TotalSupply(q)' = Total(apt'[q], Users)
    BY SupplyIsTotal
<1>3. Total(apt'[p], Users) = Total(apt[p], Users) + (apt'[p][u] - apt[p][u])
    <2>1. /\ \A v \in Users : apt[p][v] \in Int /\ apt'[p][v] \in Int
          /\ \A v \in Users \ {u} : apt'[p][v] = apt[p][v]
        BY <1>1 DEF TypeOK
    <2> DEFINE f == apt[p]
               g == apt'[p]
    <2>2. /\ \A v \in Users : f[v] \in Int /\ g[v] \in Int
          /\ \A v \in Users \ {u} : g[v] = f[v]
        BY <2>1
    <2> HIDE DEF f, g
    <2>3. Total(g, Users) = Total(f, Users) + (g[u] - f[u])
        BY <2>2, TotalChanges, PoolConstants
    <2> QED
        BY <2>3 DEF f, g
<1>4. apt'[p][u] = x
    BY <1>1 DEF TypeOK
<1> QED
    BY <1>1, <1>2, <1>3, <1>4

\* Only a deposit and a redemption do.
LEMMA ShareSteps ==
    ASSUME [Next]_vars
    PROVE  \/ UNCHANGED apt
           \/ /\ UNCHANGED envVars
              /\ \E p \in Pools, u \in Users :
                     \/ \E n \in 1..userBal[p][u] : AddLiquidity(p, u, n)
                     \/ \E n \in 1..apt[p][u] : Redeem(p, u, n)
<1>1. CASE UserStep /\ UNCHANGED envVars
    BY <1>1, SMTT(20) DEF UserStep
<1>2. CASE SwitchStep \/ ParameterStep
    BY <1>2 DEF SwitchStep, ParameterStep, EmergencyLock, EmergencyUnlock,
        EmergencyLockAddLiquidity, EmergencyUnlockAddLiquidity, EmergencyLockRedeem,
        EmergencyUnlockRedeem, EmergencyExit, SetArbitrageFee, SetReservePercentage,
        SetWithdrawFee, Set
<1>3. CASE LendStep
    BY <1>3 DEF LendStep, TransferToLpAccount, ReceiveFromLpAccount
<1>4. CASE UNCHANGED poolVars
    BY <1>4 DEF poolVars
<1> QED
    BY <1>1, <1>2, <1>3, <1>4 DEF Next, PoolStep, vars

\* The value and the supply of pools nobody deposits into or redeems from.
WorthKept(p) ==
    /\ 0 < TotalSupply(p) /\ TotalSupply(p) < TotalSupply(p)' =>
           GetPoolTotalValue(p)' * TotalSupply(p) >= GetPoolTotalValue(p) * TotalSupply(p)'
    /\ TotalSupply(p)' < TotalSupply(p) =>
           (GetPoolTotalValue(p)' + 1) * TotalSupply(p)
               > GetPoolTotalValue(p) * TotalSupply(p)'

LEMMA SameSupply ==
    ASSUME TypeOK, NEW p \in Pools, TotalSupply(p)' = TotalSupply(p)
    PROVE  WorthKept(p)
BY PoolNumbers DEF WorthKept

LEMMA DepositKeepsWorth ==
    ASSUME TypeOK, NEW p \in Pools, NEW u \in Users, NEW n \in 1..userBal[p][u],
           AddLiquidity(p, u, n), UNCHANGED envVars
    PROVE  \A q \in Pools : WorthKept(q)
<1> DEFINE minted == CalculateMintAmount(p, n)
           value == ValueOf(n, price[p], Unit[p])
           total == GetPoolTotalValue(p)
           totalAfter == GetPoolTotalValue(p)'
           supply == TotalSupply(p)
<1>1. /\ n \in Nat /\ minted \in Nat
      /\ apt' = [apt EXCEPT ![p][u] = apt[p][u] + minted]
      /\ poolBal' = [poolBal EXCEPT ![p] = poolBal[p] + n]
    BY DepositDoes
<1>2. /\ total \in Nat /\ supply \in Nat /\ price[p] \in Nat /\ Unit[p] \in Nat /\ Unit[p] > 0
      /\ poolBal[p] \in Nat /\ deployedValue[p] \in Nat
    BY PoolNumbers
<1>3. apt[p][u] \in Nat /\ apt[p][u] + minted \in Nat
    BY <1>1 DEF TypeOK
<1>4. TotalSupply(p)' = supply + minted /\ \A q \in Pools \ {p} : TotalSupply(q)' = TotalSupply(q)
    <2>1. TotalSupply(p)' = supply + ((apt[p][u] + minted) - apt[p][u])
        BY <1>1, <1>3, SupplyChanges
    <2> HIDE DEF minted, supply
    <2>2. supply + ((apt[p][u] + minted) - apt[p][u]) = supply + minted
        BY <1>1, <1>2, <1>3
    <2>3. \A q \in Pools \ {p} : TotalSupply(q)' = TotalSupply(q)
        BY <1>1, <1>3, SupplyChanges
    <2> QED
        BY <2>1, <2>2, <2>3
<1>5. value \in Nat
    BY <1>1, <1>2, ValueOfNat
<1>6. totalAfter \in Nat /\ total + value <= totalAfter
    <2> DEFINE a == price[p] * poolBal[p]
               b == price[p] * n
    <2>1. a \in Nat /\ b \in Nat
        BY <1>1, <1>2, ProductAndQuotient
    <2>2. poolBal'[p] = poolBal[p] + n
        BY <1>1 DEF TypeOK
    <2>3. price[p] * (poolBal[p] + n) = a + b
        BY <1>1, <1>2
    <2>4. totalAfter = (a + b) \div Unit[p] + deployedValue[p]
        BY <2>2, <2>3 DEF GetPoolTotalValue, PoolUnderlyerValue, ValueOf, envVars
    <2>5. total = a \div Unit[p] + deployedValue[p] /\ value = b \div Unit[p]
        BY DEF GetPoolTotalValue, PoolUnderlyerValue, ValueOf
    <2> HIDE DEF a, b
    <2>6. a \div Unit[p] + b \div Unit[p] <= (a + b) \div Unit[p]
        BY <1>2, <2>1, QuotientOfSum
    <2>7. a \div Unit[p] \in Nat /\ b \div Unit[p] \in Nat /\ (a + b) \div Unit[p] \in Nat
        BY <1>2, <2>1, ProductAndQuotient
    <2> QED
        BY <1>2, <2>4, <2>5, <2>6, <2>7
<1>7. minted = SharesFor(value, total, supply, Factor)
    BY DEF CalculateMintAmount
<1> HIDE DEF minted, value, total, totalAfter, supply
<1>8. supply > 0 => totalAfter * supply >= total * (supply + minted)
    BY <1>2, <1>5, <1>6, <1>7, PoolConstants, MintKeepsWorth
<1>9. WorthKept(p)
    <2>1. /\ 0 < supply /\ supply < TotalSupply(p)' => totalAfter * supply >= total * TotalSupply(p)'
          /\ ~(TotalSupply(p)' < supply)
        BY <1>1, <1>2, <1>4, <1>8
    <2> QED
        BY <2>1 DEF WorthKept, supply, total, totalAfter
<1> QED
    BY <1>4, <1>9, SameSupply

LEMMA RedeemKeepsWorth ==
    ASSUME TypeOK, NEW p \in Pools, NEW u \in Users, NEW n \in 1..apt[p][u],
           Redeem(p, u, n), UNCHANGED envVars
    PROVE  \A q \in Pools : WorthKept(q)
<1> DEFINE paid == GetUnderlyerAmountWithFee(p, u, n)
           supply == TotalSupply(p)
           reserve == poolBal[p]
           deployed == deployedValue[p]
           cost == price[p]
           unit == Unit[p]
<1>1. /\ n \in Nat /\ n > 0
      /\ apt' = [apt EXCEPT ![p][u] = apt[p][u] - n]
      /\ poolBal' = [poolBal EXCEPT ![p] = poolBal[p] - paid]
    BY RedeemDoes
<1>2. /\ supply \in Nat /\ cost \in Nat /\ unit \in Nat /\ unit > 0
      /\ reserve \in Nat /\ deployed \in Nat
    BY PoolNumbers
<1>3. cost > 0
    BY DEF Redeem
<1>4. /\ supply > 0 /\ paid \in Nat /\ paid <= reserve
      /\ paid <= UnderlyerFor(n, ValueOf(reserve, cost, unit) + deployed, supply, cost, unit)
    BY PaidNat DEF GetUnderlyerAmount, GetPoolTotalValue, PoolUnderlyerValue
<1>5. apt[p][u] \in Nat /\ apt[p][u] - n \in Nat
    BY <1>1 DEF TypeOK
<1>6. TotalSupply(p)' = supply - n /\ \A q \in Pools \ {p} : TotalSupply(q)' = TotalSupply(q)
    <2>1. TotalSupply(p)' = supply + ((apt[p][u] - n) - apt[p][u])
        BY <1>1, <1>5, SupplyChanges
    <2> HIDE DEF supply
    <2>2. supply + ((apt[p][u] - n) - apt[p][u]) = supply - n
        BY <1>1, <1>2, <1>5
    <2>3. \A q \in Pools \ {p} : TotalSupply(q)' = TotalSupply(q)
        BY <1>1, <1>5, SupplyChanges
    <2> QED
        BY <2>1, <2>2, <2>3
<1>7. GetPoolTotalValue(p) = ValueOf(reserve, cost, unit) + deployed
    BY DEF GetPoolTotalValue, PoolUnderlyerValue
<1>8. GetPoolTotalValue(p)' = ValueOf(reserve - paid, cost, unit) + deployed
    <2>1. poolBal'[p] = reserve - paid
        BY <1>1 DEF TypeOK
    <2> QED
        BY <2>1 DEF GetPoolTotalValue, PoolUnderlyerValue, envVars
<1> HIDE DEF paid, supply, reserve, deployed, cost, unit
<1>9. (ValueOf(reserve - paid, cost, unit) + deployed + 1) * supply
          > (ValueOf(reserve, cost, unit) + deployed) * (supply - n)
    BY <1>1, <1>2, <1>3, <1>4, BurnKeepsWorth
<1>10. (GetPoolTotalValue(p)' + 1) * supply > GetPoolTotalValue(p) * TotalSupply(p)'
    BY <1>6, <1>7, <1>8, <1>9
<1>11. ~(supply < TotalSupply(p)')
    BY <1>1, <1>2, <1>6
<1>12. WorthKept(p)
    BY <1>10, <1>11 DEF WorthKept, supply
<1> QED
    BY <1>6, <1>12, SameSupply

\* addLiquidity, redeem: whoever comes and goes, in any order and at any prices, deployed
\* values and fees, the shares that were there and stay keep their worth, to within one
\* unit of value of the whole pool.
THEOREM SharesAlwaysKeepTheirWorth == Spec => SharesKeepTheirWorth
<1>1. ASSUME TypeOK, [Next]_vars
      PROVE  \A p \in Pools : WorthKept(p)
    <2>1. CASE UNCHANGED apt
        <3>1. \A p \in Pools : TotalSupply(p)' = TotalSupply(p)
            BY <2>1, SupplyIsTotal
        <3> QED
            BY <1>1, <3>1, SameSupply
    <2>2. CASE ~UNCHANGED apt
        BY <1>1, <2>2, ShareSteps, DepositKeepsWorth, RedeemKeepsWorth
    <2> QED
        BY <2>1, <2>2
<1>2. ASSUME TypeOK, [Next]_vars
      PROVE  [\A p \in Pools : WorthKept(p)]_vars
    BY <1>1, <1>2
<1> QED
    BY InitPool, NextKeepsTypes, <1>2, PTL DEF Spec, SharesKeepTheirWorth, WorthKept

-----------------------------------------------------------------------------
\* redeem: the fee of an early redemption stays in the pool, whatever else is in between.
THEOREM ArbitrageFeeAlwaysStays == Spec => ArbitrageFeeStays
<1> DEFINE amount(p, u) == GetUnderlyerAmount(p, apt[p][u] - apt'[p][u])
           Stays(p, u) ==
               apt'[p][u] < apt[p][u]
               /\ now < lastDepositTime[p][u] + settings[p].arbitrageFeePeriod
               => 100 * (userBal'[p][u] - userBal[p][u])
                      < (100 - settings[p].arbitrageFee) * amount(p, u) + 100
<1>1. ASSUME TypeOK, NEW p \in Pools, NEW u \in Users, NEW n \in 1..apt[p][u], Redeem(p, u, n),
             now < lastDepositTime[p][u] + settings[p].arbitrageFeePeriod
      PROVE  100 * (userBal'[p][u] - userBal[p][u])
                 < (100 - settings[p].arbitrageFee) * GetUnderlyerAmount(p, n) + 100
    <2> DEFINE full == GetUnderlyerAmount(p, n)
               fee == settings[p].arbitrageFee
               fee1 == settings[p].withdrawFee
               other == (full * fee1) \div WithdrawFeeDenominator
               paid == GetUnderlyerAmountWithFee(p, u, n)
    <2>1. full \in Nat /\ fee \in Nat /\ fee1 \in Nat /\ paid \in Nat
        BY <1>1, PaidNat DEF TypeOK, Settings
    <2>2. IsEarlyRedeem(p, u)
        BY <1>1 DEF TypeOK, Settings, IsEarlyRedeem
    <2>3. paid = full - (other + (full * fee) \div 100)
        BY <2>2 DEF GetUnderlyerAmountWithFee, Fees
    <2>4. userBal'[p][u] - userBal[p][u] = paid
        <3>1. userBal' = [userBal EXCEPT ![p][u] = userBal[p][u] + paid]
            BY <1>1, RedeemDoes
        <3>2. userBal[p][u] \in Nat /\ userBal'[p][u] = userBal[p][u] + paid
            BY <1>1, <3>1 DEF TypeOK
        <3> HIDE DEF paid
        <3> QED
            BY <2>1, <3>2
    <2> HIDE DEF full, fee, fee1, paid
    <2>5. other \in Nat
        <3>1. full * fee1 \in Nat
            BY <2>1, ProductAndQuotient
        <3> QED
            BY <3>1, PoolConstants, ProductAndQuotient
    <2> HIDE DEF other
    <2>6. 100 * (full - (other + (full * fee) \div 100)) < (100 - fee) * full + 100
        BY <2>1, <2>5, FeeLeft
    <2> QED
        BY <2>3, <2>4, <2>6 DEF full, fee
<1>2. ASSUME TypeOK, [Next]_vars, NEW p \in Pools, NEW u \in Users
      PROVE  Stays(p, u)
    <2> SUFFICES ASSUME apt'[p][u] < apt[p][u],
                        now < lastDepositTime[p][u] + settings[p].arbitrageFeePeriod
                 PROVE  100 * (userBal'[p][u] - userBal[p][u])
                            < (100 - settings[p].arbitrageFee) * amount(p, u) + 100
        OBVIOUS
    <2>1. ~UNCHANGED apt
        BY <1>2 DEF TypeOK
    <2>2. PICK q \in Pools, v \in Users :
              \/ \E n \in 1..userBal[q][v] : AddLiquidity(q, v, n)
              \/ \E n \in 1..apt[q][v] : Redeem(q, v, n)
        BY <1>2, <2>1, ShareSteps
    <2>3. ASSUME NEW n \in 1..userBal[q][v], AddLiquidity(q, v, n) PROVE FALSE
        <3>1. /\ CalculateMintAmount(q, n) \in Nat
              /\ apt' = [apt EXCEPT ![q][v] = apt[q][v] + CalculateMintAmount(q, n)]
            BY <1>2, <2>3, DepositDoes
        <3> QED
            BY <1>2, <3>1 DEF TypeOK
    <2>4. PICK n \in 1..apt[q][v] : Redeem(q, v, n)
        BY <2>2, <2>3
    <2>5. n \in Nat /\ apt' = [apt EXCEPT ![q][v] = apt[q][v] - n]
        BY <1>2, <2>4, RedeemDoes
    <2>6. q = p /\ v = u /\ apt[p][u] - apt'[p][u] = n
        BY <1>2, <2>5 DEF TypeOK
    <2> QED
        BY <1>1, <1>2, <2>4, <2>6
<1>3. ASSUME TypeOK, [Next]_vars
      PROVE  [\A p \in Pools, u \in Users : Stays(p, u)]_vars
    BY <1>2, <1>3
<1> QED
    BY InitPool, NextKeepsTypes, <1>3, PTL DEF Spec, ArbitrageFeeStays

-----------------------------------------------------------------------------
\* addLiquidity and redeem after each other: nothing is gained but one unit of value.
THEOREM RoundTripsNeverPay == Spec => []NoRoundTripProfit
<1>1. ASSUME TypeOK PROVE NoRoundTripProfit
    <2> SUFFICES ASSUME NEW p \in Pools, price[p] > 0,
                        TotalSupply(p) > 0 \/ GetPoolTotalValue(p) = 0,
                        NEW n \in 1..Funds
                 PROVE  RoundTripValue(p, n) <= ValueOf(n, price[p], Unit[p]) + 1
        BY DEF NoRoundTripProfit
    <2> DEFINE minted == CalculateMintAmount(p, n)
               value == ValueOf(n, price[p], Unit[p])
               total == GetPoolTotalValue(p)
               supply == TotalSupply(p)
               totalAfter == ValueOf(poolBal[p] + n, price[p], Unit[p]) + deployedValue[p]
    <2>1. n \in Nat
        BY PoolConstants
    <2>2. /\ total \in Nat /\ supply \in Nat /\ price[p] \in Nat /\ Unit[p] \in Nat /\ Unit[p] > 0
          /\ poolBal[p] \in Nat /\ deployedValue[p] \in Nat
        BY <1>1, PoolNumbers
    <2>3. minted \in Nat /\ value \in Nat
        BY <1>1, <2>1, <2>2, MintedNat, ValueOfNat
    <2>4. totalAfter \in Nat /\ totalAfter <= total + value + 1
        <3> DEFINE a == price[p] * poolBal[p]
                   b == price[p] * n
        <3>1. a \in Nat /\ b \in Nat
            BY <2>1, <2>2, ProductAndQuotient
        <3>2. price[p] * (poolBal[p] + n) = a + b
            BY <2>1, <2>2
        <3>3. /\ totalAfter = (a + b) \div Unit[p] + deployedValue[p]
              /\ total = a \div Unit[p] + deployedValue[p] /\ value = b \div Unit[p]
            BY <3>2 DEF GetPoolTotalValue, PoolUnderlyerValue, ValueOf
        <3> HIDE DEF a, b, totalAfter, total, value
        <3>4. (a + b) \div Unit[p] <= a \div Unit[p] + b \div Unit[p] + 1
            BY <2>2, <3>1, QuotientOfSum
        <3>5. a \div Unit[p] \in Nat /\ b \div Unit[p] \in Nat /\ (a + b) \div Unit[p] \in Nat
            BY <2>2, <3>1, ProductAndQuotient
        <3> QED
            BY <2>2, <3>3, <3>4, <3>5
    <2>5. minted = SharesFor(value, total, supply, Factor)
        BY DEF CalculateMintAmount
    <2>6. RoundTripValue(p, n) =
              IF minted = 0 THEN 0
              ELSE ValueOf(UnderlyerFor(minted, totalAfter, supply + minted, price[p], Unit[p]),
                           price[p], Unit[p])
        BY DEF RoundTripValue
    <2> HIDE DEF minted, value, total, supply, totalAfter
    <2>7. supply > 0 \/ total = 0
        BY DEF supply, total
    <2>8. minted > 0 =>
              ValueOf(UnderlyerFor(minted, totalAfter, supply + minted, price[p], Unit[p]),
                      price[p], Unit[p]) <= value + 1
        BY <2>2, <2>3, <2>4, <2>5, <2>7, PoolConstants, RoundTripGainsNothing
    <2> QED
        BY <2>3, <2>6, <2>8 DEF value
<1> QED
    BY <1>1, PoolTypeCorrect, PTL

\* _getReserveTopUpValue: whatever the values, the amount found solves the equation the
\* comment in the code asks for.
THEOREM TopUpAlwaysMeetsEquation == Spec => []TopUpMeetsEquation
<1>1. ASSUME TypeOK PROVE TopUpMeetsEquation
    <2> SUFFICES ASSUME NEW p \in Pools
                 PROVE  LET percentage == settings[p].reservePercentage
                            topUp == TopUpValue(deployedValue[p], PoolUnderlyerValue(p), percentage)
                            miss == 100 * (PoolUnderlyerValue(p) + topUp)
                                    - percentage * (deployedValue[p] - topUp)
                        IN  -(100 + percentage) < miss /\ miss < 100 + percentage
        BY DEF TopUpMeetsEquation
    <2>1. settings[p].reservePercentage \in Nat
        BY <1>1 DEF TypeOK, Settings
    <2> QED
        BY <1>1, <2>1, PoolNumbers, TopUpSolves
<1> QED
    BY <1>1, PoolTypeCorrect, PTL
=============================================================================
