-------------------------- MODULE IndexToken_proofs --------------------------
(***************************************************************************)
(* The arithmetic of the index token, for any amounts, prices, fees, units *)
(* and users and in any order of steps: whichever of the four ways in and  *)
(* out is taken, shares keep their worth, naming the outcome is never      *)
(* cheaper than naming the input, and an early exit leaves its fee.        *)
(*                                                                         *)
(* Both conversions round the same fraction, `worth' of the value behind   *)
(* all shares over `cost' of as many assets: ConvertToShares rounds        *)
(* assets * cost / worth, ConvertToAssets shares * worth / cost.  What is  *)
(* rounded is only known to be between two products, and the proofs        *)
(* compare these products.                                                 *)
(***************************************************************************)
EXTENDS IndexToken, Sums_proofs

-----------------------------------------------------------------------------
\* Arithmetic.

\* Two divisions that round down, one after the other, round down once.
LEMMA TwoQuotients ==
    ASSUME NEW n \in Nat, NEW b \in Nat, b > 0, NEW c \in Nat, c > 0
    PROVE  LET q == (n \div b) \div c
           IN  q \in Nat /\ (b * c) * q <= n /\ n < (b * c) * (q + 1)
<1> DEFINE m == n \div b
           q == m \div c
<1>1. m \in Nat /\ b * m <= n /\ n < b * m + b
    BY ProductAndQuotient, Quotient
<1> HIDE DEF m
<1>2. q \in Nat /\ c * q <= m /\ m < c * q + c
    BY <1>1, ProductAndQuotient, Quotient
<1> HIDE DEF q
<1>3. c * q \in Nat /\ c * (q + 1) = c * q + c
    BY <1>2
<1>4. b * (c * q) <= b * m
    BY <1>1, <1>2, <1>3, ProductsOrder
<1>5. b * (m + 1) <= b * (c * (q + 1))
    BY <1>1, <1>2, <1>3, ProductsOrder
<1>6. b * (c * q) = (b * c) * q /\ b * (c * (q + 1)) = (b * c) * (q + 1)
      /\ b * (m + 1) = b * m + b
    BY <1>1, <1>2
<1>7. /\ b * m \in Int /\ (b * c) * q \in Int /\ (b * c) * (q + 1) \in Int
    BY <1>1, <1>2
<1>8. (b * c) * q <= n /\ n < (b * c) * (q + 1)
    BY <1>1, <1>4, <1>5, <1>6, <1>7
<1> QED
    BY <1>2, <1>8 DEF m, q

\* What shares are worth, and what as many assets cost: the two sides of a conversion.
worth == GetPoolTotalValue * AssetUnit
cost == price * TotalSupply

Numbers ==
    /\ TotalSupply \in Nat /\ GetPoolTotalValue \in Nat /\ price \in Nat
    /\ AssetUnit \in Nat \ {0} /\ ShareUnit \in Nat \ {0}

\* convertToShares, once there are shares.
LEMMA ConvertToSharesBounds ==
    ASSUME Numbers, NEW assets \in Nat, TotalSupply > 0, GetPoolTotalValue > 0
    PROVE  LET shares == ConvertToShares(assets)
           IN  /\ shares \in Nat
               /\ worth * shares <= assets * cost /\ assets * cost < worth * (shares + 1)
<1> DEFINE supply == TotalSupply
           value == GetPoolTotalValue
<1>1. supply \in Nat /\ value \in Nat /\ value > 0 /\ price \in Nat /\ AssetUnit \in Nat
      /\ AssetUnit > 0
    BY DEF Numbers
<1> DEFINE product == assets * supply * price
           shares == (product \div value) \div AssetUnit
<1>2. ConvertToShares(assets) = shares
    BY DEF ConvertToShares
<1>3. worth = value * AssetUnit /\ cost = price * supply
    BY DEF worth, cost
<1> HIDE DEF supply, value
<1>4. product \in Nat /\ product = assets * (price * supply)
    BY <1>1
<1> HIDE DEF product
<1>5. shares \in Nat /\ (value * AssetUnit) * shares <= product
      /\ product < (value * AssetUnit) * (shares + 1)
    BY <1>1, <1>4, TwoQuotients
<1> QED
    BY <1>2, <1>3, <1>4, <1>5

\* convertToAssets, once there are shares.
LEMMA ConvertToAssetsBounds ==
    ASSUME Numbers, NEW shares \in Nat, TotalSupply > 0, price > 0
    PROVE  LET assets == ConvertToAssets(shares)
           IN  /\ assets \in Nat
               /\ cost * assets <= shares * worth /\ shares * worth < cost * (assets + 1)
<1> DEFINE supply == TotalSupply
           value == GetPoolTotalValue
<1>1. supply \in Nat /\ supply > 0 /\ value \in Nat /\ price \in Nat /\ AssetUnit \in Nat
    BY DEF Numbers
<1> DEFINE product == shares * value * AssetUnit
           assets == (product \div price) \div supply
<1>2. ConvertToAssets(shares) = assets
    BY DEF ConvertToAssets
<1>3. worth = value * AssetUnit /\ cost = price * supply
    BY DEF worth, cost
<1> HIDE DEF supply, value
<1>4. product \in Nat /\ product = shares * (value * AssetUnit)
    BY <1>1
<1> HIDE DEF product
<1>5. assets \in Nat /\ (price * supply) * assets <= product
      /\ product < (price * supply) * (assets + 1)
    BY <1>1, <1>4, TwoQuotients
<1> QED
    BY <1>2, <1>3, <1>4, <1>5

\* previewMint in assets: what the shares are worth is less than they cost.
LEMMA MintCosts ==
    ASSUME Numbers, NEW shares \in Nat, TotalSupply > 0, price > 0
    PROVE  PreviewMint(shares) \in Nat /\ shares * worth < PreviewMint(shares) * cost
<1> DEFINE assets == ConvertToAssets(shares)
<1>1. assets \in Nat /\ shares * worth < cost * (assets + 1)
    BY ConvertToAssetsBounds
<1>2. PreviewMint(shares) = assets + 1
    BY DEF PreviewMint
<1> HIDE DEF assets
<1>3. cost \in Nat
    BY DEF Numbers, cost
<1> QED
    BY <1>1, <1>2, <1>3

-----------------------------------------------------------------------------
\* Fees.

\* What is taken off what is paid, for a percentage that may be of an arbitrage or none.
ArbFee(owner) == IF HasArbFee(owner) THEN settings.arbitrageFee ELSE 0

FeesTyped ==
    /\ settings.withdrawFee \in Nat /\ settings.arbitrageFee \in Nat
    /\ WithdrawFeeDenominator \in Nat \ {0}

\* _getAssetAmountAfterFees: fees round down, so that at least the fraction `Left' stays,
\* and at most what the arbitrage fee alone leaves, to within one asset.
LEMMA AfterFeesBounds ==
    ASSUME FeesTyped, NEW assets \in Nat, NEW owner
    PROVE  /\ AfterFees(assets, owner) \in Int /\ AfterFees(assets, owner) <= assets
           /\ Left(owner) \in Int /\ Whole \in Nat /\ Whole > 0 /\ Left(owner) <= Whole
           /\ Whole * AfterFees(assets, owner) >= Left(owner) * assets
           /\ 100 * AfterFees(assets, owner) < (100 - ArbFee(owner)) * assets + 100
           /\ Left(owner) <= WithdrawFeeDenominator * (100 - ArbFee(owner))
<1> DEFINE fee == settings.withdrawFee
           arb == ArbFee(owner)
           unit == WithdrawFeeDenominator
           off == (assets * fee) \div unit
           arbOff == (assets * arb) \div 100
<1>1. fee \in Nat /\ arb \in Nat /\ unit \in Nat /\ unit > 0
    BY DEF FeesTyped, ArbFee
<1>2. assets * fee \in Nat /\ assets * arb \in Nat
    BY <1>1
<1>3. off \in Nat /\ unit * off <= assets * fee
    <2> DEFINE product == assets * fee
    <2>1. product \in Nat
        BY <1>2
    <2> HIDE DEF product, unit
    <2>2. product \div unit \in Nat /\ unit * (product \div unit) <= product
        BY <1>1, <2>1, ProductAndQuotient, Quotient
    <2> QED
        BY <2>2 DEF product
<1>4. arbOff \in Nat /\ 100 * arbOff <= assets * arb /\ assets * arb < 100 * arbOff + 100
    <2> DEFINE product == assets * arb
    <2>1. product \in Nat
        BY <1>2
    <2> HIDE DEF product
    <2> QED
        BY <2>1, ProductAndQuotient, Quotient DEF product
<1>5. AfterFees(assets, owner) = assets - off - arbOff
    <2>1. CASE HasArbFee(owner)
        BY <2>1 DEF AfterFees, ArbFee
    <2>2. CASE ~HasArbFee(owner)
        <3>1. arb = 0 /\ AfterFees(assets, owner) = assets - off - 0
            BY <2>2 DEF AfterFees, ArbFee
        <3>2. arbOff = 0
            BY <1>4, <3>1
        <3> QED
            BY <3>1, <3>2
    <2> QED
        BY <2>1, <2>2
<1>6. Left(owner) = unit * 100 - fee * 100 - arb * unit /\ Whole = unit * 100
    <2>1. arb * unit = IF HasArbFee(owner) THEN settings.arbitrageFee * unit ELSE 0
        BY <1>1 DEF ArbFee
    <2> QED
        BY <2>1 DEF Left, Whole
<1> DEFINE after == assets - off - arbOff
           left == unit * 100 - fee * 100 - arb * unit
<1> HIDE DEF fee, arb, unit, off, arbOff
<1>7. after \in Int /\ after <= assets
    BY <1>3, <1>4
<1>8. left \in Int /\ unit * 100 \in Nat /\ unit * 100 > 0 /\ left <= unit * 100
    <2>1. fee * 100 \in Nat /\ arb * unit \in Nat
        BY <1>1
    <2> QED
        BY <1>1, <2>1
<1>9. unit * 100 * after >= left * assets
    <2>1. unit * 100 * after = unit * 100 * assets - 100 * (unit * off) - unit * (100 * arbOff)
        BY <1>1, <1>3, <1>4
    <2>2. left * assets = unit * 100 * assets - 100 * (assets * fee) - unit * (assets * arb)
        BY <1>1
    <2>3. unit * (100 * arbOff) <= unit * (assets * arb)
        BY <1>1, <1>2, <1>4, ProductsOrder
    <2>4. /\ unit * (100 * arbOff) \in Int /\ unit * (assets * arb) \in Int
          /\ unit * off \in Int /\ unit * 100 * assets \in Int
        BY <1>1, <1>2, <1>3, <1>4
    <2> QED
        BY <1>2, <1>3, <2>1, <2>2, <2>3, <2>4
<1>10. 100 * after < (100 - arb) * assets + 100
    <2>1. (100 - arb) * assets = 100 * assets - assets * arb
        BY <1>1
    <2> QED
        BY <1>2, <1>3, <1>4, <2>1
<1>11. left <= unit * (100 - arb)
    <2>1. unit * (100 - arb) = unit * 100 - arb * unit
        BY <1>1
    <2> QED
        BY <1>1, <2>1
<1> QED
    BY <1>5, <1>6, <1>7, <1>8, <1>9, <1>10, <1>11 DEF unit, arb

\* _getAssetAmountBeforeFees
LEMMA BeforeFeesBounds ==
    ASSUME FeesTyped, NEW assets \in Nat, NEW owner, Left(owner) > 0
    PROVE  /\ BeforeFees(assets, owner) \in Nat /\ assets <= BeforeFees(assets, owner)
           /\ assets * Whole < Left(owner) * (BeforeFees(assets, owner) + 1)
<1> DEFINE left == Left(owner)
           whole == Whole
           product == assets * whole
           before == product \div left
<1>1. left \in Nat /\ left > 0 /\ whole \in Nat /\ left <= whole
    BY AfterFeesBounds
<1>2. BeforeFees(assets, owner) = before
    BY DEF BeforeFees
<1> HIDE DEF left, whole
<1>3. product \in Nat /\ assets * left <= product
    BY <1>1, ProductsOrder
<1> HIDE DEF product
<1>4. before \in Nat /\ product < left * before + left
    BY <1>1, <1>3, ProductAndQuotient, Quotient
<1>5. left * assets <= product
    BY <1>1, <1>3
<1>6. assets <= before
    BY <1>1, <1>3, <1>5, QuotientBounds
<1> HIDE DEF before
<1>7. product < left * (before + 1)
    BY <1>1, <1>4
<1> QED
    BY <1>2, <1>4, <1>6, <1>7 DEF product, left, whole

\* previewWithdraw: the shares taken are worth more than the assets before fees.
LEMMA WithdrawCosts ==
    ASSUME Numbers, FeesTyped, NEW assets \in Nat, NEW owner, Left(owner) > 0,
           TotalSupply > 0, GetPoolTotalValue > 0
    PROVE  /\ PreviewWithdraw(assets, owner) \in Nat /\ PreviewWithdraw(assets, owner) > 0
           /\ BeforeFees(assets, owner) * cost < worth * PreviewWithdraw(assets, owner)
<1> DEFINE before == BeforeFees(assets, owner)
           shares == ConvertToShares(before)
<1>1. before \in Nat
    BY BeforeFeesBounds
<1>2. PreviewWithdraw(assets, owner) = shares + 1
    BY DEF PreviewWithdraw
<1> HIDE DEF before
<1>3. shares \in Nat /\ before * cost < worth * (shares + 1)
    BY <1>1, ConvertToSharesBounds
<1> HIDE DEF shares
<1> QED
    BY <1>2, <1>3 DEF before

\* The assets redeem would convert these shares to, before fees, are no fewer.
LEMMA WithdrawnAreRedeemable ==
    ASSUME Numbers, FeesTyped, NEW assets \in Nat, NEW owner, Left(owner) > 0,
           TotalSupply > 0, GetPoolTotalValue > 0, price > 0
    PROVE  /\ ConvertToAssets(PreviewWithdraw(assets, owner)) \in Nat
           /\ BeforeFees(assets, owner) <= ConvertToAssets(PreviewWithdraw(assets, owner))
<1> DEFINE before == BeforeFees(assets, owner)
           shares == PreviewWithdraw(assets, owner)
           paid == ConvertToAssets(shares)
<1>1. before \in Nat /\ shares \in Nat /\ before * cost < worth * shares
    BY BeforeFeesBounds, WithdrawCosts
<1> HIDE DEF before, shares
<1>2. paid \in Nat /\ shares * worth < cost * (paid + 1)
    BY <1>1, ConvertToAssetsBounds
<1> HIDE DEF paid
<1>3. cost \in Nat /\ cost > 0 /\ worth \in Nat
    BY DEF Numbers, cost, worth
<1>4. cost * before < cost * (paid + 1)
    <2>1. before * cost \in Int /\ shares * worth \in Int /\ cost * (paid + 1) \in Int
        BY <1>1, <1>2, <1>3
    <2>2. cost * before = before * cost /\ worth * shares = shares * worth
        BY <1>1, <1>3
    <2> QED
        BY <1>1, <1>2, <2>1, <2>2
<1>5. before < paid + 1
    BY <1>1, <1>2, <1>3, <1>4, Cancel
<1> QED
    BY <1>1, <1>2, <1>5 DEF before, shares, paid

\* What is left of these after fees covers what was asked for.
LEMMA WithdrawnAreCovered ==
    ASSUME FeesTyped, NEW assets \in Nat, NEW owner, Left(owner) > 0, NEW paid \in Nat,
           BeforeFees(assets, owner) <= paid
    PROVE  AfterFees(paid, owner) >= assets
<1> DEFINE left == Left(owner)
           whole == Whole
           before == BeforeFees(assets, owner)
           after == AfterFees(paid, owner)
<1>1. /\ after \in Int /\ whole * after >= left * paid
      /\ left \in Nat /\ whole \in Nat /\ whole > 0 /\ left <= whole
    BY AfterFeesBounds
<1>2. before \in Nat /\ assets * whole < left * (before + 1)
    BY BeforeFeesBounds
<1> HIDE DEF left, whole, before, after
<1>3. left * before <= left * paid
    BY <1>1, <1>2, ProductsOrder DEF before
<1>4. left * (before + 1) = left * before + left /\ whole * (after + 1) = whole * after + whole
    BY <1>1, <1>2
<1>5. /\ left * before \in Int /\ left * paid \in Int /\ whole * after \in Int
      /\ assets * whole \in Int
    BY <1>1, <1>2
<1>6. whole * assets < whole * (after + 1)
    <2>1. whole * assets = assets * whole
        BY <1>1
    <2> QED
        BY <1>1, <1>2, <1>3, <1>4, <1>5, <2>1
<1>7. assets < after + 1
    BY <1>1, <1>6, Cancel
<1> QED
    BY <1>1, <1>7 DEF after

-----------------------------------------------------------------------------
\* Naming the outcome.

\* deposit gives at most the shares named to mint for what mint asks.
LEMMA MintNeverCheaper ==
    ASSUME Numbers, NEW shares \in Nat, ConvertibleToShares, ConvertibleToAssets
    PROVE  ConvertToShares(PreviewMint(shares)) >= shares
<1>1. CASE TotalSupply = 0
    <2> DEFINE product == shares * AssetUnit
               assets == product \div ShareUnit + 1
               scaled == assets * ShareUnit
               given == scaled \div AssetUnit
    <2>1. product \in Nat /\ ShareUnit \in Nat /\ ShareUnit > 0 /\ AssetUnit \in Nat
          /\ AssetUnit > 0
        BY DEF Numbers
    <2>2. PreviewMint(shares) = assets
        BY <1>1 DEF PreviewMint, ConvertToAssets
    <2>3. ConvertToShares(assets) = given
        BY <1>1 DEF ConvertToShares
    <2>4. AssetUnit * shares = product
        BY <2>1
    <2> HIDE DEF product
    <2>5. product \div ShareUnit \in Nat
          /\ product < ShareUnit * (product \div ShareUnit) + ShareUnit
        BY <2>1, ProductAndQuotient, Quotient
    <2>6. assets \in Nat /\ scaled = ShareUnit * (product \div ShareUnit) + ShareUnit
        BY <2>1, <2>5
    <2> HIDE DEF assets
    <2>7. scaled \in Int /\ product <= scaled
        BY <2>1, <2>5, <2>6
    <2> HIDE DEF scaled
    <2>8. shares <= scaled \div AssetUnit
        BY <2>1, <2>4, <2>7, QuotientBounds
    <2>9. given \in Int
        BY <2>1, <2>7, Quotient
    <2> QED
        BY <2>2, <2>3, <2>8, <2>9
<1>2. CASE TotalSupply # 0
    <2> DEFINE assets == PreviewMint(shares)
               given == ConvertToShares(assets)
    <2>1. TotalSupply > 0 /\ GetPoolTotalValue > 0 /\ price > 0
        BY <1>2 DEF Numbers, ConvertibleToShares, ConvertibleToAssets
    <2>2. assets \in Nat /\ shares * worth < assets * cost
        BY <2>1, MintCosts
    <2> HIDE DEF assets
    <2>3. given \in Nat /\ assets * cost < worth * (given + 1)
        BY <2>1, <2>2, ConvertToSharesBounds
    <2> HIDE DEF given
    <2>4. worth \in Nat /\ worth > 0 /\ cost \in Nat
        BY <2>1 DEF Numbers, worth, cost
    <2>5. worth * shares < worth * (given + 1)
        <3>1. worth * shares = shares * worth /\ worth * shares \in Int
              /\ assets * cost \in Int /\ worth * (given + 1) \in Int
            BY <2>2, <2>3, <2>4
        <3> QED
            BY <2>2, <2>3, <3>1
    <2>6. shares < given + 1
        BY <2>3, <2>4, <2>5, Cancel
    <2> QED
        BY <2>3, <2>6 DEF given, assets
<1> QED
    BY <1>1, <1>2

\* redeem pays at least the assets named to withdraw for the shares withdraw takes.
LEMMA WithdrawNeverCheaper ==
    ASSUME Numbers, FeesTyped, NEW assets \in Nat, NEW owner, Left(owner) > 0,
           TotalSupply > 0, ConvertibleToShares, ConvertibleToAssets
    PROVE  PreviewRedeem(PreviewWithdraw(assets, owner), owner) >= assets
<1>1. GetPoolTotalValue > 0 /\ price > 0
    BY DEF ConvertibleToShares, ConvertibleToAssets, Numbers
<1> DEFINE paid == ConvertToAssets(PreviewWithdraw(assets, owner))
<1>2. paid \in Nat /\ BeforeFees(assets, owner) <= paid
    BY <1>1, WithdrawnAreRedeemable
<1>3. PreviewRedeem(PreviewWithdraw(assets, owner), owner) = AfterFees(paid, owner)
    BY DEF PreviewRedeem
<1> HIDE DEF paid
<1> QED
    BY <1>2, <1>3, WithdrawnAreCovered

-----------------------------------------------------------------------------
\* Types.

\* The numbers conversions and fees are computed from.
LEMMA TypedNumbers ==
    ASSUME TypeOK
    PROVE  Numbers /\ FeesTyped /\ worth \in Nat /\ cost \in Nat
<1>1. TotalSupply \in Nat
    BY IndexConstantsAssumption, TotalOfNaturals DEF TypeOK, TotalSupply
<1>2. GetPoolTotalValue \in Nat
    <2>1. price * reserve \in Nat /\ AssetUnit \in Nat /\ AssetUnit > 0
        BY IndexConstantsAssumption, ProductAndQuotient DEF TypeOK
    <2>2. ValueOf(reserve, price, AssetUnit) \in Nat
        BY <2>1, ProductAndQuotient DEF ValueOf
    <2> QED
        BY <2>2 DEF TypeOK, GetPoolTotalValue
<1>3. Numbers
    BY <1>1, <1>2, IndexConstantsAssumption DEF Numbers, TypeOK
<1>4. FeesTyped
    BY IndexConstantsAssumption DEF FeesTyped, TypeOK, Settings
<1>5. worth \in Nat /\ cost \in Nat
    BY <1>3, ProductAndQuotient DEF Numbers, worth, cost
<1> QED
    BY <1>3, <1>4, <1>5

\* convertToShares and convertToAssets give natural numbers whenever they do not revert.
LEMMA ConversionsTyped ==
    ASSUME TypeOK, NEW amount \in Nat
    PROVE  /\ ConvertibleToShares => ConvertToShares(amount) \in Nat
           /\ ConvertibleToAssets => ConvertToAssets(amount) \in Nat
<1>1. Numbers
    BY TypedNumbers
<1>2. CASE TotalSupply = 0
    <2>1. amount * ShareUnit \in Nat /\ amount * AssetUnit \in Nat
        BY <1>1, ProductAndQuotient DEF Numbers
    <2> QED
        BY <1>1, <1>2, <2>1, ProductAndQuotient
        DEF ConvertToShares, ConvertToAssets, Numbers
<1>3. CASE TotalSupply # 0
    BY <1>1, <1>3, ConvertToSharesBounds, ConvertToAssetsBounds
    DEF ConvertibleToShares, ConvertibleToAssets, Numbers
<1> QED
    BY <1>2, <1>3

\* initialize
LEMMA InitTyped == ASSUME Init PROVE TypeOK
<1>1. /\ Min(ArbitrageFees) \in Nat /\ Min(ArbitrageFeePeriods) \in Nat
      /\ Min(ReservePercentages) \in Nat /\ Min(WithdrawFees) \in Nat
    BY IndexConstantsAssumption, LeastOfNaturals
<1> QED
    BY <1>1, IndexConstantsAssumption DEF Init, TypeOK, Settings

\* When one balance changes, the supply changes by as much.
LEMMA SupplyChanges ==
    ASSUME TypeOK, TypeOK', NEW owner \in Users,
           \A u \in Users \ {owner} : balanceOf'[u] = balanceOf[u]
    PROVE  /\ TotalSupply \in Nat
           /\ TotalSupply' = TotalSupply + (balanceOf'[owner] - balanceOf[owner])
<1> DEFINE f == balanceOf
           g == balanceOf'
<1>1. TotalSupply' = Total(g, Users) /\ TotalSupply = Total(f, Users)
    BY DEF TotalSupply, Total, MapThenSumSet, MapThenFoldSet
<1>2. /\ \A u \in Users : f[u] \in Int /\ g[u] \in Int
      /\ \A u \in Users \ {owner} : g[u] = f[u]
    BY DEF TypeOK
<1>3. IsFiniteSet(Users)
    BY IndexConstantsAssumption
<1> HIDE DEF f, g
<1>4. Total(g, Users) = Total(f, Users) + (g[owner] - f[owner])
    BY <1>2, <1>3, TotalChanges
<1> QED
    BY <1>1, <1>4, TypedNumbers DEF f, g, Numbers

\* What is given is counted.
LEMMA GiveTyped ==
    ASSUME TypeOK, NEW caller \in Users, NEW receiver \in Users,
           NEW assets \in Nat, NEW shares \in Nat, Give(caller, receiver, assets, shares),
           UNCHANGED envVars
    PROVE  TypeOK' /\ TotalSupply' = TotalSupply + shares
<1>1. TypeOK'
    BY DEF Give, TypeOK, envVars
<1>2. /\ balanceOf'[receiver] = balanceOf[receiver] + shares
      /\ balanceOf[receiver] \in Nat
      /\ \A u \in Users \ {receiver} : balanceOf'[u] = balanceOf[u]
    BY DEF Give, TypeOK
<1> QED
    BY <1>1, <1>2, SupplyChanges

\* What is taken is counted.
LEMMA TakeTyped ==
    ASSUME TypeOK, NEW caller \in Users, NEW receiver \in Users, NEW owner \in Users,
           NEW assets \in Nat, NEW shares \in Nat, Take(caller, receiver, owner, assets, shares),
           UNCHANGED envVars
    PROVE  TypeOK' /\ TotalSupply' = TotalSupply - shares
<1>1. shares <= balanceOf[owner] /\ assets <= reserve /\ balanceOf[owner] \in Nat
    BY DEF Take, ReserveCovers, TypeOK
<1>2. allowance' \in [Users -> [Users -> Nat \cup {Unlimited}]]
    <2>1. allowance[owner][caller] \in Nat \cup {Unlimited}
        BY DEF TypeOK
    <2>2. SpendAllowance(owner, caller, shares)
        BY DEF Take
    <2>3. CASE UNCHANGED allowance
        BY <2>3 DEF TypeOK
    <2>4. CASE /\ allowance[owner][caller] # Unlimited
               /\ shares <= allowance[owner][caller]
               /\ allowance' = [allowance EXCEPT ![owner][caller] = @ - shares]
        <3>1. allowance[owner][caller] - shares \in Nat
            BY <2>1, <2>4
        <3> QED
            BY <2>4, <3>1 DEF TypeOK
    <2> QED
        BY <2>2, <2>3, <2>4 DEF SpendAllowance
<1>3. /\ balanceOf' = [balanceOf EXCEPT ![owner] = @ - shares]
      /\ assetsOf' = [assetsOf EXCEPT ![receiver] = @ + assets]
      /\ reserve' = reserve - assets
      /\ UNCHANGED <<lpBal, lastDepositTime, settings, envVars>>
    BY DEF Take
<1>4. balanceOf' \in [Users -> Nat] /\ assetsOf' \in [Users -> Nat] /\ reserve' \in Nat
    <2>1. balanceOf[owner] - shares \in Nat
        BY <1>1
    <2>2. assetsOf[receiver] + assets \in Nat /\ reserve - assets \in Nat
        BY <1>1 DEF TypeOK
    <2> QED
        BY <1>3, <2>1, <2>2 DEF TypeOK
<1>5. TypeOK'
    BY <1>2, <1>3, <1>4 DEF TypeOK, envVars
<1>6. /\ balanceOf'[owner] = balanceOf[owner] - shares
      /\ \A u \in Users \ {owner} : balanceOf'[u] = balanceOf[u]
    BY <1>3 DEF TypeOK
<1> QED
    BY <1>1, <1>5, <1>6, SupplyChanges

\* A transfer neither mints nor burns.
LEMMA TransferTyped ==
    ASSUME TypeOK, NEW spender \in Users, NEW owner \in Users, NEW receiver \in Users,
           NEW shares \in Nat, Transfer(spender, owner, receiver, shares), UNCHANGED envVars
    PROVE  TypeOK' /\ TotalSupply' = TotalSupply
<1>1. shares <= balanceOf[owner] /\ balanceOf[owner] \in Nat
    BY DEF Transfer, TypeOK
<1>2. allowance' \in [Users -> [Users -> Nat \cup {Unlimited}]]
    <2>1. allowance[owner][spender] \in Nat \cup {Unlimited}
        BY DEF TypeOK
    <2>2. CASE UNCHANGED allowance
        BY <2>2 DEF TypeOK
    <2>3. CASE /\ allowance[owner][spender] # Unlimited => shares <= allowance[owner][spender]
               /\ allowance' = [allowance EXCEPT ![owner][spender] =
                                    IF @ = Unlimited THEN @ ELSE @ - shares]
        <3> DEFINE left == IF allowance[owner][spender] = Unlimited
                           THEN allowance[owner][spender]
                           ELSE allowance[owner][spender] - shares
        <3>1. left \in Nat \cup {Unlimited}
            BY <2>1, <2>3
        <3>2. allowance' = [allowance EXCEPT ![owner][spender] = left]
            BY <2>3 DEF TypeOK
        <3> HIDE DEF left
        <3> QED
            BY <3>1, <3>2 DEF TypeOK
    <2> QED
        BY <2>2, <2>3 DEF Transfer
<1>3. /\ balanceOf' = [u \in Users |->
             balanceOf[u] - (IF u = owner THEN shares ELSE 0)
                          + (IF u = receiver THEN shares ELSE 0)]
      /\ UNCHANGED <<assetsOf, reserve, lpBal, lastDepositTime, settings, envVars>>
    BY DEF Transfer
<1>4. balanceOf' \in [Users -> Nat]
    <2>1. ASSUME NEW u \in Users
          PROVE  balanceOf[u] - (IF u = owner THEN shares ELSE 0)
                     + (IF u = receiver THEN shares ELSE 0) \in Nat
        BY <1>1 DEF TypeOK
    <2> QED
        BY <1>3, <2>1
<1>5. TypeOK'
    BY <1>2, <1>3, <1>4 DEF TypeOK, envVars
<1>6. TotalSupply' = TotalSupply
    <2> DEFINE f == balanceOf
               g == balanceOf'
               h == [balanceOf EXCEPT ![owner] = @ - shares]
    <2>1. TotalSupply' = Total(g, Users) /\ TotalSupply = Total(f, Users)
        BY DEF TotalSupply, Total, MapThenSumSet, MapThenFoldSet
    <2>2. \A u \in Users : f[u] \in Int /\ g[u] \in Int /\ h[u] \in Int
        BY <1>4 DEF TypeOK
    <2>3. h[owner] - f[owner] = 0 - shares
        BY <1>1 DEF TypeOK
    <2>4. \A u \in Users \ {owner} : h[u] = f[u]
        BY DEF TypeOK
    <2>5. g[receiver] - h[receiver] = shares /\ \A u \in Users \ {receiver} : g[u] = h[u]
        <3>1. ASSUME NEW u \in Users
              PROVE  g[u] = h[u] + (IF u = receiver THEN shares ELSE 0)
            <4>1. h[u] = balanceOf[u] - (IF u = owner THEN shares ELSE 0)
                BY <1>1 DEF TypeOK
            <4> QED
                BY <1>3, <4>1
        <3> HIDE DEF g, h
        <3> QED
            BY <2>2, <3>1
    <2>6. IsFiniteSet(Users)
        BY IndexConstantsAssumption
    <2> HIDE DEF f, g, h
    <2>7. Total(h, Users) = Total(f, Users) + (h[owner] - f[owner])
        BY <2>2, <2>6, <2>4, TotalChanges
    <2>8. Total(g, Users) = Total(h, Users) + (g[receiver] - h[receiver])
        BY <2>2, <2>5, <2>6, TotalChanges
    <2>9. Total(f, Users) \in Int
        BY <2>2, <2>6, TotalType
    <2> QED
        BY <2>1, <2>3, <2>5, <2>7, <2>8, <2>9
<1> QED
    BY <1>5, <1>6

\* Steps that move no shares.
LEMMA OthersTyped ==
    ASSUME TypeOK, UNCHANGED balanceOf,
           /\ allowance' \in [Users -> [Users -> Nat \cup {Unlimited}]]
           /\ reserve' \in Nat /\ lpBal' \in Nat /\ settings' \in Settings
           /\ UNCHANGED <<assetsOf, lastDepositTime>>
           /\ price' \in Nat /\ readable' \in BOOLEAN /\ deployedValue' \in Nat /\ now' \in Nat
    PROVE  TypeOK' /\ TotalSupply' = TotalSupply
<1>1. TypeOK'
    BY DEF TypeOK
<1>2. TotalSupply' = TotalSupply
    BY DEF TotalSupply, Total, MapThenSumSet, MapThenFoldSet
<1> QED
    BY <1>1, <1>2

LEMMA ApproveTyped ==
    ASSUME TypeOK, NEW owner \in Users, NEW spender \in Users, NEW shares \in Allowances,
           Approve(owner, spender, shares), UNCHANGED envVars
    PROVE  TypeOK' /\ TotalSupply' = TotalSupply
<1>1. allowance' \in [Users -> [Users -> Nat \cup {Unlimited}]]
    BY IndexConstantsAssumption DEF Approve, TypeOK
<1> QED
    BY <1>1, OthersTyped DEF Approve, TypeOK, envVars

LEMMA LendTyped ==
    ASSUME TypeOK, LendStep, UNCHANGED envVars PROVE TypeOK' /\ TotalSupply' = TotalSupply
<1>1. reserve' \in Nat /\ lpBal' \in Nat
      /\ UNCHANGED <<balanceOf, allowance, assetsOf, lastDepositTime, settings>>
    <2>1. ASSUME NEW n \in 1..reserve, TransferToLpAccount(n)
          PROVE  reserve' \in Nat /\ lpBal' \in Nat
                 /\ UNCHANGED <<balanceOf, allowance, assetsOf, lastDepositTime, settings>>
        BY <2>1 DEF TransferToLpAccount, TypeOK
    <2>2. ASSUME NEW n \in 1..lpBal, ReceiveFromLpAccount(n)
          PROVE  reserve' \in Nat /\ lpBal' \in Nat
                 /\ UNCHANGED <<balanceOf, allowance, assetsOf, lastDepositTime, settings>>
        BY <2>2 DEF ReceiveFromLpAccount, TypeOK
    <2> QED
        BY <2>1, <2>2 DEF LendStep
<1> QED
    BY <1>1, OthersTyped DEF TypeOK, envVars

LEMMA SettingsTyped ==
    ASSUME TypeOK, SwitchStep \/ ParameterStep, UNCHANGED envVars
    PROVE  TypeOK' /\ TotalSupply' = TotalSupply
<1>1. CASE EmergencyExit
    BY <1>1, OthersTyped DEF EmergencyExit, TypeOK, envVars
<1>2. ASSUME NEW new \in Settings, Set(new)
      PROVE  TypeOK' /\ TotalSupply' = TotalSupply
    BY <1>2, OthersTyped DEF Set, TypeOK, holdings, envVars
<1>3. CASE SwitchStep /\ ~EmergencyExit
    <2>1. \E new \in Settings : Set(new)
        BY <1>3 DEF SwitchStep, EmergencyLock, EmergencyUnlock, EmergencyLockDeposit,
            EmergencyUnlockDeposit, EmergencyLockRedeem, EmergencyUnlockRedeem, TypeOK, Settings
    <2> QED
        BY <1>2, <2>1
<1>4. CASE ParameterStep
    <2>1. \E new \in Settings : Set(new)
        BY <1>4, IndexConstantsAssumption DEF ParameterStep, SetArbitrageFee,
            SetReservePercentage, SetWithdrawFee, TypeOK, Settings
    <2> QED
        BY <1>2, <2>1
<1> QED
    BY <1>1, <1>3, <1>4

LEMMA EnvironmentTyped ==
    ASSUME TypeOK, ValuesChange \/ NewBlock, UNCHANGED <<holdings, settings>>
    PROVE  TypeOK' /\ TotalSupply' = TotalSupply
<1>1. price' \in Nat /\ readable' \in BOOLEAN /\ deployedValue' \in Nat /\ now' \in Nat
    <2>1. CASE ValuesChange
        BY <2>1, IndexConstantsAssumption DEF ValuesChange, TypeOK
    <2>2. CASE NewBlock
        BY <2>2 DEF NewBlock, TypeOK
    <2> QED
        BY <2>1, <2>2
<1> QED
    BY <1>1, OthersTyped DEF holdings, TypeOK

-----------------------------------------------------------------------------
\* What a step may do to the shares: give some for no fewer assets than they are worth,
\* take some for no more than that, or leave all of them.
GivesShares ==
    \E caller \in Users, receiver \in Users, assets \in Nat, shares \in Nat :
        /\ Give(caller, receiver, assets, shares)
        /\ TotalSupply > 0 => worth * shares <= assets * cost
        /\ TotalSupply' = TotalSupply + shares

\* Who takes shares out is paid what is left of what they are worth after the fees.
TakesShares ==
    \E caller \in Users, receiver \in Users, owner \in Users, assets \in Nat, shares \in Nat :
        /\ Take(caller, receiver, owner, assets, shares)
        /\ assets * cost <= worth * shares
        /\ price > 0 => 100 * assets < (100 - ArbFee(owner)) * ConvertToAssets(shares) + 100
        /\ TotalSupply' = TotalSupply - shares

LEMMA DepositGives ==
    ASSUME TypeOK, NEW caller \in Users, NEW receiver \in Users, NEW assets \in Nat,
           Deposit(caller, receiver, assets), UNCHANGED envVars
    PROVE  TypeOK' /\ GivesShares
<1> DEFINE shares == ConvertToShares(assets)
<1>1. ConvertibleToShares /\ Give(caller, receiver, assets, shares)
    BY DEF Deposit
<1>2. shares \in Nat
    BY <1>1, ConversionsTyped
<1>3. TotalSupply > 0 => worth * shares <= assets * cost
    BY <1>1, TypedNumbers, ConvertToSharesBounds DEF ConvertibleToShares
<1> HIDE DEF shares
<1>4. TypeOK' /\ TotalSupply' = TotalSupply + shares
    BY <1>1, <1>2, GiveTyped
<1> QED
    BY <1>1, <1>2, <1>3, <1>4 DEF GivesShares

LEMMA MintGives ==
    ASSUME TypeOK, NEW caller \in Users, NEW receiver \in Users, NEW shares \in Nat,
           Mint(caller, receiver, shares), UNCHANGED envVars
    PROVE  TypeOK' /\ GivesShares
<1> DEFINE assets == PreviewMint(shares)
<1>1. ConvertibleToAssets /\ Give(caller, receiver, assets, shares)
    BY DEF Mint
<1>2. assets \in Nat
    BY <1>1, ConversionsTyped DEF PreviewMint
<1>3. ASSUME TotalSupply > 0 PROVE worth * shares <= assets * cost
    <2>1. shares * worth < assets * cost
        BY <1>1, <1>3, TypedNumbers, MintCosts DEF ConvertibleToAssets
    <2> HIDE DEF assets
    <2>2. worth \in Nat /\ cost \in Nat
        BY TypedNumbers
    <2>3. worth * shares = shares * worth /\ shares * worth \in Int /\ assets * cost \in Int
        BY <1>2, <2>2
    <2> QED
        BY <2>1, <2>3
<1> HIDE DEF assets
<1>4. TypeOK' /\ TotalSupply' = TotalSupply + shares
    BY <1>1, <1>2, GiveTyped
<1> QED
    BY <1>1, <1>2, <1>3, <1>4 DEF GivesShares

\* Nobody owns more shares than there are.
LEMMA OwnersShare ==
    ASSUME TypeOK, NEW owner \in Users, NEW shares \in Nat, shares <= balanceOf[owner]
    PROVE  shares <= TotalSupply /\ TotalSupply \in Nat
<1> DEFINE f == balanceOf
<1>1. TotalSupply = Total(f, Users)
    BY DEF TotalSupply
<1>2. \A u \in Users : f[u] \in Nat
    BY DEF TypeOK
<1>3. IsFiniteSet(Users)
    BY IndexConstantsAssumption
<1> HIDE DEF f
<1>4. Total(f, Users) \in Nat /\ f[owner] <= Total(f, Users)
    BY <1>2, <1>3, TotalOfNaturals
<1> QED
    BY <1>1, <1>2, <1>4 DEF f

LEMMA RedeemTakes ==
    ASSUME TypeOK, NEW caller \in Users, NEW receiver \in Users, NEW owner \in Users,
           NEW shares \in Nat, Redeem(caller, receiver, owner, shares), UNCHANGED envVars
    PROVE  TypeOK' /\ TakesShares
<1> DEFINE whole == ConvertToAssets(shares)
           assets == AfterFees(whole, owner)
<1>1. /\ shares > 0 /\ shares <= balanceOf[owner] /\ ConvertibleToAssets
      /\ Take(caller, receiver, owner, assets, shares) /\ assets >= 0
    BY DEF Redeem, Take, PreviewRedeem
<1>2. TotalSupply > 0 /\ price > 0
    BY <1>1, OwnersShare DEF ConvertibleToAssets
<1>3. whole \in Nat /\ cost * whole <= shares * worth
    BY <1>2, TypedNumbers, ConvertToAssetsBounds
<1> HIDE DEF whole
<1>4. assets \in Int /\ assets <= whole /\ 100 * assets < (100 - ArbFee(owner)) * whole + 100
    BY <1>3, TypedNumbers, AfterFeesBounds
<1> HIDE DEF assets
<1>5. assets \in Nat
    BY <1>1, <1>4
<1>6. assets * cost <= worth * shares
    <2>1. worth \in Nat /\ cost \in Nat
        BY TypedNumbers
    <2>2. cost * assets <= cost * whole
        BY <1>3, <1>4, <2>1, ProductsOrder
    <2>3. /\ cost * assets \in Int /\ cost * whole \in Int /\ shares * worth \in Int
          /\ assets * cost = cost * assets /\ worth * shares = shares * worth
        BY <1>3, <1>4, <2>1
    <2> QED
        BY <1>3, <2>2, <2>3
<1>7. TypeOK' /\ TotalSupply' = TotalSupply - shares
    BY <1>1, <1>5, TakeTyped
<1> QED
    BY <1>1, <1>4, <1>5, <1>6, <1>7 DEF TakesShares, whole

\* withdraw puts the fees in front: with them, what is asked for is within the fraction
\* that the arbitrage fee leaves.
LEMMA BeforeFeesCoverArbFee ==
    ASSUME FeesTyped, NEW assets \in Nat, NEW owner, Left(owner) > 0, NEW paid \in Nat,
           BeforeFees(assets, owner) <= paid
    PROVE  100 * assets < (100 - ArbFee(owner)) * paid + 100
<1> DEFINE left == Left(owner)
           before == BeforeFees(assets, owner)
           unit == WithdrawFeeDenominator
           rest == 100 - ArbFee(owner)
<1>1. unit \in Nat /\ unit > 0 /\ rest \in Int /\ rest <= 100
    BY DEF FeesTyped, ArbFee
<1>2. left \in Nat /\ left <= unit * rest /\ Whole = unit * 100
    BY AfterFeesBounds DEF Whole
<1>3. before \in Nat /\ assets * (unit * 100) < left * (before + 1)
    BY <1>2, BeforeFeesBounds
<1> HIDE DEF left, before, unit, rest
<1>4. left * (before + 1) <= left * (paid + 1)
    BY <1>2, <1>3, ProductsOrder DEF before
<1>5. left * (paid + 1) <= unit * rest * (paid + 1)
    <2>1. (paid + 1) * left <= (paid + 1) * (unit * rest)
        BY <1>1, <1>2, ProductsOrder
    <2> QED
        BY <1>1, <1>2, <2>1
<1>6. unit * (100 * assets) < unit * (rest * (paid + 1))
    <2>1. /\ assets * (unit * 100) = unit * (100 * assets)
          /\ unit * rest * (paid + 1) = unit * (rest * (paid + 1))
        BY <1>1
    <2>2. /\ left * (before + 1) \in Int /\ left * (paid + 1) \in Int
          /\ unit * (100 * assets) \in Int /\ unit * (rest * (paid + 1)) \in Int
        BY <1>1, <1>2, <1>3
    <2> QED
        BY <1>3, <1>4, <1>5, <2>1, <2>2
<1>7. 100 * assets < rest * (paid + 1)
    BY <1>1, <1>6, Cancel
<1>8. rest * (paid + 1) = rest * paid + rest /\ rest * paid \in Int
    BY <1>1
<1> QED
    BY <1>1, <1>7, <1>8 DEF rest

LEMMA WithdrawTakes ==
    ASSUME TypeOK, NEW caller \in Users, NEW receiver \in Users, NEW owner \in Users,
           NEW assets \in Nat, Withdraw(caller, receiver, owner, assets), UNCHANGED envVars
    PROVE  TypeOK' /\ TakesShares
<1> DEFINE shares == PreviewWithdraw(assets, owner)
           before == BeforeFees(assets, owner)
<1>1. /\ Left(owner) > 0 /\ ConvertibleToShares /\ shares <= balanceOf[owner]
      /\ Take(caller, receiver, owner, assets, shares)
    BY DEF Withdraw, Take
<1>2. before \in Nat /\ assets <= before
    BY <1>1, TypedNumbers, BeforeFeesBounds
<1>3. shares \in Nat /\ shares > 0
    BY <1>1, <1>2, ConversionsTyped DEF PreviewWithdraw
<1> HIDE DEF shares, before
<1>4. TotalSupply > 0 /\ GetPoolTotalValue > 0
    BY <1>1, <1>3, OwnersShare DEF ConvertibleToShares
<1>5. before * cost < worth * shares
    BY <1>1, <1>4, TypedNumbers, WithdrawCosts DEF shares, before
<1>6. assets * cost <= worth * shares
    <2>1. worth \in Nat /\ cost \in Nat
        BY TypedNumbers
    <2>2. cost * assets <= cost * before
        BY <1>2, <2>1, ProductsOrder
    <2>3. /\ cost * assets \in Int /\ cost * before \in Int /\ worth * shares \in Int
          /\ assets * cost = cost * assets /\ before * cost = cost * before
        BY <1>2, <1>3, <2>1
    <2> QED
        BY <1>5, <2>2, <2>3
<1>7. ASSUME price > 0
      PROVE  100 * assets < (100 - ArbFee(owner)) * ConvertToAssets(shares) + 100
    <2> DEFINE paid == ConvertToAssets(shares)
    <2>1. paid \in Nat /\ before <= paid
        BY <1>1, <1>4, <1>7, TypedNumbers, WithdrawnAreRedeemable DEF shares, before
    <2> HIDE DEF paid
    <2>2. 100 * assets < (100 - ArbFee(owner)) * paid + 100
        BY <1>1, <2>1, TypedNumbers, BeforeFeesCoverArbFee DEF before
    <2> QED
        BY <2>2 DEF paid
<1>8. TypeOK' /\ TotalSupply' = TotalSupply - shares
    BY <1>1, <1>3, TakeTyped
<1> QED
    BY <1>1, <1>3, <1>6, <1>7, <1>8 DEF TakesShares

\* Every step keeps the types and does one of the three to the shares, and what is not
\* the environment's leaves prices and values alone.
LEMMA Steps ==
    ASSUME TypeOK, [Next]_vars
    PROVE  /\ TypeOK'
           /\ \/ (GivesShares \/ TakesShares) /\ UNCHANGED envVars
              \/ TotalSupply' = TotalSupply
<1>1. CASE UserStep /\ UNCHANGED envVars
    <2> PICK caller \in Users, other \in Users :
            \/ \E n \in 1..Funds : Deposit(caller, other, n)
            \/ \E n \in 1..MaxSupply : Mint(caller, other, n)
            \/ \E owner \in Users :
                   \/ \E n \in 1..balanceOf[owner] : Redeem(caller, other, owner, n)
                   \/ \E n \in 1..reserve : Withdraw(caller, other, owner, n)
                   \/ \E n \in 1..balanceOf[owner] : Transfer(caller, owner, other, n)
            \/ caller # other /\ \E n \in Allowances : Approve(caller, other, n)
        BY <1>1 DEF UserStep
    <2>1. ASSUME NEW n \in 1..Funds, Deposit(caller, other, n)
          PROVE  TypeOK' /\ GivesShares
        BY <1>1, <2>1, DepositGives
    <2>2. ASSUME NEW n \in 1..MaxSupply, Mint(caller, other, n)
          PROVE  TypeOK' /\ GivesShares
        BY <1>1, <2>2, MintGives
    <2>3. ASSUME NEW owner \in Users, NEW n \in 1..balanceOf[owner],
                 Redeem(caller, other, owner, n)
          PROVE  TypeOK' /\ TakesShares
        BY <1>1, <2>3, RedeemTakes
    <2>4. ASSUME NEW owner \in Users, NEW n \in 1..reserve, Withdraw(caller, other, owner, n)
          PROVE  TypeOK' /\ TakesShares
        BY <1>1, <2>4, WithdrawTakes
    <2>5. ASSUME NEW owner \in Users, NEW n \in 1..balanceOf[owner],
                 Transfer(caller, owner, other, n)
          PROVE  TypeOK' /\ TotalSupply' = TotalSupply
        BY <1>1, <2>5, TransferTyped
    <2>6. ASSUME NEW n \in Allowances, Approve(caller, other, n)
          PROVE  TypeOK' /\ TotalSupply' = TotalSupply
        BY <1>1, <2>6, ApproveTyped
    <2> QED
        BY <1>1, <2>1, <2>2, <2>3, <2>4, <2>5, <2>6
<1>2. CASE LendStep /\ UNCHANGED envVars
    BY <1>2, LendTyped
<1>3. CASE (SwitchStep \/ ParameterStep) /\ UNCHANGED envVars
    BY <1>3, SettingsTyped
<1>4. CASE (ValuesChange \/ NewBlock) /\ UNCHANGED <<holdings, settings>>
    BY <1>4, EnvironmentTyped
<1>5. CASE UNCHANGED vars
    BY <1>5, OthersTyped DEF vars, holdings, envVars, TypeOK
<1> QED
    BY <1>1, <1>2, <1>3, <1>4, <1>5 DEF Next

\* The balances, allowances and parameters of the index token are natural numbers, the
\* reserve included: no call takes out more than there is.
THEOREM IndexTypeCorrect == Spec => []TypeOK
<1>1. Init => TypeOK
    BY InitTyped
<1>2. TypeOK /\ [Next]_vars => TypeOK'
    BY Steps
<1> QED
    BY <1>1, <1>2, PTL DEF Spec

\* previewMint and previewWithdraw: the outcome is not named for less.
THEOREM NamingIsNeverCheaper == Spec => []NamingNeverCheaper
<1>1. ASSUME TypeOK PROVE NamingNeverCheaper
    <2>1. Numbers /\ FeesTyped
        BY <1>1, TypedNumbers
    <2>2. MaxSupply \in Nat /\ Funds \in Nat
        BY IndexConstantsAssumption
    <2> QED
        BY <2>1, <2>2, MintNeverCheaper, WithdrawNeverCheaper DEF NamingNeverCheaper
<1> QED
    BY <1>1, IndexTypeCorrect, PTL

-----------------------------------------------------------------------------
\* What shares are worth.

\* When the reserve changes by no less than what the shares given are worth, or by no
\* more than what the shares taken are, those that stay keep their worth.
LEMMA WorthKept ==
    ASSUME NEW before \in Nat, NEW after \in Nat, NEW cents \in Nat, NEW deployed \in Nat,
           NEW unit \in Nat, unit > 0, NEW supply \in Nat, supply > 0, NEW given \in Int,
           ((ValueOf(before, cents, unit) + deployed) * unit) * given
               <= (after - before) * (cents * supply)
    PROVE  (ValueOf(after, cents, unit) + deployed + 1) * supply
               > (ValueOf(before, cents, unit) + deployed) * (supply + given)
<1> DEFINE old == (cents * before) \div unit
           new == (cents * after) \div unit
           value == old + deployed
           valueAfter == new + deployed + 1
<1>1. cents * before \in Nat /\ cents * after \in Nat
    BY ProductAndQuotient
<1>2. old \in Nat /\ unit * old <= cents * before
    BY <1>1, ProductAndQuotient, Quotient
<1>3. new \in Nat /\ cents * after < unit * new + unit
    BY <1>1, ProductAndQuotient, Quotient
<1>4. ValueOf(before, cents, unit) = old /\ ValueOf(after, cents, unit) = new
    BY DEF ValueOf
<1> HIDE DEF old, new
<1>5. value \in Nat /\ valueAfter \in Nat
    BY <1>2, <1>3
<1>6. unit * valueAfter > unit * value + cents * (after - before)
    <2>1. /\ unit * valueAfter = unit * new + unit + unit * deployed
          /\ unit * value = unit * old + unit * deployed
          /\ cents * (after - before) = cents * after - cents * before
        BY <1>2, <1>3
    <2>2. unit * new \in Int /\ unit * old \in Int /\ unit * deployed \in Int
        BY <1>2, <1>3
    <2> HIDE DEF value, valueAfter
    <2> QED
        BY <1>1, <1>2, <1>3, <2>1, <2>2
<1>7. (value * unit) * given <= (after - before) * (cents * supply)
    BY <1>4
<1> HIDE DEF value, valueAfter
<1>8. supply * (unit * valueAfter) > supply * (unit * value + cents * (after - before))
    <2> DEFINE x == unit * value + cents * (after - before)
               y == unit * valueAfter
    <2>1. x \in Int /\ y \in Int /\ x < y
        BY <1>5, <1>6
    <2> HIDE DEF x, y
    <2>2. supply * x < supply * y
        BY <2>1, Cancel
    <2>3. supply * x \in Int /\ supply * y \in Int
        BY <2>1
    <2> QED
        BY <2>2, <2>3 DEF x, y
<1>9. unit * (valueAfter * supply) > unit * (value * (supply + given))
    <2>1. supply * (unit * value + cents * (after - before))
              = unit * (value * supply) + (after - before) * (cents * supply)
        BY <1>5
    <2>2. unit * (value * (supply + given)) = unit * (value * supply) + (value * unit) * given
        BY <1>5
    <2>3. supply * (unit * valueAfter) = unit * (valueAfter * supply)
        BY <1>5
    <2>4. /\ unit * (valueAfter * supply) \in Int /\ unit * (value * supply) \in Int
          /\ (value * unit) * given \in Int /\ (after - before) * (cents * supply) \in Int
        BY <1>5
    <2> QED
        BY <1>7, <1>8, <2>1, <2>2, <2>3, <2>4
<1>10. valueAfter * supply \in Int /\ value * (supply + given) \in Int
    BY <1>5
<1>11. value * (supply + given) < valueAfter * supply
    <2> DEFINE x == value * (supply + given)
               y == valueAfter * supply
    <2>1. x \in Int /\ y \in Int /\ unit * x < unit * y
        BY <1>9, <1>10
    <2> HIDE DEF x, y
    <2>2. x < y
        BY <2>1, Cancel
    <2> QED
        BY <2>2 DEF x, y
<1> QED
    BY <1>4, <1>10, <1>11 DEF value, valueAfter

\* A step that gives or takes shares keeps what the others are worth.
LEMMA StepKeepsPrice ==
    ASSUME TypeOK, [Next]_vars, TotalSupply > 0, TotalSupply' # TotalSupply
    PROVE  (GetPoolTotalValue' + 1) * TotalSupply > GetPoolTotalValue * TotalSupply'
<1>1. UNCHANGED envVars /\ (GivesShares \/ TakesShares)
    BY Steps
<1>2. /\ reserve \in Nat /\ reserve' \in Nat /\ price \in Nat /\ deployedValue \in Nat
      /\ AssetUnit \in Nat /\ AssetUnit > 0 /\ TotalSupply \in Nat
    BY TypedNumbers, Steps, IndexConstantsAssumption DEF TypeOK, Numbers
<1> DEFINE supply == TotalSupply
           value == ValueOf(reserve, price, AssetUnit) + deployedValue
           valueAfter == ValueOf(reserve', price, AssetUnit) + deployedValue
<1>3. GetPoolTotalValue = value /\ GetPoolTotalValue' = valueAfter
    BY <1>1 DEF GetPoolTotalValue, envVars
<1>4. worth = value * AssetUnit /\ cost = price * supply /\ worth \in Nat /\ cost \in Nat
    BY <1>3, TypedNumbers DEF worth, cost
<1>5. \E given \in Int :
          /\ worth * given <= (reserve' - reserve) * cost
          /\ TotalSupply' = supply + given
    <2>1. CASE GivesShares
        <3> PICK assets \in Nat, shares \in Nat :
                /\ reserve' = reserve + assets
                /\ worth * shares <= assets * cost
                /\ TotalSupply' = supply + shares
            BY <2>1 DEF GivesShares, Give
        <3>1. reserve' - reserve = assets
            BY <1>2
        <3> QED
            BY <3>1
    <2>2. CASE TakesShares
        <3> PICK assets \in Nat, shares \in Nat :
                /\ reserve' = reserve - assets
                /\ assets * cost <= worth * shares
                /\ TotalSupply' = supply - shares
            BY <2>2 DEF TakesShares, Take
        <3>1. reserve' - reserve = 0 - assets /\ supply + (0 - shares) = supply - shares
            BY <1>2
        <3>2. worth * (0 - shares) = 0 - worth * shares
              /\ (0 - assets) * cost = 0 - assets * cost
            BY <1>4
        <3>3. worth * shares \in Int /\ assets * cost \in Int
            BY <1>4
        <3>4. worth * (0 - shares) <= (0 - assets) * cost
            BY <3>2, <3>3
        <3> QED
            BY <3>1, <3>4
    <2> QED
        BY <1>1, <2>1, <2>2
<1> PICK given \in Int :
        worth * given <= (reserve' - reserve) * cost /\ TotalSupply' = supply + given
    BY <1>5
<1>6. (value * AssetUnit) * given <= (reserve' - reserve) * (price * supply)
    BY <1>4
<1> HIDE DEF supply
<1>7. (valueAfter + 1) * supply > value * (supply + given)
    BY <1>2, <1>6, WorthKept DEF supply
<1> HIDE DEF value, valueAfter
<1> QED
    BY <1>3, <1>7 DEF supply

\* deposit, mint, redeem and withdraw: the shares that stay keep their worth, whatever is
\* deployed, at any price and with any fees.
THEOREM SharePriceIsKept == Spec => SharePriceNeverFalls
<1>1. TypeOK /\ [Next]_vars => SharePriceKept
    BY StepKeepsPrice DEF SharePriceKept
<1> QED
    BY <1>1, IndexTypeCorrect, PTL DEF Spec, SharePriceNeverFalls

-----------------------------------------------------------------------------
\* Early exits.

\* A step that takes an owner's shares takes the arbitrage fee off what it pays.
LEMMA StepTakesFee ==
    ASSUME TypeOK, [Next]_vars, ConvertibleToAssets, NEW owner \in Users,
           TotalSupply' < TotalSupply, balanceOf'[owner] < balanceOf[owner],
           now < lastDepositTime[owner] + settings.arbitrageFeePeriod
    PROVE  100 * (reserve - reserve')
               < (100 - settings.arbitrageFee)
                     * ConvertToAssets(balanceOf[owner] - balanceOf'[owner]) + 100
<1>1. TotalSupply \in Nat /\ price \in Nat /\ reserve \in Nat
    BY TypedNumbers DEF Numbers, TypeOK
<1>2. TakesShares
    <2>1. ~GivesShares
        BY <1>1 DEF GivesShares
    <2> QED
        BY <1>1, <2>1, Steps
<1> PICK caller \in Users, receiver \in Users, who \in Users, assets \in Nat, shares \in Nat :
        /\ Take(caller, receiver, who, assets, shares)
        /\ assets * cost <= worth * shares
        /\ price > 0 => 100 * assets < (100 - ArbFee(who)) * ConvertToAssets(shares) + 100
        /\ TotalSupply' = TotalSupply - shares
    BY <1>2 DEF TakesShares
<1>3. /\ shares <= balanceOf[who]
      /\ balanceOf' = [balanceOf EXCEPT ![who] = @ - shares]
      /\ reserve' = reserve - assets
    BY DEF Take
<1>4. who = owner /\ balanceOf[owner] - balanceOf'[owner] = shares
    <2>1. balanceOf[owner] \in Nat /\ balanceOf \in [Users -> Nat]
        BY DEF TypeOK
    <2>2. who = owner
        BY <1>3, <2>1
    <2> QED
        BY <1>3, <2>1, <2>2
<1>5. ArbFee(owner) = settings.arbitrageFee
    <2>1. /\ now \in Nat /\ lastDepositTime[owner] \in Nat
          /\ settings.arbitrageFeePeriod \in Nat
        BY DEF TypeOK, Settings
    <2> QED
        BY <2>1 DEF ArbFee, HasArbFee
<1>6. price > 0
    <2>1. TotalSupply # 0
        BY <1>1, <1>3, OwnersShare
    <2> QED
        BY <2>1 DEF ConvertibleToAssets
<1>7. reserve - reserve' = assets
    BY <1>1, <1>3
<1> QED
    BY <1>4, <1>5, <1>6, <1>7

\* redeem and withdraw, whoever calls and whoever receives: an early exit leaves the
\* arbitrage fee, however it was announced.
THEOREM EarlyExitAlwaysLeavesFee == Spec => EarlyExitLeavesFee
<1>1. TypeOK /\ [Next]_vars => EarlyOwnerPaysFee
    BY StepTakesFee DEF EarlyOwnerPaysFee
<1> QED
    BY <1>1, IndexTypeCorrect, PTL DEF Spec, EarlyExitLeavesFee
=============================================================================
