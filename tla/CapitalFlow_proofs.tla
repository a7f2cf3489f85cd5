-------------------------- MODULE CapitalFlow_proofs --------------------------
(***************************************************************************)
(* The protection by locking works for any pools, users, zaps, lock        *)
(* periods and delays of the report: whoever can read the TVL from         *)
(* Chainlink reads the present one, and nobody mints or burns a share at a *)
(* TVL that is behind, unless the Emergency Safe went past the lock or     *)
(* submitted it.                                                           *)
(*                                                                         *)
(* The invariant, in three parts. StateTypes: the variables of the five    *)
(* components have their types; this takes the sums over pools and users,  *)
(* because what is minted, paid and topped up is computed from them.       *)
(* FlowInv: either the report is not behind, or the adapter is locked      *)
(* until the report must be there. A transaction that changes what counts  *)
(* locks for at least that long, and no later transaction locks for less,  *)
(* because every period configured covers the delay; and no block passes   *)
(* that would make the report late. Supplied: capital is lent only once    *)
(* there is a report, or while the change that the lending made is         *)
(* covered; this needs that the first loan changes the TVL, whatever it is *)
(* lent at.                                                                *)
(*                                                                         *)
(* The last part proves that a rebalance hits its target.  Rebalanced says *)
(* what a call does to each pool, with the mAPT off by less than a unit,   *)
(* always in the same direction.  Adding that up (MissesAddUp) gives what  *)
(* the TVL reported and the supply are off by together; from there         *)
(* ReportedValue bounds what a pool's deployed value is off by, and        *)
(* TopUpOnceMade the top-up that the pool asks for then.                   *)
(***************************************************************************)
EXTENDS CapitalFlow, Sums_proofs

\* The last report, if there was one, gave the present TVL.
Reported == feed[TvlFeed].hasData => feed[TvlFeed].answer = Lp!TrackedTvl

\* The adapter stays locked until the last change has been reported.
Covered == block < changedAt + Latency /\ changedAt + Latency <= lockEnd

FlowTypes ==
    /\ block \in Nat /\ changedAt \in Nat /\ lockEnd \in Nat
    /\ changedAt <= block
    /\ defaultLockPeriod \in Periods /\ lockPeriod \in Periods
    /\ tvlSource = TvlFeed
    /\ TvlFeed \in DOMAIN feed
    /\ unguarded \in BOOLEAN

FlowInv == FlowTypes /\ (unguarded \/ Reported \/ Covered)

\* What transactions never change.
Config == <<block, feed, defaultLockPeriod, lockPeriod, tvlSource>>

-----------------------------------------------------------------------------
\* The values the variables take, component by component.
ChainTypes ==
    /\ block \in 0..MaxBlock /\ changedAt \in 0..MaxBlock /\ unguarded \in BOOLEAN
    /\ feed \in [{TvlFeed, PriceFeed} -> Oracle!Round]

AdapterTypes ==
    /\ lockEnd \in Nat /\ defaultLockPeriod \in Nat /\ chainlinkStalePeriod \in Nat \ {0}
    /\ tvlSource \in {TvlFeed, PriceFeed} /\ assetSources \in [Pools -> {TvlFeed, PriceFeed}]
    /\ submittedTvlValue \in Oracle!Submission
    /\ submittedAssetValues \in [Pools -> Oracle!Submission]

PoolTypes ==
    /\ apt \in [Pools -> [Users -> Nat]] /\ userBal \in [Pools -> [Users -> Nat]]
    /\ poolBal \in [Pools -> Nat]
    /\ lastDepositTime \in [Pools -> [Users -> Nat]]
    /\ settings \in [Pools -> Pool!Settings]

MAptTypes == mApt \in [Pools -> Nat]

LpTypes ==
    /\ lpBal \in [Tokens -> Nat] /\ position \in [Zaps -> Nat]
    /\ zaps \subseteq Zaps /\ swaps \subseteq {} /\ lockPeriod \in Nat
    /\ rewardFee \in [Tokens -> Nat] /\ treasury \in [Tokens -> Nat]

RegistryTypes == allocations \subseteq Allocations /\ erc20Tokens \subseteq Tokens

StateTypes ==
    ChainTypes /\ AdapterTypes /\ PoolTypes /\ MAptTypes /\ LpTypes /\ RegistryTypes

-----------------------------------------------------------------------------
\* The sums of the components are sums of the same kind.
LEMMA LentIsTotal == Lent = Total(mApt, Pools)
BY DEF Lent, Total

LEMMA SupplyIsTotal == MApt!MAptSupply = Total(mApt, Pools)
BY DEF MApt!MAptSupply, MApt!Total, MApt!MapThenSumSet, MApt!MapThenFoldSet, Total,
       MapThenSumSet, MapThenFoldSet

LEMMA SharesAreTotal ==
    ASSUME NEW p
    PROVE  Pool!TotalSupply(p) = Total(apt[p], Users)
BY DEF Pool!TotalSupply, Pool!MapThenSumSet, Pool!MapThenFoldSet, Total, MapThenSumSet,
       MapThenFoldSet

LEMMA LpTotalIsTotal ==
    ASSUME NEW f, NEW S
    PROVE  Lp!Total(f, S) = Total(f, S)
BY DEF Lp!Total, Lp!MapThenSumSet, Lp!MapThenFoldSet, Total, MapThenSumSet, MapThenFoldSet

LEMMA TrackedIsTotal ==
    Lp!TrackedTvl = Total(lpBal, erc20Tokens) + Total(position, Lp!Counted)
BY LpTotalIsTotal DEF Lp!TrackedTvl

\* What the constants give.
LEMMA FlowConstants ==
    /\ IsFiniteSet(Pools) /\ IsFiniteSet(Users) /\ IsFiniteSet(Tokens) /\ IsFiniteSet(Zaps)
    /\ Factor \in Nat /\ Funds \in Nat /\ MaxBlock \in Nat
    /\ Values \subseteq Nat /\ ReservePercentages \subseteq Nat /\ ReservePercentages # {}
    /\ ZapCoins \in [Zaps -> SUBSET Tokens] /\ ThreePool \subseteq Tokens
    /\ Pools \subseteq Tokens
    /\ Latency \in Nat /\ Periods \subseteq Nat
<1>1. IsFiniteSet(Pools) /\ IsFiniteSet(Users) /\ IsFiniteSet(OtherTokens) /\ IsFiniteSet(Zaps)
    BY FlowAssumption
<1>2. IsFiniteSet(Tokens)
    BY <1>1, FS_Union DEF Tokens
<1>3. /\ Factor \in Nat /\ Funds \in Nat /\ MaxBlock \in Nat
      /\ Values \subseteq Nat /\ ReservePercentages \subseteq Nat /\ ReservePercentages # {}
      /\ ZapCoins \in [Zaps -> SUBSET Tokens] /\ ThreePool \subseteq Tokens
    BY FlowAssumption DEF Tokens
<1>4. Pools \subseteq Tokens /\ Latency \in Nat /\ Periods \subseteq Nat
    BY LatencyAssumption DEF Tokens
<1> QED
    BY <1>1, <1>2, <1>3, <1>4

\* What is lent, counted, quoted and deployed are naturals.
LEMMA LentType ==
    ASSUME MAptTypes
    PROVE  /\ Lent \in Nat /\ MApt!MAptSupply \in Nat
           /\ \A p \in Pools : mApt[p] > 0 => MApt!MAptSupply > 0
<1>1. Total(mApt, Pools) \in Nat /\ \A p \in Pools : mApt[p] <= Total(mApt, Pools)
    BY FlowConstants, TotalOfNaturals DEF MAptTypes
<1> QED
    BY <1>1, LentIsTotal, SupplyIsTotal DEF MAptTypes

LEMMA TrackedType ==
    ASSUME LpTypes, RegistryTypes
    PROVE  Lp!TrackedTvl \in Nat
<1>1. IsFiniteSet(erc20Tokens) /\ IsFiniteSet(Lp!Counted)
    BY FlowConstants, FS_Subset DEF RegistryTypes, Lp!Counted
<1>2. Total(lpBal, erc20Tokens) \in Nat
    <2>1. \A t \in erc20Tokens : lpBal[t] \in Nat
        BY DEF LpTypes, RegistryTypes
    <2> QED
        BY <1>1, <2>1, TotalOfNaturals
<1>3. Total(position, Lp!Counted) \in Nat
    <2>1. \A z \in Lp!Counted : position[z] \in Nat
        BY DEF LpTypes, Lp!Counted
    <2> QED
        BY <1>1, <2>1, TotalOfNaturals
<1> QED
    BY <1>2, <1>3, TrackedIsTotal

LEMMA TvlReadType ==
    ASSUME ChainTypes, AdapterTypes
    PROVE  TvlRead \in Nat
<1>1. CASE ~Oracle!TvlReadable
    BY <1>1 DEF TvlRead
<1>2. CASE Oracle!HasTvlOverride
    BY <1>2 DEF TvlRead, Oracle!GetTvl, AdapterTypes, Oracle!Submission
<1>3. CASE Oracle!TvlReadable /\ ~Oracle!HasTvlOverride
    <2>1. feed[tvlSource].answer \in Int /\ feed[tvlSource].answer >= 0
        BY <1>3 DEF Oracle!TvlReadable, Oracle!SourceReadable, ChainTypes, AdapterTypes, Oracle!Round
    <2> QED
        BY <1>3, <2>1 DEF TvlRead, Oracle!GetTvl
<1> QED
    BY <1>1, <1>2, <1>3

LEMMA PriceType ==
    ASSUME ChainTypes, AdapterTypes
    PROVE  Price \in [Pools -> Nat]
<1> SUFFICES ASSUME NEW p \in Pools
             PROVE  (IF Oracle!AssetPriceReadable(p) THEN Oracle!GetAssetPrice(p) ELSE 0) \in Nat
    BY DEF Price
<1>1. CASE ~Oracle!AssetPriceReadable(p)
    BY <1>1
<1>2. CASE Oracle!HasAssetOverride(p)
    BY <1>2 DEF Oracle!GetAssetPrice, AdapterTypes, Oracle!Submission
<1>3. CASE Oracle!AssetPriceReadable(p) /\ ~Oracle!HasAssetOverride(p)
    <2>1. feed[assetSources[p]].answer \in Int /\ feed[assetSources[p]].answer >= 0
        BY <1>3 DEF Oracle!AssetPriceReadable, Oracle!SourceReadable, ChainTypes, AdapterTypes,
                    Oracle!Round
    <2> QED
        BY <1>3, <2>1 DEF Oracle!GetAssetPrice
<1> QED
    BY <1>1, <1>2, <1>3

LEMMA DeployedType ==
    ASSUME ChainTypes, AdapterTypes, MAptTypes, NEW p \in Pools
    PROVE  MApt!GetDeployedValue(p) \in Nat
<1>1. TvlRead \in Nat /\ mApt[p] \in Nat /\ MApt!MAptSupply \in Nat
    BY TvlReadType, LentType DEF MAptTypes
<1>2. TvlRead * mApt[p] \in Nat
    BY <1>1, ProductAndQuotient
<1>3. MApt!MAptSupply > 0 => (TvlRead * mApt[p]) \div MApt!MAptSupply \in Nat
    BY <1>1, <1>2, ProductAndQuotient
<1> QED
    BY <1>1, <1>3 DEF MApt!GetDeployedValue

-----------------------------------------------------------------------------
\* The invariant says what TypeOK says of all components and of what they see of others.
LEMMA TypesFollow ==
    StateTypes => TypeOK
<1> SUFFICES ASSUME StateTypes PROVE TypeOK
    OBVIOUS
<1> USE DEF StateTypes
<1>1. Oracle!TypeOK
    <2>1. Lent \in Nat
        BY LentType
    <2> QED
        BY <2>1 DEF Oracle!TypeOK, ChainTypes, AdapterTypes
<1>2. /\ Price \in [Pools -> Nat]
      /\ [p \in Pools |-> MApt!GetDeployedValue(p)] \in [Pools -> Nat]
      /\ [p \in Pools |-> lpBal[p]] \in [Pools -> Nat]
    BY PriceType, DeployedType, FlowConstants DEF LpTypes
<1>3. Pool!TypeOK
    <2>1. [p \in Pools |-> Oracle!AssetPriceReadable(p) /\ (mApt[p] > 0 => Oracle!TvlReadable)]
              \in [Pools -> BOOLEAN]
        BY DEF Oracle!AssetPriceReadable
    <2> QED
        BY <1>2, <2>1 DEF Pool!TypeOK, PoolTypes
<1>4. MApt!TypeOK
    <2>1. [p \in Pools |-> Oracle!AssetPriceReadable(p) /\ Oracle!TvlReadable] \in [Pools -> BOOLEAN]
        BY DEF Oracle!AssetPriceReadable
    <2>2. TvlRead \in Nat
        BY TvlReadType
    <2> QED
        BY <1>2, <2>1, <2>2 DEF MApt!TypeOK, MAptTypes
<1>5. Lp!TypeOK
    BY DEF Lp!TypeOK, LpTypes, RegistryTypes, Tokens
<1> QED
    BY <1>1, <1>3, <1>4, <1>5 DEF TypeOK, ChainTypes

LEMMA InitTypes ==
    ASSUME Init
    PROVE  StateTypes
<1>1. ChainTypes
    <2>1. feed \in [{TvlFeed, PriceFeed} -> Oracle!Round]
        <3> DEFINE first(s) == [hasData |-> s = PriceFeed,
                                answer |-> IF s = PriceFeed THEN 1 ELSE 0, updatedAt |-> 0]
        <3>1. \A s \in {TvlFeed, PriceFeed} : first(s) \in Oracle!Round
            <4> TAKE s \in {TvlFeed, PriceFeed}
            <4>1. (s = PriceFeed) \in BOOLEAN /\ (IF s = PriceFeed THEN 1 ELSE 0) \in Int
                OBVIOUS
            <4> QED
                BY <4>1 DEF Oracle!Round
        <3>2. feed = [s \in {TvlFeed, PriceFeed} |-> first(s)]
            BY DEF Init
        <3> HIDE DEF first
        <3> QED
            BY <3>1, <3>2
    <2>2. block = 0 /\ changedAt = 0 /\ unguarded = FALSE /\ 0 \in 0..MaxBlock
        BY FlowConstants DEF Init
    <2> QED
        BY <2>1, <2>2 DEF ChainTypes
<1>2. AdapterTypes
    BY FlowConstants DEF Init, AdapterTypes, Oracle!AdapterInit, Oracle!Submission
<1>3. PoolTypes
    <2>1. /\ apt = [p \in Pools |-> [u \in Users |-> 0]]
          /\ userBal = [p \in Pools |-> [u \in Users |-> Funds]]
          /\ poolBal = [p \in Pools |-> 0]
          /\ lastDepositTime = [p \in Pools |-> [u \in Users |-> 0]]
        BY DEF Init, Pool!PoolInit
    <2>2. settings \in [Pools -> Pool!Settings]
        <3>1. Pool!Min({0}) \in Nat
            BY LeastOfNaturals DEF Pool!Min, Min
        <3>2. Pool!Min(ReservePercentages) \in Nat
            BY LeastOfNaturals, FlowConstants DEF Pool!Min, Min
        <3> QED
            BY <3>1, <3>2 DEF Init, Pool!PoolInit, Pool!Settings
    <2> QED
        BY <2>1, <2>2, FlowConstants DEF PoolTypes
<1>4. MAptTypes
    BY DEF Init, MApt!MAptInit, MAptTypes
<1>5. LpTypes
    <2>1. /\ lpBal = [t \in Tokens |-> 0] /\ position = [z \in Zaps |-> 0]
          /\ treasury = [t \in Tokens |-> 0]
        BY DEF Init, Lp!HoldingsInit, Tokens
    <2>2. /\ zaps = Zaps /\ swaps = {} /\ lockPeriod \in Nat
          /\ rewardFee = [t \in Tokens |-> 0]
        BY FlowConstants DEF Init
    <2> QED
        BY <2>1, <2>2 DEF LpTypes
<1>6. RegistryTypes
    BY DEF Init, Lp!RegistryInit, RegistryTypes
<1> QED
    BY <1>1, <1>2, <1>3, <1>4, <1>5, <1>6 DEF StateTypes

\* What a pool is valued by is natural.
LEMMA PoolValues ==
    ASSUME StateTypes, NEW p \in Pools
    PROVE  /\ Price[p] \in Nat /\ OnePerPool[p] = 1 /\ poolBal[p] \in Nat
           /\ \A m \in Nat : Pool!ValueOf(m, Price[p], OnePerPool[p]) \in Nat
           /\ Pool!PoolUnderlyerValue(p) \in Nat
           /\ [q \in Pools |-> MApt!GetDeployedValue(q)][p] \in Nat
           /\ Pool!GetPoolTotalValue(p) \in Nat
           /\ Pool!TotalSupply(p) \in Nat /\ \A u \in Users : apt[p][u] <= Pool!TotalSupply(p)
<1>1. Price[p] \in Nat /\ OnePerPool[p] = 1 /\ poolBal[p] \in Nat
    BY PriceType DEF StateTypes, PoolTypes, OnePerPool
<1>2. \A m \in Nat : Pool!ValueOf(m, Price[p], OnePerPool[p]) \in Nat
    <2> TAKE m \in Nat
    <2>1. Price[p] * m \in Nat
        BY <1>1, ProductAndQuotient
    <2> QED
        BY <1>1, <2>1, ProductAndQuotient DEF Pool!ValueOf
<1>3. Pool!PoolUnderlyerValue(p) \in Nat
    BY <1>1, <1>2 DEF Pool!PoolUnderlyerValue
<1>4. [q \in Pools |-> MApt!GetDeployedValue(q)][p] \in Nat
    BY DeployedType DEF StateTypes
<1>5. Pool!GetPoolTotalValue(p) \in Nat
    BY <1>3, <1>4 DEF Pool!GetPoolTotalValue
<1>6. Pool!TotalSupply(p) \in Nat /\ \A u \in Users : apt[p][u] <= Pool!TotalSupply(p)
    <2>1. \A u \in Users : apt[p][u] \in Nat
        BY DEF StateTypes, PoolTypes
    <2> QED
        BY <2>1, SharesAreTotal, TotalOfNaturals, FlowConstants
<1> QED
    BY <1>1, <1>2, <1>3, <1>4, <1>5, <1>6

\* What is minted for a deposit.
LEMMA MintType ==
    ASSUME StateTypes, NEW p \in Pools, NEW n \in Nat
    PROVE  Pool!CalculateMintAmount(p, n) \in Nat
<1> DEFINE value == Pool!ValueOf(n, Price[p], OnePerPool[p])
           total == Pool!GetPoolTotalValue(p)
           supply == Pool!TotalSupply(p)
<1>1. value \in Nat /\ total \in Nat /\ supply \in Nat
    BY PoolValues
<1>2. Pool!CalculateMintAmount(p, n) = Pool!SharesFor(value, total, supply, Factor)
    BY DEF Pool!CalculateMintAmount
<1> HIDE DEF value, total, supply
<1>3. value * Factor \in Nat /\ value * supply \in Nat
    BY <1>1, FlowConstants, ProductAndQuotient
<1>4. total > 0 => (value * supply) \div total \in Nat
    BY <1>1, <1>3, ProductAndQuotient
<1> QED
    BY <1>1, <1>2, <1>3, <1>4 DEF Pool!SharesFor

\* What is paid for shares is no less than nothing: the fees stay within the amount.
LEMMA PaidType ==
    ASSUME StateTypes, NEW p \in Pools, NEW u \in Users, NEW n \in Nat, n > 0, n <= apt[p][u],
           Price[p] > 0, Pool!Fees(p, u, Pool!GetUnderlyerAmount(p, n)) <= Pool!GetUnderlyerAmount(p, n)
    PROVE  Pool!GetUnderlyerAmountWithFee(p, u, n) \in Nat
<1> DEFINE total == Pool!GetPoolTotalValue(p)
           supply == Pool!TotalSupply(p)
           amount == Pool!GetUnderlyerAmount(p, n)
<1>1. /\ total \in Nat /\ supply \in Nat /\ Price[p] \in Nat /\ OnePerPool[p] = 1
      /\ apt[p][u] \in Nat /\ apt[p][u] <= supply
    BY PoolValues DEF StateTypes, PoolTypes
<1>2. amount = ((n * total * OnePerPool[p]) \div supply) \div Price[p]
    BY DEF Pool!GetUnderlyerAmount, Pool!UnderlyerFor
<1> HIDE DEF total, supply
<1>3. n * total * OnePerPool[p] \in Nat
    BY <1>1, ProductAndQuotient
<1>4. (n * total * OnePerPool[p]) \div supply \in Nat
    BY <1>1, <1>3, ProductAndQuotient
<1>5. amount \in Nat
    BY <1>1, <1>2, <1>4, ProductAndQuotient
<1>6. Pool!Fees(p, u, amount) \in Nat
    <2> DEFINE fee1 == settings[p].withdrawFee
               fee2 == settings[p].arbitrageFee
    <2>1. fee1 \in Nat /\ fee2 \in Nat
        BY DEF StateTypes, PoolTypes, Pool!Settings
    <2> HIDE DEF amount, fee1, fee2
    <2>2. amount * fee1 \in Nat /\ amount * fee2 \in Nat
        BY <1>5, <2>1, ProductAndQuotient
    <2>3. (amount * fee1) \div 1 \in Nat /\ (amount * fee2) \div 100 \in Nat
        BY <2>2, ProductAndQuotient
    <2> QED
        BY <2>3 DEF Pool!Fees, fee1, fee2
<1>7. Pool!GetUnderlyerAmountWithFee(p, u, n) = amount - Pool!Fees(p, u, amount)
    BY DEF Pool!GetUnderlyerAmountWithFee
<1>8. Pool!Fees(p, u, amount) <= amount
    OBVIOUS
<1> HIDE DEF amount
<1> QED
    BY <1>5, <1>6, <1>7, <1>8

\* A user's or a table's entry that changes.
LEMMA EntryChanges ==
    ASSUME NEW f \in [Pools -> [Users -> Nat]], NEW p \in Pools, NEW u \in Users, NEW x \in Nat
    PROVE  [f EXCEPT ![p][u] = x] \in [Pools -> [Users -> Nat]]
OBVIOUS

\* addLiquidity
LEMMA DepositTypes ==
    ASSUME StateTypes, NEW p \in Pools, NEW u \in Users, NEW n \in 1..userBal[p][u], Deposit(p, u, n)
    PROVE  PoolTypes'
<1> DEFINE m == Pool!CalculateMintAmount(p, n)
<1>1. n \in Nat /\ userBal[p][u] \in Nat /\ userBal[p][u] - n \in Nat /\ apt[p][u] \in Nat
    BY DEF StateTypes, PoolTypes
<1>2. m \in Nat
    BY <1>1, MintType
<1>3. /\ lastDepositTime' = [lastDepositTime EXCEPT ![p][u] = 0]
      /\ apt' = [apt EXCEPT ![p][u] = apt[p][u] + m]
      /\ userBal' = [userBal EXCEPT ![p][u] = userBal[p][u] - n]
      /\ poolBal' = [poolBal EXCEPT ![p] = poolBal[p] + n]
      /\ UNCHANGED settings
    BY DEF Deposit, Pool!AddLiquidity
<1> HIDE DEF m
<1>4. apt[p][u] + m \in Nat
    BY <1>1, <1>2
<1>5. /\ apt' \in [Pools -> [Users -> Nat]] /\ userBal' \in [Pools -> [Users -> Nat]]
      /\ lastDepositTime' \in [Pools -> [Users -> Nat]]
    BY <1>1, <1>3, <1>4, EntryChanges DEF StateTypes, PoolTypes
<1>6. poolBal' \in [Pools -> Nat] /\ settings' \in [Pools -> Pool!Settings]
    BY <1>1, <1>3 DEF StateTypes, PoolTypes
<1> QED
    BY <1>5, <1>6 DEF PoolTypes

\* redeem
LEMMA RedeemTypes ==
    ASSUME StateTypes, NEW p \in Pools, NEW u \in Users, NEW n \in 1..apt[p][u], Redeem(p, u, n)
    PROVE  PoolTypes'
<1> DEFINE paid == Pool!GetUnderlyerAmountWithFee(p, u, n)
<1>1. n \in Nat /\ n > 0 /\ n <= apt[p][u] /\ apt[p][u] \in Nat /\ userBal[p][u] \in Nat
      /\ poolBal[p] \in Nat /\ apt[p][u] - n \in Nat
    BY DEF StateTypes, PoolTypes
<1>2. /\ Price[p] > 0
      /\ Pool!Fees(p, u, Pool!GetUnderlyerAmount(p, n)) <= Pool!GetUnderlyerAmount(p, n)
      /\ paid <= poolBal[p]
      /\ apt' = [apt EXCEPT ![p][u] = apt[p][u] - n]
      /\ userBal' = [userBal EXCEPT ![p][u] = userBal[p][u] + paid]
      /\ poolBal' = [poolBal EXCEPT ![p] = poolBal[p] - paid]
      /\ UNCHANGED <<lastDepositTime, settings>>
    BY DEF Redeem, Pool!Redeem, Pool!ReserveCovers
<1>3. paid \in Nat
    BY <1>1, <1>2, PaidType
<1> HIDE DEF paid
<1>4. userBal[p][u] + paid \in Nat /\ poolBal[p] - paid \in Nat
    BY <1>1, <1>2, <1>3
<1>5. apt' \in [Pools -> [Users -> Nat]] /\ userBal' \in [Pools -> [Users -> Nat]]
    BY <1>1, <1>2, <1>4, EntryChanges DEF StateTypes, PoolTypes
<1>6. poolBal' \in [Pools -> Nat]
    BY <1>2, <1>4 DEF StateTypes, PoolTypes
<1> QED
    BY <1>2, <1>5, <1>6 DEF StateTypes, PoolTypes

\* setReservePercentage
LEMMA PercentageTypes ==
    ASSUME StateTypes, NEW p \in Pools, NEW r \in ReservePercentages, SetReservePercentage(p, r)
    PROVE  PoolTypes'
<1>1. r \in Nat
    BY FlowConstants
<1>2. settings' = [settings EXCEPT ![p] = [settings[p] EXCEPT !.reservePercentage = r]]
      /\ UNCHANGED <<apt, userBal, poolBal, lastDepositTime>>
    BY DEF SetReservePercentage, Pool!SetReservePercentage, Pool!Set
<1>3. [settings[p] EXCEPT !.reservePercentage = r] \in Pool!Settings
    BY <1>1 DEF StateTypes, PoolTypes, Pool!Settings
<1>4. settings' \in [Pools -> Pool!Settings]
    BY <1>2, <1>3 DEF StateTypes, PoolTypes
<1> QED
    BY <1>2, <1>4 DEF StateTypes, PoolTypes

\* What the pools of a call ask for.
TopUpsOf(times) ==
    [p \in Pools |-> IF times[p] > 0 THEN Pool!GetReserveTopUpValue(p) ELSE 0]

\* Signed division.
LEMMA TruncDivType ==
    ASSUME NEW a \in Int, NEW b \in Nat, b > 0
    PROVE  Pool!TruncDiv(a, b) \in Int
<1>1. a \div b \in Int /\ (-a) \div b \in Int
    OBVIOUS
<1> QED
    BY <1>1 DEF Pool!TruncDiv

LEMMA TopUpType ==
    ASSUME StateTypes, NEW times \in Calls, Quoted(times)
    PROVE  TopUpsOf(times) \in [Pools -> Int]
<1> SUFFICES ASSUME NEW p \in Pools, times[p] > 0
             PROVE  Pool!GetReserveTopUpValue(p) \in Int
    BY DEF TopUpsOf
<1> DEFINE deployed == [q \in Pools |-> MApt!GetDeployedValue(q)][p]
           reserve == Pool!PoolUnderlyerValue(p)
           percentage == settings[p].reservePercentage
           top == Pool!TopUpValue(deployed, reserve, percentage)
<1>1. deployed \in Nat /\ reserve \in Nat /\ Price[p] \in Nat /\ OnePerPool[p] = 1
    BY PoolValues
<1>2. Price[p] > 0 \/ top = 0
    BY DEF Quoted, Named, Pool!TopUpComputable
<1>3. percentage \in Nat
    BY DEF StateTypes, PoolTypes, Pool!Settings
<1>4. Pool!GetReserveTopUpValue(p)
          = IF top = 0 THEN 0 ELSE Pool!TruncDiv(top * OnePerPool[p], Price[p])
    BY DEF Pool!GetReserveTopUpValue, Pool!TopUpAmount
<1> HIDE DEF deployed, reserve, percentage
<1>5. top \in Int
    <2>1. deployed * percentage \in Nat /\ reserve * 100 \in Nat
        BY <1>1, <1>3, ProductAndQuotient
    <2>2. deployed * percentage - reserve * 100 \in Int /\ percentage + 100 \in Nat /\ percentage + 100 > 0
        BY <1>3, <2>1
    <2> QED
        BY <2>2, TruncDivType DEF Pool!TopUpValue
<1>6. top * OnePerPool[p] \in Int
    BY <1>1, <1>5
<1> HIDE DEF top
<1> QED
    BY <1>1, <1>2, <1>4, <1>6, TruncDivType

\* mAPT is minted or burned in naturals, and for an amount that is moved.
LEMMA DeltaType ==
    ASSUME StateTypes, NEW p \in Pools, NEW amount \in Nat
    PROVE  /\ MApt!CalculateDelta(p, amount) \in Nat
           /\ amount = 0 => MApt!CalculateDelta(p, amount) = 0
<1> DEFINE value == MApt!ValueOf(amount, Price[p], OnePerPool[p])
           supply == MApt!MAptSupply
<1>1. /\ Price[p] \in Nat /\ OnePerPool[p] = 1 /\ supply \in Nat /\ TvlRead \in Nat
      /\ Factor \in Nat
    BY PoolValues, LentType, TvlReadType, FlowConstants DEF StateTypes
<1>2. MApt!CalculateDelta(p, amount) = MApt!SharesFor(value, TvlRead, supply, Factor)
    BY DEF MApt!CalculateDelta
<1>3. value \in Nat /\ (amount = 0 => value = 0)
    <2>1. Price[p] * amount \in Nat /\ Price[p] * 0 = 0
        BY <1>1, ProductAndQuotient
    <2> QED
        BY <1>1, <2>1, ProductAndQuotient DEF MApt!ValueOf
<1> HIDE DEF value, supply
<1>4. value * Factor \in Nat /\ value * supply \in Nat /\ 0 * Factor = 0 /\ 0 * supply = 0
    BY <1>1, <1>3, ProductAndQuotient
<1>5. TvlRead > 0 => (value * supply) \div TvlRead \in Nat /\ 0 \div TvlRead = 0
    BY <1>1, <1>4, ProductAndQuotient
<1> QED
    BY <1>1, <1>2, <1>3, <1>4, <1>5 DEF MApt!SharesFor

LEMMA MovedType ==
    ASSUME StateTypes, NEW times \in Calls, NEW amounts \in [Pools -> Nat]
    PROVE  /\ MApt!Moved(times, amounts) \in [Pools -> Nat]
           /\ MApt!Deltas(times, amounts) \in [Pools -> Nat]
           /\ \A p \in Pools : /\ MApt!Moved(times, amounts)[p] > 0 => times[p] > 0
                               /\ MApt!Deltas(times, amounts)[p] > 0 =>
                                      times[p] > 0 /\ MApt!Moved(times, amounts)[p] > 0
<1> DEFINE delta(p) == MApt!CalculateDelta(p, amounts[p])
<1>1. \A p \in Pools : /\ times[p] \in {0, 1} /\ amounts[p] \in Nat /\ delta(p) \in Nat
                       /\ amounts[p] = 0 => delta(p) = 0
    BY DeltaType DEF Calls
<1>2. /\ MApt!Moved(times, amounts)
             = [p \in Pools |-> IF delta(p) = 0 THEN 0 ELSE times[p] * amounts[p]]
      /\ MApt!Deltas(times, amounts) = [p \in Pools |-> times[p] * delta(p)]
    BY DEF MApt!Moved, MApt!Deltas
<1> HIDE DEF delta
<1>3. \A p \in Pools : /\ times[p] * amounts[p] \in {0, amounts[p]}
                       /\ times[p] * delta(p) \in {0, delta(p)}
                       /\ times[p] = 0 => times[p] * amounts[p] = 0 /\ times[p] * delta(p) = 0
                       /\ times[p] = 1 => times[p] * amounts[p] = amounts[p]
    BY <1>1
<1> QED
    BY <1>1, <1>2, <1>3

\* The amounts of a call are natural.
LEMMA FundAmountsType ==
    ASSUME NEW topUps \in [Pools -> Int]
    PROVE  MApt!FundAmounts(topUps) \in [Pools -> Nat]
BY DEF MApt!FundAmounts, MApt!FundAmount

LEMMA WithdrawAmountsType ==
    ASSUME LpTypes, NEW topUps \in [Pools -> Int]
    PROVE  MApt!WithdrawAmounts(topUps) \in [Pools -> Nat]
<1>1. \A p \in Pools : [q \in Pools |-> lpBal[q]][p] \in Nat
    BY FlowConstants DEF LpTypes
<1> QED
    BY <1>1 DEF MApt!WithdrawAmounts, MApt!WithdrawAmount

LEMMA LockTypes ==
    ASSUME AdapterTypes, block \in Nat, lockPeriod \in Nat, DefaultLock \/ LpLock
    PROVE  AdapterTypes'
BY DEF AdapterTypes, DefaultLock, LpLock, Oracle!Lock, Oracle!LockFor, Oracle!LockUntil,
       Oracle!sourceVars, Oracle!overrideVars, adapterVars

\* fundLpAccount
LEMMA FundTypes ==
    ASSUME StateTypes, NEW times \in Calls, FundLpAccount(times)
    PROVE  PoolTypes' /\ MAptTypes' /\ LpTypes' /\ RegistryTypes' /\ AdapterTypes'
<1> DEFINE amounts == MApt!FundAmounts(TopUpsOf(times))
           moved == MApt!Moved(times, amounts)
           minted == MApt!Deltas(times, amounts)
<1>1. /\ Quoted(times) /\ MApt!Quoted(times)
      /\ MApt!FundLpAccount(times, TopUpsOf(times))
      /\ Pool!TransferToLpAccount(moved)
      /\ Lp!Receive(moved)
      /\ Lp!RegisterPoolUnderlyers(Named(times))
      /\ DefaultLock
    BY DEF FundLpAccount, TopUpsOf, Quoted
<1>2. amounts \in [Pools -> Nat]
    BY <1>1, TopUpType, FundAmountsType
<1>3. moved \in [Pools -> Nat] /\ minted \in [Pools -> Nat]
    BY <1>2, MovedType
<1>4. mApt' = [p \in Pools |-> mApt[p] + minted[p]]
    BY <1>1 DEF MApt!FundLpAccount, MApt!MultipleMint
<1> HIDE DEF moved, minted
<1>5. PoolTypes'
    <2>1. \A p \in Pools : poolBal[p] \in Nat /\ moved[p] \in Nat /\ moved[p] <= poolBal[p]
        BY <1>1, <1>3 DEF Pool!TransferToLpAccount, StateTypes, PoolTypes
    <2>2. poolBal' \in [Pools -> Nat]
        BY <1>1, <2>1 DEF Pool!TransferToLpAccount
    <2> QED
        BY <1>1, <2>2 DEF Pool!TransferToLpAccount, StateTypes, PoolTypes
<1>6. MAptTypes'
    BY <1>3, <1>4 DEF StateTypes, MAptTypes
<1>7. LpTypes'
    <2>1. lpBal' = [t \in Tokens |-> IF t \in DOMAIN moved THEN lpBal[t] + moved[t] ELSE lpBal[t]]
          /\ UNCHANGED <<position, treasury, zaps, swaps, lockPeriod, rewardFee>>
        BY <1>1 DEF Lp!Receive, Lp!lpConfig, Tokens
    <2>2. lpBal' \in [Tokens -> Nat]
        BY <1>3, <2>1 DEF StateTypes, LpTypes
    <2> QED
        BY <2>1, <2>2 DEF StateTypes, LpTypes
<1>8. RegistryTypes'
    BY <1>1, FlowConstants DEF Lp!RegisterPoolUnderlyers, Named, StateTypes, RegistryTypes
<1>9. AdapterTypes'
    BY <1>1, LockTypes, FlowConstants DEF StateTypes, ChainTypes, LpTypes
<1> QED
    BY <1>5, <1>6, <1>7, <1>8, <1>9

\* withdrawFromLpAccount
LEMMA WithdrawTypes ==
    ASSUME StateTypes, NEW times \in Calls, WithdrawFromLpAccount(times)
    PROVE  PoolTypes' /\ MAptTypes' /\ LpTypes' /\ RegistryTypes' /\ AdapterTypes'
<1> DEFINE amounts == MApt!WithdrawAmounts(TopUpsOf(times))
           moved == MApt!Moved(times, amounts)
           burned == MApt!Deltas(times, amounts)
<1>1. /\ Quoted(times) /\ MApt!Quoted(times)
      /\ MApt!WithdrawFromLpAccount(times, TopUpsOf(times))
      /\ Lp!TransferToPool(moved)
      /\ Pool!ReceiveFromLpAccount(moved)
      /\ Lp!RegisterPoolUnderlyers(Named(times))
      /\ DefaultLock
    BY DEF WithdrawFromLpAccount, TopUpsOf, Quoted
<1>2. amounts \in [Pools -> Nat]
    BY <1>1, TopUpType, WithdrawAmountsType DEF StateTypes
<1>3. moved \in [Pools -> Nat] /\ burned \in [Pools -> Nat]
    BY <1>2, MovedType
<1>4. /\ \A p \in Pools : burned[p] <= mApt[p]
      /\ mApt' = [p \in Pools |-> mApt[p] - burned[p]]
    BY <1>1 DEF MApt!WithdrawFromLpAccount, MApt!MultipleBurn, MApt!Burnable
<1> HIDE DEF moved, burned
<1>5. PoolTypes'
    BY <1>1, <1>3 DEF Pool!ReceiveFromLpAccount, StateTypes, PoolTypes
<1>6. MAptTypes'
    BY <1>3, <1>4 DEF StateTypes, MAptTypes
<1>7. LpTypes'
    <2>1. /\ \A t \in DOMAIN moved : moved[t] <= lpBal[t]
          /\ lpBal' = [t \in Tokens |-> IF t \in DOMAIN moved THEN lpBal[t] - moved[t] ELSE lpBal[t]]
          /\ UNCHANGED <<position, treasury, zaps, swaps, lockPeriod, rewardFee>>
        BY <1>1 DEF Lp!TransferToPool, Lp!Held, Lp!lpConfig, Tokens
    <2>2. lpBal' \in [Tokens -> Nat]
        BY <1>3, <2>1 DEF StateTypes, LpTypes
    <2> QED
        BY <2>1, <2>2 DEF StateTypes, LpTypes
<1>8. RegistryTypes'
    BY <1>1, FlowConstants DEF Lp!RegisterPoolUnderlyers, Named, StateTypes, RegistryTypes
<1>9. AdapterTypes'
    BY <1>1, LockTypes, FlowConstants DEF StateTypes, ChainTypes, LpTypes
<1> QED
    BY <1>5, <1>6, <1>7, <1>8, <1>9

\* deployStrategy, with what the LP Safe passes.
LEMMA DeployTypes ==
    ASSUME StateTypes, NEW z \in Zaps, NEW amounts \in [ZapCoins[z] -> Nat],
           DeployStrategy(z, amounts)
    PROVE  LpTypes' /\ AdapterTypes'
<1>1. ZapCoins[z] \subseteq Tokens /\ IsFiniteSet(ZapCoins[z])
    BY FlowConstants, FS_Subset
<1>2. Total(amounts, ZapCoins[z]) \in Nat
    BY <1>1, TotalOfNaturals
<1>3. /\ \A t \in ZapCoins[z] : amounts[t] <= lpBal[t]
      /\ lpBal' = [t \in Tokens |->
             IF t \in ZapCoins[z] THEN lpBal[t] - amounts[t] ELSE lpBal[t]]
      /\ UNCHANGED <<treasury, zaps, swaps, lockPeriod, rewardFee>>
    BY DEF DeployStrategy, Lp!DeployStrategy, Lp!Held, Lp!lpConfig, Tokens
<1>4. position' = [position EXCEPT ![z] = position[z] + Total(amounts, ZapCoins[z])]
    BY LpTotalIsTotal DEF DeployStrategy, Lp!DeployStrategy
<1>5. position[z] + Total(amounts, ZapCoins[z]) \in Nat
    BY <1>2 DEF StateTypes, LpTypes
<1>6. lpBal' \in [Tokens -> Nat]
    BY <1>1, <1>3 DEF StateTypes, LpTypes
<1>7. position' \in [Zaps -> Nat]
    BY <1>4, <1>5 DEF StateTypes, LpTypes
<1>8. LpTypes'
    BY <1>3, <1>6, <1>7 DEF StateTypes, LpTypes
<1>9. AdapterTypes'
    BY LockTypes, FlowConstants DEF DeployStrategy, StateTypes, ChainTypes, LpTypes
<1> QED
    BY <1>8, <1>9

\* unwindStrategy
LEMMA UnwindTypes ==
    ASSUME StateTypes, NEW z \in Zaps, NEW t \in ZapCoins[z], NEW n \in 0..position[z],
           UnwindStrategy(z, n, t)
    PROVE  LpTypes' /\ AdapterTypes'
<1>1. t \in Tokens /\ position[z] \in Nat /\ lpBal[t] \in Nat /\ n \in Nat /\ n <= position[z]
    BY FlowConstants DEF StateTypes, LpTypes
<1>2. /\ position' = [position EXCEPT ![z] = position[z] - n]
      /\ lpBal' = [lpBal EXCEPT ![t] = lpBal[t] + n]
      /\ UNCHANGED <<treasury, zaps, swaps, lockPeriod, rewardFee>>
    BY DEF UnwindStrategy, Lp!UnwindStrategy, Lp!lpConfig
<1>3. position' \in [Zaps -> Nat] /\ lpBal' \in [Tokens -> Nat]
    BY <1>1, <1>2 DEF StateTypes, LpTypes
<1>4. LpTypes'
    BY <1>2, <1>3 DEF StateTypes, LpTypes
<1>5. AdapterTypes'
    BY LockTypes, FlowConstants DEF UnwindStrategy, StateTypes, ChainTypes, LpTypes
<1> QED
    BY <1>4, <1>5

\* swapWith3Pool
LEMMA SwapTypes ==
    ASSUME StateTypes, NEW t \in ThreePool, NEW u \in ThreePool, NEW n \in 1..lpBal[t],
           SwapWith3Pool(t, u, n)
    PROVE  LpTypes' /\ AdapterTypes'
<1>1. /\ t \in Tokens /\ u \in Tokens /\ t # u /\ lpBal[t] \in Nat /\ lpBal[u] \in Nat
      /\ n \in Nat /\ n <= lpBal[t]
    BY FlowConstants DEF StateTypes, LpTypes, SwapWith3Pool, Lp!SwapWith3Pool
<1>2. /\ lpBal' = [lpBal EXCEPT ![t] = lpBal[t] - n, ![u] = lpBal[u] + n]
      /\ UNCHANGED <<position, treasury, zaps, swaps, lockPeriod, rewardFee>>
    BY <1>1 DEF SwapWith3Pool, Lp!SwapWith3Pool, Lp!Exchange, Lp!lpConfig, StateTypes, LpTypes
<1>3. lpBal' \in [Tokens -> Nat]
    BY <1>1, <1>2 DEF StateTypes, LpTypes
<1>4. LpTypes'
    BY <1>2, <1>3 DEF StateTypes, LpTypes
<1>5. AdapterTypes'
    BY LockTypes, FlowConstants DEF SwapWith3Pool, StateTypes, ChainTypes, LpTypes
<1> QED
    BY <1>4, <1>5

\* The registries.
LEMMA RegistryTypesKept ==
    ASSUME StateTypes, RegistryAdmin
    PROVE  RegistryTypes' /\ AdapterTypes'
<1>1. AdapterTypes'
    BY LockTypes, FlowConstants DEF RegistryAdmin, StateTypes, ChainTypes, LpTypes
<1>2. ASSUME NEW a \in Allocations, Lp!RegisterAssetAllocation(a) \/ Lp!RemoveAssetAllocation(a)
      PROVE  RegistryTypes'
    BY <1>2 DEF Lp!RegisterAssetAllocation, Lp!RemoveAssetAllocation, StateTypes, RegistryTypes
<1>3. ASSUME NEW t \in Tokens, Lp!RegisterErc20Token(t) \/ Lp!RemoveErc20Token(t)
      PROVE  RegistryTypes'
    BY <1>3 DEF Lp!RegisterErc20Token, Lp!RemoveErc20Token, StateTypes, RegistryTypes
<1> QED
    BY <1>1, <1>2, <1>3 DEF RegistryAdmin

\* emergencySetTvl, emergencyUnsetTvl
LEMMA SubmissionTypes ==
    ASSUME StateTypes, SubmitTvl
    PROVE  AdapterTypes'
<1>1. ASSUME NEW v \in Values, NEW n \in Periods, Oracle!EmergencySetTvl(v, n)
      PROVE  AdapterTypes'
    <2>1. v \in Nat /\ block + n \in Nat
        BY FlowConstants DEF StateTypes, ChainTypes
    <2> QED
        BY <1>1, <2>1 DEF Oracle!EmergencySetTvl, Oracle!lockVars, Oracle!sourceVars,
                          Oracle!Submission, StateTypes, AdapterTypes
<1>2. ASSUME Oracle!EmergencyUnsetTvl PROVE AdapterTypes'
    <2>1. block \in Nat
        BY FlowConstants DEF StateTypes, ChainTypes
    <2> QED
        BY <1>2, <2>1 DEF Oracle!EmergencyUnsetTvl, Oracle!lockVars, Oracle!sourceVars,
                          Oracle!Submission, StateTypes, AdapterTypes
<1> QED
    BY <1>1, <1>2 DEF SubmitTvl

\* emergencyUnlock, emergencyExit
LEMMA EmergencyTypes ==
    ASSUME StateTypes, Emergency
    PROVE  PoolTypes' /\ MAptTypes' /\ LpTypes' /\ RegistryTypes' /\ AdapterTypes'
<1>1. ASSUME Oracle!EmergencyUnlock PROVE AdapterTypes'
    BY <1>1, FlowConstants DEF Oracle!EmergencyUnlock, Oracle!LockUntil, Oracle!sourceVars,
                Oracle!overrideVars, StateTypes, ChainTypes, AdapterTypes
<1>2. ASSUME NEW t \in Tokens, Lp!EmergencyExit(t) PROVE LpTypes'
    BY <1>2 DEF Lp!EmergencyExit, Lp!lpConfig, StateTypes, LpTypes
<1> QED
    BY <1>1, <1>2 DEF Emergency, StateTypes, PoolTypes, MAptTypes, LpTypes, RegistryTypes,
        AdapterTypes, poolVars, lpVars, registryVars, adapterVars

\* All transactions, a report and a block.
LEMMA TransactionTypes ==
    ASSUME StateTypes, Transaction
    PROVE  StateTypes'
<1> DEFINE AllTypes == PoolTypes' /\ MAptTypes' /\ LpTypes' /\ RegistryTypes' /\ AdapterTypes'
<1>1. /\ UNCHANGED poolVars => PoolTypes'
      /\ UNCHANGED mApt => MAptTypes'
      /\ UNCHANGED lpVars => LpTypes'
      /\ UNCHANGED registryVars => RegistryTypes'
      /\ UNCHANGED adapterVars => AdapterTypes'
    BY DEF StateTypes, PoolTypes, MAptTypes, LpTypes, RegistryTypes, AdapterTypes,
           poolVars, lpVars, registryVars, adapterVars
<1>2. ASSUME UserStep PROVE AllTypes
    <2> PICK p \in Pools, u \in Users :
            \/ \E n \in 1..userBal[p][u] : Deposit(p, u, n)
            \/ \E n \in 1..apt[p][u] : Redeem(p, u, n)
        BY <1>2 DEF UserStep
    <2>1. PoolTypes'
        BY DepositTypes, RedeemTypes
    <2>2. UNCHANGED <<adapterVars, mApt, lpVars, registryVars>>
        BY DEF Deposit, Redeem
    <2> QED
        BY <1>1, <2>1, <2>2
<1>3. ASSUME NEW z \in Zaps, NEW t \in ZapCoins[z], NEW n \in 1..lpBal[t],
             DeployStrategy(z, [c \in ZapCoins[z] |-> IF c = t THEN n ELSE 0])
      PROVE  AllTypes
    <2>1. [c \in ZapCoins[z] |-> IF c = t THEN n ELSE 0] \in [ZapCoins[z] -> Nat]
        OBVIOUS
    <2>2. LpTypes' /\ AdapterTypes'
        BY <1>3, <2>1, DeployTypes
    <2> QED
        BY <1>1, <1>3, <2>2 DEF DeployStrategy
<1>4. ASSUME NEW z \in Zaps, NEW t \in ZapCoins[z], NEW n \in 0..position[z],
             UnwindStrategy(z, n, t)
      PROVE  AllTypes
    BY <1>1, <1>4, UnwindTypes DEF UnwindStrategy
<1>5. ASSUME NEW t \in ThreePool, NEW u \in ThreePool, NEW n \in 1..lpBal[t],
             SwapWith3Pool(t, u, n)
      PROVE  AllTypes
    BY <1>1, <1>5, SwapTypes DEF SwapWith3Pool
<1>6. ASSUME LpSafeStep PROVE AllTypes
    BY <1>3, <1>4, <1>5, <1>6, FundTypes, WithdrawTypes DEF LpSafeStep
<1>7. ASSUME AdminStep PROVE AllTypes
    <2>1. ASSUME NEW p \in Pools, NEW r \in ReservePercentages, SetReservePercentage(p, r)
          PROVE  AllTypes
        BY <1>1, <2>1, PercentageTypes DEF SetReservePercentage
    <2>2. ASSUME RegistryAdmin PROVE AllTypes
        BY <1>1, <2>2, RegistryTypesKept DEF RegistryAdmin
    <2>3. ASSUME SubmitTvl PROVE AllTypes
        BY <1>1, <2>3, SubmissionTypes DEF SubmitTvl
    <2> QED
        BY <1>7, <2>1, <2>2, <2>3 DEF AdminStep
<1>8. AllTypes /\ unguarded' \in BOOLEAN
    BY <1>2, <1>6, <1>7, EmergencyTypes DEF Transaction, StateTypes, ChainTypes
<1>9. ChainTypes'
    BY <1>8 DEF Transaction, TvlChangeNoted, chainVars, StateTypes, ChainTypes
<1> QED
    BY <1>8, <1>9 DEF StateTypes

LEMMA ReportTypes ==
    ASSUME StateTypes, ReportTvl
    PROVE  StateTypes'
<1>1. Lp!TrackedTvl \in Nat
    BY TrackedType DEF StateTypes
<1>2. [hasData |-> TRUE, answer |-> Lp!TrackedTvl, updatedAt |-> 0] \in Oracle!Round
    BY <1>1 DEF Oracle!Round
<1>3. feed' = [feed EXCEPT ![TvlFeed] =
                   [hasData |-> TRUE, answer |-> Lp!TrackedTvl, updatedAt |-> 0]]
    BY DEF ReportTvl, Oracle!AnswerUpdated
<1>4. feed' \in [{TvlFeed, PriceFeed} -> Oracle!Round]
    BY <1>2, <1>3 DEF StateTypes, ChainTypes
<1> QED
    BY <1>4 DEF ReportTvl, StateTypes, ChainTypes, PoolTypes, MAptTypes, LpTypes, RegistryTypes,
        AdapterTypes, poolVars, lpVars, registryVars, adapterVars

LEMMA BlockTypes ==
    ASSUME StateTypes, NewBlock
    PROVE  StateTypes'
<1>1. block' \in 0..MaxBlock
    BY FlowConstants DEF NewBlock, StateTypes, ChainTypes
<1> QED
    BY <1>1 DEF NewBlock, StateTypes, ChainTypes, PoolTypes, MAptTypes, LpTypes, RegistryTypes,
        AdapterTypes, poolVars, lpVars, registryVars, adapterVars

LEMMA StutterTypes ==
    ASSUME StateTypes, UNCHANGED vars
    PROVE  StateTypes'
BY DEF vars, chainVars, StateTypes, ChainTypes, PoolTypes, MAptTypes, LpTypes, RegistryTypes,
       AdapterTypes, poolVars, lpVars, registryVars, adapterVars

\* The values of all variables, of whatever size the system is.
THEOREM StateStays == Spec => []StateTypes
<1>1. ASSUME StateTypes, [Next]_vars PROVE StateTypes'
    BY <1>1, TransactionTypes, ReportTypes, BlockTypes, StutterTypes DEF Next
<1> QED
    BY InitTypes, <1>1, PTL DEF Spec

\* The types of all five components and of what each sees of the others: an amount that is
\* moved, minted, burned or paid is never more than there is.
THEOREM FlowTypeCorrect == Spec => []TypeOK
BY StateStays, TypesFollow, PTL

-----------------------------------------------------------------------------
\* What nobody moved and nobody registered counts as before.
LEMMA TvlStays ==
    ASSUME UNCHANGED <<lpVars, registryVars>>
    PROVE  Lp!TrackedTvl' = Lp!TrackedTvl
BY DEF lpVars, registryVars, Lp!TrackedTvl, Lp!Counted

\* lock() covers the delay, whatever lock it replaces.
LEMMA DefaultLockCovers ==
    ASSUME FlowTypes, DefaultLock
    PROVE  /\ lockEnd' \in Nat /\ block + Latency <= lockEnd'
           /\ UNCHANGED <<defaultLockPeriod, tvlSource>>
BY LatencyAssumption DEF FlowTypes, DefaultLock, Oracle!Lock, Oracle!LockUntil, Oracle!sourceVars

\* So does the LP Account's lock, or the longer one that is kept.
LEMMA LpLockCovers ==
    ASSUME FlowTypes, LpLock
    PROVE  /\ lockEnd' \in Nat /\ block + Latency <= lockEnd'
           /\ UNCHANGED <<defaultLockPeriod, tvlSource>>
<1>1. CASE Oracle!LockFor(lockPeriod)
    BY <1>1, LatencyAssumption
    DEF FlowTypes, Oracle!LockFor, Oracle!LockUntil, Oracle!sourceVars
<1>2. CASE ~Oracle!LockForAccepted(lockPeriod) /\ UNCHANGED adapterVars
    BY <1>2, LatencyAssumption DEF FlowTypes, Oracle!LockForAccepted, adapterVars
<1> QED
    BY <1>1, <1>2 DEF LpLock

\* Every transaction that changes what counts locks for the delay; only the Emergency
\* Safe's own go past the lock.
LEMMA TransactionsLock ==
    ASSUME FlowTypes, Transaction
    PROVE  /\ FlowTypes'
           /\ \/ block + Latency <= lockEnd'
              \/ UNCHANGED <<lockEnd, lpVars, registryVars>>
              \/ unguarded'
           /\ unguarded => unguarded'
<1> DEFINE Locks == lockEnd' \in Nat /\ block + Latency <= lockEnd'
           Passes == UNCHANGED <<lockEnd, lpVars, registryVars>>
           Same == UNCHANGED <<defaultLockPeriod, lockPeriod, tvlSource>>
<1>1. ASSUME UserStep PROVE Passes /\ Same
    BY <1>1 DEF UserStep, Deposit, Redeem, adapterVars, lpVars
<1>2. ASSUME NEW times \in Calls, FundLpAccount(times) \/ WithdrawFromLpAccount(times)
      PROVE  Locks /\ Same
    <2>1. DefaultLock /\ UNCHANGED lockPeriod
        BY <1>2 DEF FundLpAccount, WithdrawFromLpAccount, Lp!Receive, Lp!TransferToPool, Lp!lpConfig
    <2> QED
        BY <2>1, DefaultLockCovers
<1>3. ASSUME NEW z \in Zaps, NEW amounts, DeployStrategy(z, amounts)
      PROVE  Locks /\ Same
    BY <1>3, LpLockCovers DEF DeployStrategy, Lp!DeployStrategy, Lp!lpConfig
<1>4. ASSUME NEW z \in Zaps, NEW n, NEW t, UnwindStrategy(z, n, t)
      PROVE  Locks /\ Same
    BY <1>4, LpLockCovers DEF UnwindStrategy, Lp!UnwindStrategy, Lp!lpConfig
<1>5. ASSUME NEW t, NEW u, NEW n, SwapWith3Pool(t, u, n)
      PROVE  Locks /\ Same
    BY <1>5, LpLockCovers DEF SwapWith3Pool, Lp!SwapWith3Pool, Lp!Exchange, Lp!lpConfig
<1>6. ASSUME LpSafeStep PROVE Locks /\ Same
    BY <1>6, <1>2, <1>3, <1>4, <1>5 DEF LpSafeStep
<1>7. ASSUME NEW p \in Pools, NEW r, SetReservePercentage(p, r) PROVE Passes /\ Same
    BY <1>7 DEF SetReservePercentage, adapterVars, lpVars
<1>8. ASSUME RegistryAdmin PROVE Locks /\ Same
    BY <1>8, DefaultLockCovers DEF RegistryAdmin, lpVars
<1>9. ASSUME SubmitTvl PROVE Passes /\ Same
    BY <1>9 DEF SubmitTvl, Oracle!EmergencySetTvl, Oracle!EmergencyUnsetTvl,
                Oracle!lockVars, Oracle!sourceVars, lpVars
<1>10. ASSUME Emergency PROVE lockEnd' \in Nat /\ Same
    BY <1>10 DEF Emergency, FlowTypes, Oracle!EmergencyUnlock, Oracle!LockUntil,
                 Oracle!sourceVars, Lp!EmergencyExit, Lp!lpConfig, adapterVars, lpVars
<1>11. /\ changedAt' \in {changedAt, block}
       /\ UNCHANGED <<block, feed>>
    BY DEF Transaction, TvlChangeNoted, chainVars
<1>12. ASSUME UserStep \/ LpSafeStep \/ AdminStep, UNCHANGED unguarded
       PROVE  (Locks \/ Passes) /\ Same
    BY <1>1, <1>6, <1>7, <1>8, <1>9, <1>12 DEF AdminStep
<1>13. /\ lockEnd' \in Nat /\ Same
       /\ Locks \/ Passes \/ unguarded'
       /\ unguarded' \in BOOLEAN /\ (unguarded => unguarded')
    <2>1. CASE (UserStep \/ LpSafeStep \/ AdminStep) /\ UNCHANGED unguarded
        <3>1. (Locks \/ Passes) /\ Same
            BY <1>12, <2>1
        <3> QED
            BY <2>1, <3>1 DEF FlowTypes
    <2>2. CASE Emergency /\ unguarded' = TRUE
        BY <1>10, <2>2
    <2> QED
        BY <2>1, <2>2 DEF Transaction
<1>14. FlowTypes'
    BY <1>11, <1>13 DEF FlowTypes
<1> QED
    BY <1>13, <1>14

-----------------------------------------------------------------------------
\* At first nothing has been reported.
LEMMA InitFlow == ASSUME Init PROVE FlowInv
<1>1. feed[TvlFeed].hasData = (TvlFeed = PriceFeed)
    BY DEF Init
<1>2. Reported
    BY <1>1, FeedsAssumption DEF Reported
<1>3. TvlFeed \in DOMAIN feed
    BY DEF Init
<1>4. /\ block = 0 /\ changedAt = 0 /\ lockEnd = 0
      /\ defaultLockPeriod \in Periods /\ lockPeriod \in Periods
      /\ tvlSource = TvlFeed /\ unguarded = FALSE
    BY DEF Init, Oracle!AdapterInit
<1>5. block \in Nat /\ changedAt \in Nat /\ lockEnd \in Nat /\ changedAt <= block
    BY <1>4
<1>6. unguarded \in BOOLEAN
    BY <1>4
<1>7. FlowTypes
    BY <1>3, <1>4, <1>5, <1>6 DEF FlowTypes
<1> QED
    BY <1>2, <1>7 DEF FlowInv

\* A change that is covered stays covered by whatever the transaction does, and a change
\* it makes is covered.
LEMMA CoverStays ==
    ASSUME FlowTypes, Transaction, ~unguarded', Covered \/ Lp!TrackedTvl' # Lp!TrackedTvl
    PROVE  Covered'
<1>1. FlowTypes' /\ UNCHANGED <<block, feed>>
    BY TransactionsLock DEF Transaction, chainVars
<1>2. CASE Lp!TrackedTvl' # Lp!TrackedTvl
    <2>1. changedAt' = block /\ block' = block
        BY <1>2 DEF Transaction, TvlChangeNoted, chainVars
    <2>2. block + Latency <= lockEnd'
        BY <1>2, TransactionsLock, TvlStays
    <2> QED
        BY <1>1, <2>1, <2>2, LatencyAssumption DEF FlowTypes, Covered
<1>3. CASE Covered /\ Lp!TrackedTvl' = Lp!TrackedTvl
    <2>1. changedAt' = changedAt /\ block' = block
        BY <1>3 DEF Transaction, TvlChangeNoted, chainVars
    <2>2. block + Latency <= lockEnd' \/ lockEnd' = lockEnd
        BY TransactionsLock
    <2> QED
        BY <1>1, <1>3, <2>1, <2>2, LatencyAssumption DEF FlowTypes, Covered
<1> QED
    BY <1>2, <1>3

\* A transaction leaves what counts alone, or covers the change, or passes the lock.
LEMMA TransactionKeepsFlow ==
    ASSUME FlowInv, Transaction
    PROVE  FlowInv'
<1>1. FlowTypes /\ FlowTypes'
    BY TransactionsLock DEF FlowInv
<1>2. CASE unguarded'
    BY <1>1, <1>2 DEF FlowInv
<1>3. CASE ~unguarded' /\ (Covered \/ Lp!TrackedTvl' # Lp!TrackedTvl)
    BY <1>1, <1>3, CoverStays DEF FlowInv
<1>4. CASE ~unguarded' /\ ~Covered /\ Lp!TrackedTvl' = Lp!TrackedTvl
    <2>1. ~unguarded
        BY <1>1, <1>4, TransactionsLock
    <2>2. Reported
        BY <1>4, <2>1 DEF FlowInv
    <2> QED
        BY <1>1, <1>4, <2>2 DEF FlowInv, Reported, Transaction, chainVars
<1> QED
    BY <1>2, <1>3, <1>4

\* A report is the present TVL.
LEMMA ReportKeepsFlow ==
    ASSUME FlowInv, ReportTvl
    PROVE  FlowInv'
<1>1. feed' = [feed EXCEPT ![TvlFeed] =
                   [hasData |-> TRUE, answer |-> Lp!TrackedTvl, updatedAt |-> 0]]
    BY DEF ReportTvl, Oracle!AnswerUpdated
<1>2. FlowTypes'
    BY <1>1 DEF FlowInv, FlowTypes, ReportTvl, adapterVars, lpVars
<1>3. feed'[TvlFeed].answer = Lp!TrackedTvl
    BY <1>1 DEF FlowInv, FlowTypes
<1>4. Lp!TrackedTvl' = Lp!TrackedTvl
    BY TvlStays DEF ReportTvl
<1> QED
    BY <1>2, <1>3, <1>4 DEF FlowInv, Reported

\* A block passes only if the report is there or can still come in time.
LEMMA BlockKeepsFlow ==
    ASSUME FlowInv, NewBlock
    PROVE  FlowInv'
<1>1. FlowTypes'
    BY DEF FlowInv, FlowTypes, NewBlock, adapterVars, lpVars
<1>2. Lp!TrackedTvl' = Lp!TrackedTvl
    BY TvlStays DEF NewBlock
<1>3. CASE unguarded \/ Reported
    BY <1>1, <1>2, <1>3 DEF FlowInv, Reported, NewBlock
<1>4. CASE FeedCurrent
    BY <1>1, <1>2, <1>4 DEF FlowInv, FlowTypes, FeedCurrent, Reported, NewBlock
<1>5. CASE Covered /\ ~FeedCurrent
    BY <1>1, <1>5, LatencyAssumption
    DEF FlowInv, FlowTypes, Covered, NewBlock, adapterVars
<1> QED
    BY <1>3, <1>4, <1>5 DEF FlowInv

LEMMA NextKeepsFlow ==
    ASSUME FlowInv, [Next]_vars
    PROVE  FlowInv'
<1>1. CASE UNCHANGED vars
    <2>1. Lp!TrackedTvl' = Lp!TrackedTvl
        BY <1>1, TvlStays DEF vars
    <2> QED
        BY <1>1, <2>1
        DEF vars, chainVars, adapterVars, lpVars, FlowInv, FlowTypes, Reported, Covered
<1> QED
    BY <1>1, TransactionKeepsFlow, ReportKeepsFlow, BlockKeepsFlow DEF Next

\* TvlReadable, getTvl: whoever can read the TVL from Chainlink reads what the LP
\* Account holds now: every transaction of the mAPT, the LP Account and the registries
\* that changes it locks the adapter for long enough.
THEOREM AlwaysFreshWhenReadable == Spec => []FreshWhenReadable
<1>1. ASSUME FlowInv
      PROVE  FreshWhenReadable
    <2> SUFFICES ASSUME Oracle!TvlReadable, ~Oracle!HasTvlOverride, ~unguarded
                 PROVE  Oracle!GetTvl = Lp!TrackedTvl
        BY DEF FreshWhenReadable
    <2>1. ~(block < lockEnd) /\ Oracle!SourceReadable(tvlSource)
        BY DEF Oracle!TvlReadable, Oracle!IsLocked
    <2>2. feed[TvlFeed].hasData /\ tvlSource = TvlFeed
        BY <1>1, <2>1 DEF FlowInv, FlowTypes, Oracle!SourceReadable
    <2>3. ~Covered
        BY <1>1, <2>1, LatencyAssumption DEF FlowInv, FlowTypes, Covered
    <2> QED
        BY <1>1, <2>2, <2>3 DEF FlowInv, Reported, Oracle!GetTvl
<1> QED
    BY InitFlow, NextKeepsFlow, <1>1, PTL DEF Spec

-----------------------------------------------------------------------------
\* What fundLpAccount lends counts, whatever it is lent at.
LEMMA FundRaisesTvl ==
    ASSUME StateTypes, NEW times \in Calls, FundLpAccount(times), mApt' # mApt
    PROVE  Lp!TrackedTvl' # Lp!TrackedTvl
<1> DEFINE amounts == MApt!FundAmounts(TopUpsOf(times))
           moved == MApt!Moved(times, amounts)
           minted == MApt!Deltas(times, amounts)
<1>1. /\ Quoted(times) /\ MApt!Quoted(times)
      /\ MApt!FundLpAccount(times, TopUpsOf(times))
      /\ Lp!Receive(moved)
      /\ Lp!RegisterPoolUnderlyers(Named(times))
    BY DEF FundLpAccount, TopUpsOf, Quoted
<1>2. amounts \in [Pools -> Nat]
    BY <1>1, TopUpType, FundAmountsType
<1>3. moved \in [Pools -> Nat] /\ minted \in [Pools -> Nat]
      /\ \A p \in Pools : minted[p] > 0 => times[p] > 0 /\ moved[p] > 0
    BY <1>2, MovedType
<1>4. mApt' = [p \in Pools |-> mApt[p] + minted[p]]
    BY <1>1 DEF MApt!FundLpAccount, MApt!MultipleMint
<1>5. lpBal' = [t \in Tokens |-> IF t \in DOMAIN moved THEN lpBal[t] + moved[t] ELSE lpBal[t]]
      /\ position' = position
    BY <1>1 DEF Lp!Receive, Tokens
<1>6. erc20Tokens' = erc20Tokens \cup Named(times) /\ allocations' = allocations
    BY <1>1 DEF Lp!RegisterPoolUnderlyers
<1> HIDE DEF moved, minted
<1>7. PICK p \in Pools : minted[p] > 0
    <2>1. mApt \in [Pools -> Nat]
        BY DEF StateTypes, MAptTypes
    <2>2. ASSUME \A p \in Pools : minted[p] = 0 PROVE mApt' = mApt
        BY <1>4, <2>1, <2>2
    <2> QED
        BY <1>3, <2>2
<1>8. p \in erc20Tokens' /\ p \in Tokens /\ moved[p] > 0 /\ erc20Tokens' \subseteq Tokens
    BY <1>3, <1>6, <1>7, FlowConstants DEF Named, StateTypes, RegistryTypes
<1>9. \A t \in Tokens : lpBal[t] \in Nat /\ lpBal'[t] \in Nat /\ lpBal[t] <= lpBal'[t]
    BY <1>3, <1>5 DEF StateTypes, LpTypes
<1>10. lpBal[p] < lpBal'[p]
    BY <1>3, <1>5, <1>8, <1>9
<1> DEFINE before == erc20Tokens
           after == erc20Tokens'
           held == lpBal
           holds == lpBal'
<1>11. IsFiniteSet(after) /\ before \in SUBSET after
    BY <1>6, <1>8, FlowConstants, FS_Subset
<1>12. \A t \in after : held[t] \in Nat /\ holds[t] \in Nat /\ held[t] <= holds[t]
    BY <1>8, <1>9
<1>13. p \in after /\ held[p] < holds[p]
    BY <1>8, <1>10
<1> HIDE DEF before, after, held, holds
<1>14. Total(held, before) <= Total(held, after)
    BY <1>11, <1>12, TotalOfSubset
<1>15. Total(held, after) < Total(holds, after)
    BY <1>11, <1>12, <1>13, TotalRises
<1>16. Total(held, before) \in Nat /\ Total(held, after) \in Nat /\ Total(holds, after) \in Nat
    <2>1. IsFiniteSet(before) /\ \A t \in before : held[t] \in Nat
        BY <1>11, <1>12, FS_Subset
    <2> QED
        BY <1>11, <1>12, <2>1, TotalOfNaturals
<1>17. Total(position, Lp!Counted) \in Nat
    <2>1. IsFiniteSet(Lp!Counted) /\ \A z \in Lp!Counted : position[z] \in Nat
        BY FlowConstants, FS_Subset DEF StateTypes, LpTypes, Lp!Counted
    <2> QED
        BY <2>1, TotalOfNaturals
<1>18. Lp!TrackedTvl' = Total(holds, after) + Total(position, Lp!Counted)
    <2>1. Lp!TrackedTvl' = Lp!Total(lpBal', erc20Tokens') + Lp!Total(position', Lp!Counted')
        BY DEF Lp!TrackedTvl
    <2>2. Lp!Counted' = Lp!Counted
        BY <1>6 DEF Lp!Counted
    <2> QED
        BY <1>5, <1>6, <2>1, <2>2, LpTotalIsTotal DEF holds, after
<1>19. Lp!TrackedTvl = Total(held, before) + Total(position, Lp!Counted)
    BY TrackedIsTotal DEF held, before
<1> QED
    BY <1>14, <1>15, <1>16, <1>17, <1>18, <1>19

\* Only the mAPT's own transactions mint or burn mAPT.
LEMMA MAptChanges ==
    ASSUME Transaction, mApt' # mApt
    PROVE  \E times \in Calls : FundLpAccount(times) \/ WithdrawFromLpAccount(times)
BY DEF Transaction, UserStep, LpSafeStep, AdminStep, Deposit, Redeem, DeployStrategy,
       UnwindStrategy, SwapWith3Pool, SetReservePercentage, RegistryAdmin, SubmitTvl, Emergency

\* withdrawFromLpAccount lends nothing.
LEMMA WithdrawLendsNothing ==
    ASSUME StateTypes, NEW times \in Calls, WithdrawFromLpAccount(times), NEW p \in Pools,
           mApt'[p] > 0
    PROVE  mApt[p] > 0
<1> DEFINE amounts == MApt!WithdrawAmounts(TopUpsOf(times))
           burned == MApt!Deltas(times, amounts)
<1>1. Quoted(times) /\ MApt!WithdrawFromLpAccount(times, TopUpsOf(times))
    BY DEF WithdrawFromLpAccount, TopUpsOf, Quoted
<1>2. amounts \in [Pools -> Nat]
    BY <1>1, TopUpType, WithdrawAmountsType DEF StateTypes
<1>3. burned \in [Pools -> Nat]
    BY <1>2, MovedType
<1>4. mApt' = [q \in Pools |-> mApt[q] - burned[q]]
    BY <1>1 DEF MApt!WithdrawFromLpAccount, MApt!MultipleBurn
<1> HIDE DEF burned
<1> QED
    BY <1>3, <1>4 DEF StateTypes, MAptTypes

\* Whoever mints or burns mAPT has read the TVL.
LEMMA TvlWasRead ==
    ASSUME StateTypes, NEW times \in Calls, FundLpAccount(times) \/ WithdrawFromLpAccount(times),
           mApt' # mApt
    PROVE  Oracle!TvlReadable
<1> DEFINE amounts == IF FundLpAccount(times) THEN MApt!FundAmounts(TopUpsOf(times))
                      ELSE MApt!WithdrawAmounts(TopUpsOf(times))
           deltas == MApt!Deltas(times, amounts)
<1>1. Quoted(times) /\ MApt!Quoted(times)
    BY DEF FundLpAccount, WithdrawFromLpAccount, Quoted
<1>2. amounts \in [Pools -> Nat]
    BY <1>1, TopUpType, FundAmountsType, WithdrawAmountsType DEF StateTypes
<1>3. deltas \in [Pools -> Nat] /\ \A p \in Pools : deltas[p] > 0 => times[p] > 0
    BY <1>2, MovedType
<1>4. \/ mApt' = [p \in Pools |-> mApt[p] + deltas[p]]
      \/ mApt' = [p \in Pools |-> mApt[p] - deltas[p]]
    BY DEF FundLpAccount, WithdrawFromLpAccount, MApt!FundLpAccount, MApt!MultipleMint,
           MApt!WithdrawFromLpAccount, MApt!MultipleBurn, TopUpsOf
<1> HIDE DEF deltas
<1>5. PICK p \in Pools : times[p] > 0
    <2>1. mApt \in [Pools -> Nat]
        BY DEF StateTypes, MAptTypes
    <2>2. ASSUME \A p \in Pools : deltas[p] = 0 PROVE mApt' = mApt
        BY <1>4, <2>1, <2>2
    <2> QED
        BY <1>3, <2>2
<1> QED
    BY <1>1, <1>5 DEF MApt!Quoted

\* Capital is lent only when the present TVL has been reported, is about to be, or the
\* Emergency Safe went past the lock.
Supplied ==
    (\E p \in Pools : mApt[p] > 0) => feed[TvlFeed].hasData \/ Covered \/ unguarded

SharesInv == StateTypes /\ FlowInv /\ Supplied

\* The first capital lent changes the TVL, and the change is covered.
LEMMA TransactionKeepsSupplied ==
    ASSUME SharesInv, Transaction
    PROVE  Supplied'
<1> SUFFICES ASSUME NEW p \in Pools, mApt'[p] > 0, ~unguarded'
             PROVE  feed'[TvlFeed].hasData \/ Covered'
    BY DEF Supplied
<1>1. feed' = feed /\ FlowTypes /\ StateTypes
    BY DEF SharesInv, FlowInv, Transaction, chainVars
<1>2. CASE mApt[p] > 0
    <2>1. ~unguarded
        BY <1>1, TransactionsLock
    <2>2. feed[TvlFeed].hasData \/ Covered
        BY <1>2, <2>1 DEF SharesInv, Supplied
    <2> QED
        BY <1>1, <2>2, CoverStays
<1>3. CASE ~(mApt[p] > 0)
    <2>1. PICK times \in Calls : FundLpAccount(times) \/ WithdrawFromLpAccount(times)
        BY <1>3, MAptChanges
    <2>2. FundLpAccount(times)
        BY <1>1, <1>3, <2>1, WithdrawLendsNothing
    <2>3. Lp!TrackedTvl' # Lp!TrackedTvl
        BY <1>1, <1>3, <2>2, FundRaisesTvl
    <2> QED
        BY <1>1, <2>3, CoverStays
<1> QED
    BY <1>2, <1>3

LEMMA ReportKeepsSupplied ==
    ASSUME SharesInv, ReportTvl
    PROVE  Supplied'
<1>1. TvlFeed \in DOMAIN feed
    BY DEF SharesInv, FlowInv, FlowTypes
<1> QED
    BY <1>1 DEF ReportTvl, Oracle!AnswerUpdated, Supplied

LEMMA BlockKeepsSupplied ==
    ASSUME SharesInv, NewBlock
    PROVE  Supplied'
<1>1. UNCHANGED <<feed, mApt, unguarded, lockEnd, changedAt>> /\ block' = block + 1
    BY DEF NewBlock, adapterVars
<1>2. CASE ~(\E p \in Pools : mApt[p] > 0)
    BY <1>1, <1>2 DEF Supplied
<1>3. CASE feed[TvlFeed].hasData \/ unguarded
    BY <1>1, <1>3 DEF Supplied
<1>4. CASE Covered /\ FeedCurrent
    BY <1>1, <1>4 DEF Supplied, SharesInv, FlowInv, FlowTypes, FeedCurrent
<1>5. CASE Covered /\ ~FeedCurrent
    <2>1. Covered'
        BY <1>1, <1>5, LatencyAssumption DEF SharesInv, FlowInv, FlowTypes, Covered, NewBlock
    <2> QED
        BY <2>1 DEF Supplied
<1> QED
    BY <1>2, <1>3, <1>4, <1>5 DEF SharesInv, Supplied

\* Who reads anything of the adapter, once a report is there, is not behind it.
LEMMA CurrentWhenUnlocked ==
    ASSUME FlowInv, ~Oracle!IsLocked, feed[TvlFeed].hasData, ~unguarded
    PROVE  FeedCurrent
<1>1. ~Covered
    BY LatencyAssumption DEF Covered, Oracle!IsLocked, FlowInv, FlowTypes
<1> QED
    BY <1>1 DEF FlowInv, FlowTypes, Reported, FeedCurrent

\* Minting and burning mAPT.
LEMMA MAptAtACurrentTvl ==
    ASSUME SharesInv, Transaction, mApt' # mApt, ~Oracle!HasTvlOverride, ~unguarded
    PROVE  FeedCurrent
<1>1. Oracle!TvlReadable
    BY MAptChanges, TvlWasRead DEF SharesInv
<1>2. tvlSource = TvlFeed /\ FlowInv
    BY DEF SharesInv, FlowInv, FlowTypes
<1>3. ~Oracle!IsLocked /\ feed[TvlFeed].hasData
    BY <1>1, <1>2 DEF Oracle!TvlReadable, Oracle!SourceReadable
<1> QED
    BY <1>2, <1>3, CurrentWhenUnlocked

\* Minting and burning APT.
LEMMA AptAtACurrentTvl ==
    ASSUME SharesInv, Transaction, apt' # apt, mApt' = mApt, ~unguarded
    PROVE  FeedCurrent \/ \A p \in Pools : mApt[p] = 0
<1>1. UserStep
    BY DEF Transaction, LpSafeStep, AdminStep, Emergency, SubmitTvl, RegistryAdmin,
           FundLpAccount, WithdrawFromLpAccount, DeployStrategy, UnwindStrategy, SwapWith3Pool,
           SetReservePercentage, Pool!SetReservePercentage, Pool!Set, Pool!TransferToLpAccount,
           Pool!ReceiveFromLpAccount, poolVars
<1>2. PICK p \in Pools : Oracle!AssetPriceReadable(p)
    <2>1. PICK p \in Pools, u \in Users :
              \/ \E n \in 1..userBal[p][u] : Deposit(p, u, n)
              \/ \E n \in 1..apt[p][u] : Redeem(p, u, n)
        BY <1>1 DEF UserStep
    <2>2. Oracle!AssetPriceReadable(p)
        BY <2>1 DEF Deposit, Redeem, Pool!AddLiquidity, Pool!Redeem
    <2> QED
        BY <2>2
<1>3. ~Oracle!IsLocked
    BY <1>2 DEF Oracle!AssetPriceReadable
<1>4. ~Covered
    BY <1>3, LatencyAssumption DEF Covered, Oracle!IsLocked, SharesInv, FlowInv, FlowTypes
<1> SUFFICES ASSUME NEW q \in Pools, mApt[q] # 0 PROVE FeedCurrent
    OBVIOUS
<1>5. mApt[q] > 0
    BY DEF SharesInv, StateTypes, MAptTypes
<1>6. feed[TvlFeed].hasData
    BY <1>4, <1>5 DEF SharesInv, Supplied
<1> QED
    BY <1>3, <1>6, CurrentWhenUnlocked DEF SharesInv

\* At first nothing is lent.
LEMMA InitShares == ASSUME Init PROVE SharesInv
<1>1. Supplied
    BY DEF Init, MApt!MAptInit, Supplied
<1> QED
    BY <1>1, InitTypes, InitFlow DEF SharesInv

LEMMA NextKeepsShares == ASSUME SharesInv, [Next]_vars PROVE SharesInv'
<1>1. StateTypes'
    BY TransactionTypes, ReportTypes, BlockTypes, StutterTypes DEF SharesInv, Next
<1>2. FlowInv'
    BY NextKeepsFlow DEF SharesInv
<1>3. Supplied'
    <2>1. CASE UNCHANGED vars
        BY <2>1 DEF vars, chainVars, adapterVars, SharesInv, Supplied, Covered
    <2> QED
        BY <2>1, TransactionKeepsSupplied, ReportKeepsSupplied, BlockKeepsSupplied DEF Next
<1> QED
    BY <1>1, <1>2, <1>3 DEF SharesInv

\* addLiquidity, redeem, fundLpAccount, withdrawFromLpAccount: whatever deposits,
\* rebalances, deployments, registrations, submissions and late reports came before, a
\* share is minted or burned, APT or mAPT, only while the last report of the TVL is the
\* present one, or under the Emergency Safe's responsibility, or when nothing is lent.
THEOREM SharesOnlyAtACurrentTvl == Spec => NoShareAtAStaleTvl
<1>1. ASSUME SharesInv, [Next]_vars
      PROVE  [SharesAtACurrentTvl]_vars
    <2>1. CASE UNCHANGED vars
        BY <2>1
    <2>2. CASE ReportTvl \/ NewBlock
        BY <2>2 DEF ReportTvl, NewBlock, poolVars, SharesAtACurrentTvl
    <2>3. CASE Transaction
        <3>1. CASE mApt' = mApt
            BY <1>1, <2>3, <3>1, AptAtACurrentTvl DEF SharesAtACurrentTvl
        <3>2. CASE mApt' # mApt
            BY <1>1, <2>3, <3>2, MAptAtACurrentTvl DEF SharesAtACurrentTvl
        <3> QED
            BY <3>1, <3>2
    <2> QED
        BY <1>1, <2>1, <2>2, <2>3 DEF Next
<1> QED
    BY InitShares, NextKeepsShares, <1>1, PTL DEF Spec, NoShareAtAStaleTvl

-----------------------------------------------------------------------------
\* Rebalancing.  First the arithmetic of one top-up and the next.

\* Signed division never goes beyond what is divided, and misses less than the divisor.
LEMMA TruncDivBetween ==
    ASSUME NEW v \in Int, NEW k \in Nat, k > 0
    PROVE  LET q == Pool!TruncDiv(v, k)
           IN  /\ q \in Int /\ -k < v - k * q /\ v - k * q < k
               /\ v >= 0 => q >= 0 /\ k * q <= v
               /\ v <= 0 => q <= 0 /\ v <= k * q
<1> DEFINE a == v \div k
           b == (-v) \div k
<1>1. a \in Int /\ k * a <= v /\ v < k * a + k
    BY Quotient
<1>2. b \in Int /\ k * b <= -v /\ -v < k * b + k
    BY Quotient
<1>3. Pool!TruncDiv(v, k) = IF v >= 0 THEN a ELSE -b
    BY DEF Pool!TruncDiv
<1> HIDE DEF a, b
<1>4. k * a \in Int /\ k * b \in Int /\ k * (-b) = -(k * b) /\ k * (-1) = -k /\ k * 0 = 0
    BY <1>1, <1>2
<1>5. v >= 0 => a >= 0
    <2>1. v >= 0 => k * (-1) < k * a
        BY <1>1, <1>4
    <2>2. k * (-1) < k * a => -1 < a
        BY <1>1, Cancel
    <2> QED
        BY <1>1, <2>1, <2>2
<1>6. v <= 0 => b >= 0
    <2>1. v <= 0 => k * (-1) < k * b
        BY <1>2, <1>4
    <2>2. k * (-1) < k * b => -1 < b
        BY <1>2, Cancel
    <2> QED
        BY <1>2, <2>1, <2>2
<1>7. v = 0 => a <= 0
    <2>1. v = 0 => k * a <= k * 0
        BY <1>1, <1>4
    <2>2. k * a <= k * 0 => a <= 0
        BY <1>1, Cancel
    <2> QED
        BY <2>1, <2>2
<1> DEFINE q == Pool!TruncDiv(v, k)
<1>8. ASSUME v >= 0
      PROVE  /\ q \in Int /\ -k < v - k * q /\ v - k * q < k
             /\ q >= 0 /\ k * q <= v /\ (v = 0 => q <= 0)
    <2>1. q = a
        BY <1>3, <1>8
    <2> HIDE DEF q
    <2> QED
        BY <1>1, <1>4, <1>5, <1>7, <1>8, <2>1
<1>9. ASSUME v < 0
      PROVE  q \in Int /\ -k < v - k * q /\ v - k * q < k /\ q <= 0 /\ v <= k * q
    <2>1. q = -b
        BY <1>3, <1>9
    <2> HIDE DEF q
    <2> QED
        BY <1>2, <1>4, <1>6, <1>9, <2>1
<1>10. v = 0 => q = 0
    BY <1>8
<1>11. v >= 0 \/ v < 0
    OBVIOUS
<1> HIDE DEF q
<1>12. CASE v > 0
    BY <1>8, <1>12 DEF q
<1>13. CASE v = 0
    BY <1>4, <1>8, <1>10, <1>13 DEF q
<1>14. CASE v < 0
    BY <1>9, <1>14 DEF q
<1> QED
    BY <1>12, <1>13, <1>14

\* _getReserveTopUpValue: once a top-up is made, the next one is no more than what the
\* deployed value then differs from what it would be without rounding.
LEMMA TopUpOnceMade ==
    ASSUME NEW d \in Int, NEW r \in Int, NEW c \in Nat, NEW D \in Int, NEW n \in Nat,
           LET a == Pool!TopUpValue(d, r, c) IN -n <= D - (d - a) /\ D - (d - a) <= n
    PROVE  /\ Pool!TopUpValue(d, r, c) \in Int
           /\ LET t == Pool!TopUpValue(D, r + Pool!TopUpValue(d, r, c), c)
              IN  t \in Int /\ -n <= t /\ t <= n
<1> DEFINE k == c + 100
           v == d * c - r * 100
           a == Pool!TopUpValue(d, r, c)
           e == D - (d - a)
           w == D * c - (r + a) * 100
           t == Pool!TopUpValue(D, r + a, c)
<1>1. k \in Nat /\ k > 0 /\ v \in Int
    <2>1. d * c \in Int
        OBVIOUS
    <2> QED
        BY <2>1
<1>2. a = Pool!TruncDiv(v, k)
    BY DEF Pool!TopUpValue
<1>3. t = Pool!TruncDiv(w, k)
    BY DEF Pool!TopUpValue
<1> HIDE DEF t
<1>4. a \in Int /\ -k < v - k * a /\ v - k * a < k
    <2> HIDE DEF a, k, v
    <2> QED
        BY <1>1, <1>2, TruncDivBetween
<1>5. e \in Int /\ -n <= e /\ e <= n /\ D = d - a + e
    <2> HIDE DEF a
    <2> QED
        BY <1>4 DEF a
<1> HIDE DEF a, e
<1>6. w \in Int /\ w = (v - k * a) + c * e
    <2>1. D * c = d * c - c * a + c * e /\ d * c \in Int /\ c * a \in Int /\ c * e \in Int
        BY <1>4, <1>5
    <2>2. k * a = c * a + 100 * a
        BY <1>4
    <2> QED
        BY <1>4, <1>5, <2>1, <2>2
<1> HIDE DEF v, w
<1>7. c * e <= k * n /\ -(k * n) <= c * e /\ c * e \in Int /\ k * n \in Nat /\ k * a \in Int
    <2>1. c * e <= c * n /\ c * (-n) <= c * e
        BY <1>5, ProductsOrder
    <2>2. c * (-n) = -(c * n) /\ k * n = c * n + 100 * n /\ c * n \in Nat /\ c * e \in Int
        BY <1>5
    <2>3. k * a \in Int
        BY <1>1, <1>4
    <2> QED
        BY <2>1, <2>2, <2>3
<1> HIDE DEF k
<1>8. w < k + k * n /\ -(k + k * n) < w
    BY <1>1, <1>4, <1>6, <1>7
<1>9. /\ t \in Int
      /\ w >= 0 => t >= 0 /\ k * t <= w
      /\ w <= 0 => t <= 0 /\ w <= k * t
    BY <1>1, <1>3, <1>6, TruncDivBetween
<1>10. k * (n + 1) = k + k * n /\ k * (-(n + 1)) = -(k + k * n) /\ k * t \in Int
    <2>1. t \in Int
        BY <1>9
    <2>2. \A x \in Nat : x * (n + 1) = x + x * n /\ x * (-(n + 1)) = -(x + x * n)
        OBVIOUS
    <2>3. k * t \in Int
        BY <1>1, <2>1
    <2> QED
        BY <1>1, <2>2, <2>3
<1>11. w >= 0 => t < n + 1 /\ t >= 0
    <2>1. w >= 0 => k * t < k * (n + 1)
        <3>1. w \in Int /\ k * n \in Int /\ k * t \in Int
            BY <1>6, <1>7, <1>10
        <3>2. w >= 0 => k * t <= w
            BY <1>9
        <3>3. w < k + k * n /\ k * (n + 1) = k + k * n
            BY <1>8, <1>10
        <3> QED
            BY <1>1, <3>1, <3>2, <3>3
    <2>2. n + 1 \in Int /\ t \in Int
        BY <1>9
    <2>3. w >= 0 => t < n + 1
        BY <1>1, <2>1, <2>2, Cancel
    <2> QED
        BY <1>9, <2>3
<1>12. w <= 0 => -(n + 1) < t /\ t <= 0
    <2>1. w <= 0 => k * (-(n + 1)) < k * t
        <3>1. w \in Int /\ k * n \in Int /\ k * t \in Int
            BY <1>6, <1>7, <1>10
        <3>2. w <= 0 => w <= k * t
            BY <1>9
        <3>3. -(k + k * n) < w /\ k * (-(n + 1)) = -(k + k * n)
            BY <1>8, <1>10
        <3> QED
            BY <1>1, <3>1, <3>2, <3>3
    <2>2. -(n + 1) \in Int /\ t \in Int
        BY <1>9
    <2>3. w <= 0 => -(n + 1) < t
        BY <1>1, <2>1, <2>2, Cancel
    <2> QED
        BY <1>9, <2>3
<1>13. t \in Int /\ -n <= t /\ t <= n
    BY <1>6, <1>9, <1>11, <1>12
<1> QED
    BY <1>4, <1>13 DEF a, t

\* getDeployedValue once the TVL is reported: D is what was deployed and what was
\* moved, y, but for the rounding of the shares minted or burned; j and J are what that
\* rounding is for this pool and for all together.
LEMMA ReportedValue ==
    ASSUME NEW S \in Nat, NEW T \in Nat, NEW m \in Nat, NEW d \in Int,
           NEW after \in Nat, NEW total \in Nat, NEW mine \in Nat, NEW y \in Int,
           NEW J \in Int, NEW j \in Int, NEW n \in Nat, n > 0, S > 0, after > 0,
           S * d <= T * m, T * m < S * d + S, mine <= after,
           S * total = T * after + J, T * mine = T * m + S * y + j,
           \/ 0 <= J /\ J <= T * n /\ -T < j /\ j <= 0
           \/ -(T * n) <= J /\ J <= 0 /\ 0 <= j /\ j < T
    PROVE  LET D == (total * mine) \div after
           IN  D \in Int /\ -(S + T * n) < S * (D - d - y) /\ S * (D - d - y) < S + T * n
<1> DEFINE D == (total * mine) \div after
<1>1. D \in Int /\ after * D <= total * mine /\ total * mine < after * D + after
    <2>1. total * mine \in Int
        OBVIOUS
    <2> HIDE DEF D
    <2> QED
        BY <2>1, Quotient DEF D
<1> HIDE DEF D
<1>2. S * (total * mine) = after * (T * mine) + J * mine
    <2>1. S * (total * mine) = (S * total) * mine
        OBVIOUS
    <2>2. (T * after + J) * mine = (T * after) * mine + J * mine
        OBVIOUS
    <2>3. (T * after) * mine = after * (T * mine)
        OBVIOUS
    <2> QED
        BY <2>1, <2>2, <2>3
<1>3. S * (total * mine) \in Int /\ T * mine \in Int /\ J * mine \in Int /\ T * n \in Nat
      /\ after * (T * mine) \in Int
    OBVIOUS
<1>4. S * (after * D) = after * (S * D) /\ S * (after * D + after) = after * (S * D + S)
      /\ S * D \in Int /\ total * mine \in Int
    BY <1>1
<1>5. after * (S * D) <= S * (total * mine) /\ S * (total * mine) < after * (S * D + S)
    BY <1>1, <1>4, Cancel
<1>6. T <= T * n
    <2>1. T * 1 <= T * n
        BY ProductsOrder
    <2> QED
        BY <2>1
<1>7. CASE 0 <= J /\ J <= T * n /\ -T < j /\ j <= 0
    <2>1. 0 <= J * mine /\ J * mine <= after * (T * n)
        <3>1. mine * 0 <= mine * J /\ mine * J <= mine * (T * n)
            BY <1>3, <1>7, ProductsOrder
        <3>2. (T * n) * mine <= (T * n) * after
            BY <1>3, ProductsOrder
        <3>3. mine * 0 = 0 /\ mine * J = J * mine /\ mine * (T * n) = (T * n) * mine
              /\ (T * n) * after = after * (T * n)
            BY <1>3
        <3>4. mine * (T * n) \in Int /\ after * (T * n) \in Int
            BY <1>3
        <3> QED
            BY <1>3, <3>1, <3>2, <3>3, <3>4
    <2>2. after * (T * mine + T * n) = after * (T * mine) + after * (T * n)
        BY <1>3
    <2>3. after * (S * D) <= after * (T * mine + T * n)
        <3>1. after * (S * D) \in Int /\ after * (T * n) \in Int
            BY <1>3, <1>4
        <3> QED
            BY <1>2, <1>3, <1>5, <2>1, <2>2, <3>1
    <2>4. S * D <= T * mine + T * n
        BY <1>3, <1>4, <2>3, Cancel
    <2>5. after * (T * mine) < after * (S * D + S)
        <3>1. after * (S * D + S) \in Int
            BY <1>4
        <3> QED
            BY <1>2, <1>3, <1>5, <2>1, <3>1
    <2>6. T * mine < S * D + S
        BY <1>3, <1>4, <2>5, Cancel
    <2>7. S * (D - d - y) = S * D - S * d - S * y /\ S * d \in Int /\ S * y \in Int /\ T * m \in Int
        BY <1>1
    <2> QED
        BY <1>1, <1>3, <1>4, <1>6, <1>7, <2>4, <2>6, <2>7 DEF D
<1>8. CASE -(T * n) <= J /\ J <= 0 /\ 0 <= j /\ j < T
    <2>1. J * mine <= 0 /\ -(after * (T * n)) <= J * mine
        <3>1. mine * J <= mine * 0 /\ mine * (-(T * n)) <= mine * J
            BY <1>3, <1>8, ProductsOrder
        <3>2. (T * n) * mine <= (T * n) * after
            BY <1>3, ProductsOrder
        <3>3. mine * 0 = 0 /\ mine * J = J * mine /\ mine * (-(T * n)) = -((T * n) * mine)
              /\ (T * n) * after = after * (T * n)
            BY <1>3
        <3>4. (T * n) * mine \in Int /\ after * (T * n) \in Int
            BY <1>3
        <3> QED
            BY <1>3, <3>1, <3>2, <3>3, <3>4
    <2>2. after * (S * D + S + T * n) = after * (S * D + S) + after * (T * n)
        BY <1>3, <1>4
    <2>3. after * (T * mine) < after * (S * D + S + T * n)
        <3>1. after * (S * D + S) \in Int /\ after * (T * n) \in Int
            BY <1>3, <1>4
        <3> QED
            BY <1>2, <1>3, <1>5, <2>1, <2>2, <3>1
    <2>4. T * mine < S * D + S + T * n
        BY <1>3, <1>4, <2>3, Cancel
    <2>5. after * (S * D) <= after * (T * mine)
        <3>1. after * (S * D) \in Int
            BY <1>4
        <3> QED
            BY <1>2, <1>3, <1>5, <2>1, <3>1
    <2>6. S * D <= T * mine
        BY <1>3, <1>4, <2>5, Cancel
    <2>7. S * (D - d - y) = S * D - S * d - S * y /\ S * d \in Int /\ S * y \in Int /\ T * m \in Int
        BY <1>1
    <2> QED
        BY <1>1, <1>3, <1>4, <1>6, <1>8, <2>4, <2>6, <2>7 DEF D
<1> QED
    BY <1>7, <1>8

-----------------------------------------------------------------------------
\* What a call reads and moves.

\* Every price is one: no aggregator of a price changes, and none is overridden.
PricesFixed ==
    /\ \A p \in Pools : submittedAssetValues[p].periodEnd = 0 /\ assetSources[p] = PriceFeed
    /\ feed[PriceFeed].answer = 1

\* They stay that: the Emergency Safe submits no price here, and no aggregator is swapped.
LEMMA PricesStay ==
    ASSUME PricesFixed, [Next]_vars
    PROVE  PricesFixed'
<1>1. UNCHANGED <<submittedAssetValues, assetSources>>
    <2>1. CASE Transaction
        BY <2>1 DEF Transaction, UserStep, LpSafeStep, AdminStep, Deposit, Redeem, DeployStrategy,
            UnwindStrategy, SwapWith3Pool, SetReservePercentage, RegistryAdmin, SubmitTvl,
            Emergency, FundLpAccount, WithdrawFromLpAccount, DefaultLock, LpLock, Oracle!Lock,
            Oracle!LockFor, Oracle!EmergencyUnlock, Oracle!EmergencySetTvl,
            Oracle!EmergencyUnsetTvl, Oracle!sourceVars, Oracle!overrideVars, adapterVars
    <2>2. CASE ReportTvl \/ NewBlock \/ UNCHANGED vars
        BY <2>2 DEF ReportTvl, NewBlock, adapterVars, vars
    <2> QED
        BY <2>1, <2>2 DEF Next
<1>2. feed'[PriceFeed] = feed[PriceFeed]
    <2>1. CASE UNCHANGED feed
        BY <2>1
    <2>2. CASE ReportTvl
        BY <2>2, FeedsAssumption DEF ReportTvl, Oracle!AnswerUpdated
    <2> QED
        BY <2>1, <2>2 DEF Next, Transaction, NewBlock, chainVars, vars
<1> QED
    BY <1>1, <1>2 DEF PricesFixed

\* And are so at first.
LEMMA InitPrices == ASSUME Init PROVE PricesFixed
BY DEF Init, Oracle!AdapterInit, PricesFixed

\* What a call reads, of the TVL and of a pool that it names, at the last report.
LEMMA QuotedAtReport ==
    ASSUME StateTypes, PricesFixed, NEW times \in Calls, MApt!Quoted(times),
           FeedCurrent, ~Oracle!HasTvlOverride, NEW p \in Pools, times[p] > 0
    PROVE  /\ TvlRead = Lp!TrackedTvl
           /\ TopUpsOf(times)[p] = Pool!TopUpValue(MApt!GetDeployedValue(p), poolBal[p],
                                                   settings[p].reservePercentage)
           /\ \A n \in Nat :
                  MApt!CalculateDelta(p, n)
                      = IF Lp!TrackedTvl = 0 \/ MApt!MAptSupply = 0 THEN n * Factor
                        ELSE (n * MApt!MAptSupply) \div Lp!TrackedTvl
<1> DEFINE r == poolBal[p]
           d == MApt!GetDeployedValue(p)
           c == settings[p].reservePercentage
           top == Pool!TopUpValue(d, r, c)
<1>1. /\ Oracle!AssetPriceReadable(p) /\ Oracle!TvlReadable /\ OnePerPool[p] = 1
      /\ r \in Nat /\ c \in Nat /\ block \in Nat
    <2>1. Oracle!AssetPriceReadable(p) /\ Oracle!TvlReadable
        BY DEF MApt!Quoted
    <2>2. r \in Nat /\ block \in Nat /\ settings[p] \in Pool!Settings
        BY DEF StateTypes, PoolTypes, ChainTypes
    <2>3. c \in Nat
        BY <2>2 DEF Pool!Settings
    <2> QED
        BY <2>1, <2>2, <2>3 DEF OnePerPool
<1>2. Price[p] = 1
    BY <1>1 DEF Price, Oracle!GetAssetPrice, Oracle!HasAssetOverride, PricesFixed
<1>3. TvlRead = Lp!TrackedTvl
    BY <1>1 DEF TvlRead, Oracle!GetTvl, FeedCurrent
<1>4. \A n \in Nat : (1 * n) \div 1 = n
    OBVIOUS
<1>5. Pool!PoolUnderlyerValue(p) = r
    BY <1>1, <1>2, <1>4 DEF Pool!PoolUnderlyerValue, Pool!ValueOf
<1>6. top \in Int
    <2>1. d \in Nat
        BY DeployedType DEF StateTypes
    <2>2. d * c \in Int /\ r * 100 \in Int
        BY <1>1, <2>1
    <2>3. d * c - r * 100 \in Int /\ c + 100 \in Nat /\ c + 100 > 0
        BY <1>1, <2>2
    <2> HIDE DEF d, r, c
    <2> QED
        BY <2>3, TruncDivType DEF Pool!TopUpValue
<1>7. TopUpsOf(times)[p] = top
    <2>1. TopUpsOf(times)[p] = IF top = 0 THEN 0 ELSE Pool!TruncDiv(top * 1, 1)
        BY <1>1, <1>2, <1>5 DEF TopUpsOf, Pool!GetReserveTopUpValue, Pool!TopUpAmount
    <2> HIDE DEF top
    <2>2. \A q \in Int : Pool!TruncDiv(q * 1, 1) = q
        <3>1. \A q \in Int : q \div 1 = q /\ q * 1 = q /\ -(-q) = q /\ (-q) \in Int
            OBVIOUS
        <3> QED
            BY <3>1 DEF Pool!TruncDiv
    <2> QED
        BY <1>6, <2>1, <2>2
<1>8. ASSUME NEW n \in Nat
      PROVE  MApt!CalculateDelta(p, n) = MApt!SharesFor(n, Lp!TrackedTvl, MApt!MAptSupply, Factor)
    BY <1>1, <1>2, <1>3, <1>4 DEF MApt!CalculateDelta, MApt!ValueOf
<1> QED
    BY <1>3, <1>7, <1>8 DEF MApt!SharesFor

\* An amount is moved, with the mAPT that it is worth, or neither is.
LEMMA MovedIs ==
    ASSUME StateTypes, NEW times \in Calls, NEW amounts \in [Pools -> Nat], NEW p \in Pools
    PROVE  \/ /\ MApt!Moved(times, amounts)[p] = 0
              /\ MApt!Deltas(times, amounts)[p] = 0
           \/ /\ times[p] = 1
              /\ MApt!Moved(times, amounts)[p] = amounts[p] /\ amounts[p] > 0
              /\ MApt!Deltas(times, amounts)[p] = MApt!CalculateDelta(p, amounts[p])
              /\ MApt!CalculateDelta(p, amounts[p]) > 0
<1> DEFINE delta == MApt!CalculateDelta(p, amounts[p])
<1>1. /\ times[p] \in {0, 1} /\ amounts[p] \in Nat /\ delta \in Nat
      /\ amounts[p] = 0 => delta = 0
    BY DeltaType DEF Calls
<1>2. /\ MApt!Moved(times, amounts)[p] = IF delta = 0 THEN 0 ELSE times[p] * amounts[p]
      /\ MApt!Deltas(times, amounts)[p] = times[p] * delta
    BY DEF MApt!Moved, MApt!Deltas
<1> HIDE DEF delta
<1>3. /\ times[p] = 0 => times[p] * amounts[p] = 0 /\ times[p] * delta = 0
      /\ times[p] = 1 => times[p] * amounts[p] = amounts[p] /\ times[p] * delta = delta
      /\ delta = 0 => times[p] * delta = 0
    BY <1>1
<1> QED
    BY <1>1, <1>2, <1>3 DEF delta

\* What a call moves of each underlyer to the LP Account, and what mAPT it mints for it;
\* negative when it brings capital back.
Flowed == [p \in Pools |-> lpBal'[p] - lpBal[p]]
Minted == [p \in Pools |-> mApt'[p] - mApt[p]]

\* What a pool asks for at the present TVL.
ReserveTopUp(p) ==
    Pool!TopUpValue(MApt!GetDeployedValue(p), poolBal[p], settings[p].reservePercentage)

\* What fundLpAccount and withdrawFromLpAccount do to the pools, at the present TVL.
Rebalanced(times) ==
    /\ Flowed \in [Pools -> Int] /\ Minted \in [Pools -> Int]
    /\ \A p \in Pools : poolBal'[p] = poolBal[p] - Flowed[p]
    /\ \A t \in Tokens : lpBal'[t] = lpBal[t] + (IF t \in Pools THEN Flowed[t] ELSE 0)
    /\ erc20Tokens' = erc20Tokens \cup Named(times)
    /\ UNCHANGED <<settings, position, allocations>>
    /\ \A p \in Pools : Minted[p] = 0 => Flowed[p] = 0
    /\ \A p \in Pools : Minted[p] # 0 => /\ p \in Named(times)
                                         /\ lpBal'[p] = 0 \/ Flowed[p] = -ReserveTopUp(p)
    /\ Lp!TrackedTvl = 0 =>
           \A p \in Pools : Flowed[p] \in Nat /\ Minted[p] = Flowed[p] * Factor
    /\ Lp!TrackedTvl > 0 =>
           LET miss(p) == MApt!MAptSupply * Flowed[p] - Lp!TrackedTvl * Minted[p]
           IN  \/ \A p \in Pools :
                      0 <= miss(p) /\ miss(p) < Lp!TrackedTvl /\ 0 <= Minted[p]
               \/ \A p \in Pools : -Lp!TrackedTvl < miss(p) /\ miss(p) <= 0

\* fundLpAccount: what is minted is rounded down, so the pools funded lose by it.
LEMMA FundRebalances ==
    ASSUME StateTypes, PricesFixed, NEW times \in Calls, FundLpAccount(times),
           FeedCurrent, ~Oracle!HasTvlOverride, Lp!TrackedTvl = 0 <=> MApt!MAptSupply = 0
    PROVE  Rebalanced(times)
<1> DEFINE S == MApt!MAptSupply
           T == Lp!TrackedTvl
           amounts == MApt!FundAmounts(TopUpsOf(times))
           moved == MApt!Moved(times, amounts)
           minted == MApt!Deltas(times, amounts)
<1>1. /\ Quoted(times) /\ MApt!Quoted(times)
      /\ MApt!FundLpAccount(times, TopUpsOf(times))
      /\ Pool!TransferToLpAccount(moved)
      /\ Lp!Receive(moved)
      /\ Lp!RegisterPoolUnderlyers(Named(times))
    BY DEF FundLpAccount, TopUpsOf, Quoted
<1>2. /\ amounts \in [Pools -> Nat] /\ TopUpsOf(times) \in [Pools -> Int]
      /\ \A p \in Pools : amounts[p] > 0 => amounts[p] = -TopUpsOf(times)[p]
    <2>1. TopUpsOf(times) \in [Pools -> Int]
        BY <1>1, TopUpType
    <2>2. amounts \in [Pools -> Nat]
        BY <2>1, FundAmountsType
    <2>3. \A p \in Pools : amounts[p] = IF TopUpsOf(times)[p] < 0 THEN -TopUpsOf(times)[p] ELSE 0
        BY DEF MApt!FundAmounts, MApt!FundAmount
    <2> QED
        BY <2>1, <2>2, <2>3
<1>3. moved \in [Pools -> Nat] /\ minted \in [Pools -> Nat]
    BY <1>2, MovedType
<1>4. mApt' = [p \in Pools |-> mApt[p] + minted[p]]
    BY <1>1 DEF MApt!FundLpAccount, MApt!MultipleMint
<1>5. \A p \in Pools :
          \/ moved[p] = 0 /\ minted[p] = 0
          \/ /\ times[p] = 1 /\ moved[p] = amounts[p] /\ amounts[p] > 0
             /\ minted[p] = MApt!CalculateDelta(p, amounts[p]) /\ minted[p] > 0
    BY <1>2, MovedIs
<1>6. S \in Nat /\ T \in Nat /\ Factor \in Nat
    BY LentType, TrackedType, FlowConstants DEF StateTypes
<1>7. \A p \in Pools : minted[p] > 0 =>
          /\ times[p] > 0 /\ moved[p] = -ReserveTopUp(p)
          /\ minted[p] = IF T = 0 \/ S = 0 THEN moved[p] * Factor ELSE (moved[p] * S) \div T
    <2> SUFFICES ASSUME NEW p \in Pools, minted[p] > 0
                 PROVE  /\ times[p] > 0 /\ moved[p] = -ReserveTopUp(p)
                        /\ minted[p] = IF T = 0 \/ S = 0 THEN moved[p] * Factor
                                       ELSE (moved[p] * S) \div T
        OBVIOUS
    <2>1. /\ times[p] = 1 /\ moved[p] = amounts[p] /\ amounts[p] > 0 /\ amounts[p] \in Nat
          /\ minted[p] = MApt!CalculateDelta(p, amounts[p])
        BY <1>2, <1>5
    <2> HIDE DEF moved, minted, amounts, S, T
    <2>2. /\ TopUpsOf(times)[p] = ReserveTopUp(p)
          /\ \A n \in Nat : MApt!CalculateDelta(p, n)
                 = IF T = 0 \/ S = 0 THEN n * Factor ELSE (n * S) \div T
        BY <1>1, <2>1, QuotedAtReport DEF ReserveTopUp, S, T
    <2> QED
        BY <1>2, <2>1, <2>2
<1>8. /\ \A t \in Tokens : lpBal'[t] = lpBal[t] + (IF t \in Pools THEN moved[t] ELSE 0)
      /\ \A t \in Tokens : lpBal[t] \in Nat
      /\ \A p \in Pools : poolBal'[p] = poolBal[p] - moved[p] /\ mApt[p] \in Nat
      /\ UNCHANGED <<settings, position, allocations>>
      /\ erc20Tokens' = erc20Tokens \cup Named(times)
    <2>1. DOMAIN moved = Pools /\ \A t \in Tokens : lpBal[t] \in Nat
        BY <1>3 DEF StateTypes, LpTypes
    <2>2. \A t \in Tokens : lpBal'[t] = lpBal[t] + (IF t \in Pools THEN moved[t] ELSE 0)
        BY <1>1, <2>1 DEF Lp!Receive, Tokens
    <2>3. \A p \in Pools : mApt[p] \in Nat
        BY DEF StateTypes, MAptTypes
    <2> HIDE DEF moved
    <2> QED
        BY <1>1, <2>1, <2>2, <2>3 DEF Lp!Receive, Pool!TransferToLpAccount, Lp!RegisterPoolUnderlyers
<1> HIDE DEF moved, minted, amounts, S, T
<1>9. \A p \in Pools : Flowed[p] = moved[p] /\ Minted[p] = minted[p]
    BY <1>3, <1>4, <1>8, FlowConstants DEF Flowed, Minted
<1>10. Flowed \in [Pools -> Int] /\ Minted \in [Pools -> Int]
    BY <1>3, <1>9 DEF Flowed, Minted
<1>11. \A p \in Pools : Minted[p] = 0 => Flowed[p] = 0
    BY <1>5, <1>9
<1>12. \A p \in Pools : Minted[p] # 0 => /\ p \in Named(times)
                                         /\ lpBal'[p] = 0 \/ Flowed[p] = -ReserveTopUp(p)
    BY <1>3, <1>7, <1>9 DEF Named
<1>13. T = 0 => \A p \in Pools : Flowed[p] \in Nat /\ Minted[p] = Flowed[p] * Factor
    BY <1>3, <1>5, <1>6, <1>7, <1>9
<1>14. T > 0 => \A p \in Pools : /\ 0 <= S * Flowed[p] - T * Minted[p]
                                 /\ S * Flowed[p] - T * Minted[p] < T
    <2> SUFFICES ASSUME T > 0, NEW p \in Pools
                 PROVE  0 <= S * moved[p] - T * minted[p] /\ S * moved[p] - T * minted[p] < T
        BY <1>9
    <2>1. CASE moved[p] = 0 /\ minted[p] = 0
        <3>1. S * 0 = 0 /\ T * 0 = 0
            BY <1>6
        <3> QED
            BY <1>6, <2>1, <3>1
    <2>2. CASE minted[p] > 0
        <3>1. S # 0
            BY <1>6 DEF S, T
        <3>2. minted[p] = (S * moved[p]) \div T
            <4>1. moved[p] * S = S * moved[p]
                BY <1>3, <1>6
            <4> QED
                BY <1>6, <1>7, <2>2, <3>1, <4>1
        <3>3. S * moved[p] \in Int /\ T * minted[p] \in Int
            BY <1>3, <1>6
        <3>4. T * minted[p] <= S * moved[p] /\ S * moved[p] < T * minted[p] + T
            BY <1>6, <3>2, <3>3, Quotient
        <3> QED
            BY <1>6, <3>3, <3>4
    <2> QED
        BY <1>5, <2>1, <2>2
<1>15. \A p \in Pools : 0 <= Minted[p]
    BY <1>3, <1>9
<1> QED
    BY <1>8, <1>9, <1>10, <1>11, <1>12, <1>13, <1>14, <1>15 DEF Rebalanced, S, T

\* withdrawFromLpAccount: what is burned is rounded down, so the pools topped up gain.
LEMMA WithdrawRebalances ==
    ASSUME StateTypes, PricesFixed, NEW times \in Calls, WithdrawFromLpAccount(times),
           FeedCurrent, ~Oracle!HasTvlOverride, Lp!TrackedTvl = 0 <=> MApt!MAptSupply = 0
    PROVE  Rebalanced(times)
<1> DEFINE S == MApt!MAptSupply
           T == Lp!TrackedTvl
           amounts == MApt!WithdrawAmounts(TopUpsOf(times))
           moved == MApt!Moved(times, amounts)
           burned == MApt!Deltas(times, amounts)
<1>1. /\ Quoted(times) /\ MApt!Quoted(times)
      /\ MApt!WithdrawFromLpAccount(times, TopUpsOf(times))
      /\ Lp!TransferToPool(moved)
      /\ Pool!ReceiveFromLpAccount(moved)
      /\ Lp!RegisterPoolUnderlyers(Named(times))
    BY DEF WithdrawFromLpAccount, TopUpsOf, Quoted
<1>2. /\ amounts \in [Pools -> Nat] /\ TopUpsOf(times) \in [Pools -> Int]
      /\ \A p \in Pools : amounts[p] > 0 => amounts[p] \in {lpBal[p], TopUpsOf(times)[p]}
    <2>1. TopUpsOf(times) \in [Pools -> Int]
        BY <1>1, TopUpType
    <2>2. amounts \in [Pools -> Nat]
        BY <2>1, WithdrawAmountsType DEF StateTypes
    <2>3. \A p \in Pools :
              \/ amounts[p] = IF TopUpsOf(times)[p] > 0 THEN TopUpsOf(times)[p] ELSE 0
              \/ amounts[p] = lpBal[p]
        BY DEF MApt!WithdrawAmounts, MApt!WithdrawAmount
    <2> HIDE DEF amounts
    <2> QED
        BY <2>1, <2>2, <2>3
<1>3. moved \in [Pools -> Nat] /\ burned \in [Pools -> Nat]
    BY <1>2, MovedType
<1>4. /\ mApt' = [p \in Pools |-> mApt[p] - burned[p]]
      /\ \A p \in Pools : burned[p] <= mApt[p]
    BY <1>1 DEF MApt!WithdrawFromLpAccount, MApt!MultipleBurn, MApt!Burnable
<1>5. \A p \in Pools :
          \/ moved[p] = 0 /\ burned[p] = 0
          \/ /\ times[p] = 1 /\ moved[p] = amounts[p] /\ amounts[p] > 0
             /\ burned[p] = MApt!CalculateDelta(p, amounts[p]) /\ burned[p] > 0
    BY <1>2, MovedIs
<1>6. S \in Nat /\ T \in Nat /\ Factor \in Nat /\ \A p \in Pools : mApt[p] > 0 => S > 0
    BY LentType, TrackedType, FlowConstants DEF StateTypes
<1>7. \A p \in Pools : burned[p] > 0 =>
          /\ times[p] > 0 /\ moved[p] \in {lpBal[p], ReserveTopUp(p)}
          /\ burned[p] = IF T = 0 \/ S = 0 THEN moved[p] * Factor ELSE (moved[p] * S) \div T
    <2> SUFFICES ASSUME NEW p \in Pools, burned[p] > 0
                 PROVE  /\ times[p] > 0 /\ moved[p] \in {lpBal[p], ReserveTopUp(p)}
                        /\ burned[p] = IF T = 0 \/ S = 0 THEN moved[p] * Factor
                                       ELSE (moved[p] * S) \div T
        OBVIOUS
    <2>1. /\ times[p] = 1 /\ moved[p] = amounts[p] /\ amounts[p] > 0 /\ amounts[p] \in Nat
          /\ burned[p] = MApt!CalculateDelta(p, amounts[p])
        BY <1>2, <1>5
    <2> HIDE DEF moved, burned, amounts, S, T
    <2>2. /\ TopUpsOf(times)[p] = ReserveTopUp(p)
          /\ \A n \in Nat : MApt!CalculateDelta(p, n)
                 = IF T = 0 \/ S = 0 THEN n * Factor ELSE (n * S) \div T
        BY <1>1, <2>1, QuotedAtReport DEF ReserveTopUp, S, T
    <2> QED
        BY <1>2, <2>1, <2>2
<1>8. /\ \A t \in Tokens : lpBal'[t] = lpBal[t] - (IF t \in Pools THEN moved[t] ELSE 0)
      /\ \A t \in Tokens : lpBal[t] \in Nat
      /\ \A p \in Pools : poolBal'[p] = poolBal[p] + moved[p] /\ mApt[p] \in Nat
                          /\ poolBal[p] \in Nat
      /\ UNCHANGED <<settings, position, allocations>>
      /\ erc20Tokens' = erc20Tokens \cup Named(times)
    <2>1. DOMAIN moved = Pools /\ \A t \in Tokens : lpBal[t] \in Nat
        BY <1>3 DEF StateTypes, LpTypes
    <2>2. \A t \in Tokens : lpBal'[t] = lpBal[t] - (IF t \in Pools THEN moved[t] ELSE 0)
        BY <1>1, <2>1 DEF Lp!TransferToPool, Tokens
    <2>3. \A p \in Pools : mApt[p] \in Nat /\ poolBal[p] \in Nat
        BY DEF StateTypes, MAptTypes, PoolTypes
    <2> HIDE DEF moved
    <2> QED
        BY <1>1, <2>1, <2>2, <2>3
        DEF Lp!TransferToPool, Pool!ReceiveFromLpAccount, Lp!RegisterPoolUnderlyers
<1> HIDE DEF moved, burned, amounts, S, T
<1>9. \A p \in Pools : Flowed[p] = -moved[p] /\ Minted[p] = -burned[p]
    BY <1>3, <1>4, <1>8, FlowConstants DEF Flowed, Minted
<1>10. Flowed \in [Pools -> Int] /\ Minted \in [Pools -> Int]
    BY <1>3, <1>9 DEF Flowed, Minted
<1>11. \A p \in Pools : Minted[p] = 0 => Flowed[p] = 0
    BY <1>3, <1>5, <1>9
<1>12. \A p \in Pools : Minted[p] # 0 => /\ p \in Named(times)
                                         /\ lpBal'[p] = 0 \/ Flowed[p] = -ReserveTopUp(p)
    <2> SUFFICES ASSUME NEW p \in Pools, Minted[p] # 0
                 PROVE  p \in Named(times) /\ (lpBal'[p] = 0 \/ Flowed[p] = -ReserveTopUp(p))
        OBVIOUS
    <2>1. burned[p] > 0 /\ p \in Tokens
        BY <1>3, <1>9, FlowConstants
    <2>2. moved[p] = lpBal[p] => lpBal'[p] = 0
        BY <1>8, <2>1
    <2> QED
        BY <1>7, <1>9, <2>1, <2>2 DEF Named
<1>13. T = 0 => \A p \in Pools : burned[p] = 0 /\ moved[p] = 0
    <2>1. T = 0 => S = 0
        BY DEF S, T
    <2>2. S = 0 => \A p \in Pools : burned[p] = 0
        BY <1>3, <1>4, <1>6, <1>8
    <2> QED
        BY <1>5, <2>1, <2>2
<1>14. T = 0 => \A p \in Pools : Flowed[p] \in Nat /\ Minted[p] = Flowed[p] * Factor
    <2>1. T = 0 => \A p \in Pools : Flowed[p] = 0 /\ Minted[p] = 0
        BY <1>9, <1>13
    <2>2. 0 * Factor = 0
        BY <1>6
    <2> QED
        BY <2>1, <2>2
<1>15. T > 0 => \A p \in Pools : /\ -T < S * Flowed[p] - T * Minted[p]
                                 /\ S * Flowed[p] - T * Minted[p] <= 0
    <2> SUFFICES ASSUME T > 0, NEW p \in Pools
                 PROVE  /\ -T < S * (-moved[p]) - T * (-burned[p])
                        /\ S * (-moved[p]) - T * (-burned[p]) <= 0
        BY <1>9
    <2>1. CASE moved[p] = 0 /\ burned[p] = 0
        <3>1. S * (-0) = 0 /\ T * (-0) = 0
            BY <1>6
        <3> QED
            BY <1>6, <2>1, <3>1
    <2>2. CASE burned[p] > 0
        <3>1. S # 0
            BY <1>6 DEF S, T
        <3>2. burned[p] = (S * moved[p]) \div T
            <4>1. moved[p] * S = S * moved[p]
                BY <1>3, <1>6
            <4> QED
                BY <1>6, <1>7, <2>2, <3>1, <4>1
        <3>3. /\ S * moved[p] \in Int /\ T * burned[p] \in Int
              /\ S * (-moved[p]) = -(S * moved[p]) /\ T * (-burned[p]) = -(T * burned[p])
            BY <1>3, <1>6
        <3>4. T * burned[p] <= S * moved[p] /\ S * moved[p] < T * burned[p] + T
            BY <1>6, <3>2, <3>3, Quotient
        <3> QED
            BY <1>6, <3>3, <3>4
    <2> QED
        BY <1>5, <2>1, <2>2
<1>16. \A p \in Pools : poolBal'[p] = poolBal[p] - Flowed[p]
    BY <1>3, <1>8, <1>9
<1>17. \A t \in Tokens : lpBal'[t] = lpBal[t] + (IF t \in Pools THEN Flowed[t] ELSE 0)
    BY <1>3, <1>8, <1>9
<1> QED
    BY <1>8, <1>10, <1>11, <1>12, <1>14, <1>15, <1>16, <1>17 DEF Rebalanced, S, T

-----------------------------------------------------------------------------
\* What is reported then.

\* What the next top-up is, when the deployed value is reported with its roundings.
LEMMA TargetWithinRounding ==
    ASSUME NEW S \in Nat, NEW T \in Nat, NEW n \in Nat, S > 0, NEW d \in Int, NEW D \in Int,
           NEW y \in Int, NEW r \in Int, NEW c \in Nat, y = -Pool!TopUpValue(d, r, c),
           -(S + T * n) < S * (D - d - y), S * (D - d - y) < S + T * n
    PROVE  LET t == Pool!TopUpValue(D, r - y, c)
               size == IF t < 0 THEN -t ELSE t
           IN  t \in Int /\ size * S < S + n * T
<1> DEFINE a == Pool!TopUpValue(d, r, c)
           e == D - (d - a)
           N == IF e < 0 THEN -e ELSE e
           t == Pool!TopUpValue(D, r + a, c)
           size == IF t < 0 THEN -t ELSE t
<1>1. D \in Int /\ -(S + T * n) < S * (D - d - y) /\ S * (D - d - y) < S + T * n
    OBVIOUS
<1>2. a \in Int
    <2>1. a = Pool!TruncDiv(d * c - r * 100, c + 100)
        BY DEF Pool!TopUpValue
    <2>2. d * c - r * 100 \in Int /\ c + 100 \in Nat /\ c + 100 > 0
        <3>1. d * c \in Int /\ r * 100 \in Int
            OBVIOUS
        <3> QED
            BY <3>1
    <2> HIDE DEF a
    <2> QED
        BY <2>1, <2>2, TruncDivBetween
<1>3. y = -a /\ r - y = r + a
    <2>1. y = -a
        BY Zenon
    <2> HIDE DEF a
    <2> QED
        BY <1>2, <2>1
<1> HIDE DEF a
<1>4. e \in Int /\ D - d - y = e /\ N \in Nat /\ -N <= e /\ e <= N
    <2>1. e \in Int /\ D - d - y = e
        BY <1>1, <1>2, <1>3
    <2> HIDE DEF e
    <2>2. N \in Nat /\ -N <= e /\ e <= N
        BY <2>1
    <2> QED
        BY <2>1, <2>2
<1>5. -N <= D - (d - a) /\ D - (d - a) <= N
    BY <1>4 DEF e
<1> HIDE DEF e, N
<1>6. t \in Int /\ -N <= t /\ t <= N
    <2> HIDE DEF t
    <2> QED
        BY <1>1, <1>4, <1>5, TopUpOnceMade DEF a, t
<1>7. S * N < S + T * n
    <2>1. S * (-e) = -(S * e) /\ S * e \in Int /\ T * n \in Nat
        BY <1>4
    <2>2. -(S + T * n) < S * e /\ S * e < S + T * n
        BY <1>1, <1>4
    <2> QED
        BY <1>4, <2>1, <2>2 DEF N
<1> HIDE DEF t
<1>8. size \in Nat /\ size <= N
    BY <1>4, <1>6
<1>9. S * size <= S * N /\ size * S = S * size /\ T * n = n * T
    <2> HIDE DEF size
    <2> QED
        BY <1>4, <1>8, ProductsOrder
<1>10. size * S < S + n * T
    <2>1. S * size \in Int /\ S * N \in Int /\ T * n \in Int
        BY <1>4, <1>8
    <2> HIDE DEF size
    <2> QED
        BY <1>7, <1>9, <2>1
<1> QED
    BY <1>3, <1>6, <1>10 DEF t

\* The sums after a rebalance.
LEMMA SumsMove ==
    ASSUME StateTypes, StateTypes', NEW times \in Calls, Rebalanced(times),
           \A q \in erc20Tokens' \ erc20Tokens : lpBal[q] = 0
    PROVE  /\ Lp!TrackedTvl' = Lp!TrackedTvl + Total(Flowed, Pools)
           /\ MApt!MAptSupply' = MApt!MAptSupply + Total(Minted, Pools)
           /\ Lp!TrackedTvl' \in Nat /\ MApt!MAptSupply' \in Nat
           /\ \A p \in Pools : mApt'[p] \in Nat /\ mApt'[p] <= MApt!MAptSupply'
           /\ \A p \in Pools : lpBal'[p] <= Lp!TrackedTvl' \/ Minted[p] = 0
<1>1. /\ Flowed \in [Pools -> Int] /\ Minted \in [Pools -> Int]
      /\ \A t \in Tokens : lpBal'[t] = lpBal[t] + (IF t \in Pools THEN Flowed[t] ELSE 0)
      /\ erc20Tokens' = erc20Tokens \cup Named(times)
      /\ position' = position /\ allocations' = allocations
      /\ \A p \in Pools : Minted[p] = 0 => Flowed[p] = 0
      /\ \A p \in Pools : Minted[p] # 0 => p \in Named(times)
    BY DEF Rebalanced
<1>2. /\ IsFiniteSet(erc20Tokens') /\ erc20Tokens' \subseteq Tokens
      /\ IsFiniteSet(Pools) /\ Pools \subseteq Tokens
      /\ \A t \in Tokens : lpBal[t] \in Nat /\ lpBal'[t] \in Nat
    <2>1. erc20Tokens' \subseteq Tokens
        BY DEF StateTypes, RegistryTypes
    <2>2. \A t \in Tokens : lpBal[t] \in Nat /\ lpBal'[t] \in Nat
        BY DEF StateTypes, LpTypes
    <2> QED
        BY <2>1, <2>2, FlowConstants, FS_Subset
<1>3. \A p \in Pools \ erc20Tokens' : Flowed[p] = 0
    BY <1>1
<1> DEFINE before == erc20Tokens
           after == erc20Tokens'
           held == lpBal
           holds == lpBal'
           flow == Flowed
<1>4. Total(holds, after) = Total(held, before) + Total(flow, Pools)
    <2>1. before \subseteq after
        BY <1>1
    <2>2. /\ \A x \in after : held[x] \in Int
          /\ \A x \in after : holds[x] = held[x] + (IF x \in Pools THEN flow[x] ELSE 0)
          /\ \A x \in Pools : flow[x] \in Int
          /\ \A x \in after \ before : held[x] = 0
          /\ \A x \in Pools \ after : flow[x] = 0
        BY <1>1, <1>2, <1>3
    <2>3. IsFiniteSet(after) /\ IsFiniteSet(Pools)
        BY <1>2
    <2> HIDE DEF before, after, held, holds, flow
    <2> QED
        BY <2>1, <2>2, <2>3, TotalExtends
<1>5. Lp!TrackedTvl' = Total(holds, after) + Total(position, Lp!Counted)
    <2>1. Lp!TrackedTvl' = Lp!Total(lpBal', erc20Tokens') + Lp!Total(position', Lp!Counted')
        BY DEF Lp!TrackedTvl
    <2>2. Lp!Counted' = Lp!Counted
        BY <1>1 DEF Lp!Counted
    <2> QED
        BY <1>1, <2>1, <2>2, LpTotalIsTotal DEF holds, after
<1>6. Lp!TrackedTvl = Total(held, before) + Total(position, Lp!Counted)
    BY TrackedIsTotal DEF held, before
<1>7. Total(position, Lp!Counted) \in Nat
    <2>1. IsFiniteSet(Lp!Counted) /\ \A z \in Lp!Counted : position[z] \in Nat
        BY FlowConstants, FS_Subset DEF StateTypes, LpTypes, Lp!Counted
    <2> QED
        BY <2>1, TotalOfNaturals
<1>8. Total(holds, after) \in Nat /\ \A t \in after : holds[t] <= Total(holds, after)
    <2>1. IsFiniteSet(after) /\ \A t \in after : holds[t] \in Nat
        BY <1>2
    <2> HIDE DEF holds, after
    <2> QED
        BY <2>1, TotalOfNaturals
<1>9. Total(flow, Pools) \in Int
    <2>1. \A x \in Pools : flow[x] \in Int
        BY <1>1
    <2> HIDE DEF flow
    <2> QED
        BY <1>2, <2>1, TotalType
<1>10. Total(held, before) \in Int
    <2>1. IsFiniteSet(before) /\ \A x \in before : held[x] \in Int
        <3>1. before \subseteq after
            BY <1>1
        <3> QED
            BY <1>2, <3>1, FS_Subset
    <2> HIDE DEF held, before
    <2> QED
        BY <2>1, TotalType
<1>11. /\ MApt!MAptSupply' = MApt!MAptSupply + Total(Minted, Pools)
       /\ MApt!MAptSupply' \in Nat
       /\ \A p \in Pools : mApt'[p] \in Nat /\ mApt'[p] <= MApt!MAptSupply'
    <2> DEFINE old == mApt
               new == mApt'
               gain == Minted
    <2>1. \A p \in Pools : old[p] \in Nat /\ new[p] \in Nat /\ gain[p] \in Int
                              /\ new[p] = old[p] + gain[p]
        BY <1>1 DEF StateTypes, MAptTypes, Minted
    <2>2. MApt!MAptSupply' = Total(new, Pools)
        BY DEF MApt!MAptSupply, MApt!Total, MApt!MapThenSumSet, MApt!MapThenFoldSet, Total,
               MapThenSumSet, MapThenFoldSet
    <2>3. MApt!MAptSupply = Total(old, Pools)
        BY SupplyIsTotal
    <2> HIDE DEF old, new, gain
    <2>4. Total(new, Pools) = Total(old, Pools) + Total(gain, Pools)
        BY <1>2, <2>1, TotalAdds
    <2>5. Total(new, Pools) \in Nat /\ \A p \in Pools : new[p] <= Total(new, Pools)
        BY <1>2, <2>1, TotalOfNaturals
    <2>6. \A p \in Pools : new[p] \in Nat
        BY <2>1
    <2> QED
        BY <2>2, <2>3, <2>4, <2>5, <2>6 DEF gain, new
<1>12. \A p \in Pools : lpBal'[p] <= Lp!TrackedTvl' \/ Minted[p] = 0
    <2> SUFFICES ASSUME NEW p \in Pools, Minted[p] # 0 PROVE lpBal'[p] <= Lp!TrackedTvl'
        OBVIOUS
    <2>1. p \in after /\ p \in Tokens
        BY <1>1, <1>2
    <2>2. holds[p] <= Total(holds, after) /\ holds[p] \in Nat
        BY <1>2, <1>8, <2>1
    <2> HIDE DEF after
    <2>3. holds[p] <= Lp!TrackedTvl'
        <3> HIDE DEF holds
        <3> QED
            BY <1>5, <1>7, <1>8, <2>2
    <2> QED
        BY <2>3
<1> HIDE DEF before, after, held, holds, flow
<1>13. Lp!TrackedTvl' = Lp!TrackedTvl + Total(flow, Pools) /\ Lp!TrackedTvl' \in Nat
    BY <1>4, <1>5, <1>6, <1>7, <1>8, <1>9, <1>10
<1> QED
    BY <1>11, <1>12, <1>13 DEF flow

\* A pool that a rebalance moved capital for is at its target once the TVL is reported.
LEMMA MovedAtTarget ==
    ASSUME StateTypes, StateTypes', PricesFixed, NEW times \in Calls, MApt!Quoted(times),
           Rebalanced(times), FeedCurrent, ~Oracle!HasTvlOverride,
           Lp!TrackedTvl = 0 <=> MApt!MAptSupply = 0,
           \A q \in erc20Tokens' \ erc20Tokens : lpBal[q] = 0,
           NEW p \in PoolsMoved, lpBal'[p] # 0
    PROVE  WithinRounding(TopUpOnceReported(p)')
<1> DEFINE S == MApt!MAptSupply
           T == Lp!TrackedTvl
           after == MApt!MAptSupply'
           total == Lp!TrackedTvl'
           m == mApt[p]
           mine == mApt'[p]
           d == MApt!GetDeployedValue(p)
           y == Flowed[p]
           r == poolBal[p]
           c == settings[p].reservePercentage
           n == Cardinality(PoolsMoved)
           D == (total * mine) \div after
           F == Total(Flowed, Pools)
           M == Total(Minted, Pools)
<1>1. /\ S \in Nat /\ T \in Nat /\ after \in Nat /\ total \in Nat
      /\ \A q \in Pools : mApt[q] \in Nat /\ mApt'[q] \in Nat /\ mApt'[q] <= after
      /\ \A q \in Pools : mApt[q] <= S
      /\ d \in Nat /\ r \in Nat /\ c \in Nat /\ Factor \in Nat /\ IsFiniteSet(Pools)
      /\ total = T + F /\ after = S + M
    <2>1. S \in Nat /\ T \in Nat /\ Factor \in Nat /\ IsFiniteSet(Pools)
        BY LentType, TrackedType, FlowConstants DEF StateTypes
    <2>2. p \in Pools
        BY DEF PoolsMoved
    <2>3. d \in Nat
        BY <2>2, DeployedType DEF StateTypes
    <2>4. r \in Nat /\ settings[p] \in Pool!Settings /\ \A q \in Pools : mApt[q] \in Nat
        BY <2>2 DEF StateTypes, PoolTypes, MAptTypes
    <2>5. c \in Nat
        BY <2>4 DEF Pool!Settings
    <2>6. \A q \in Pools : mApt[q] <= S
        BY <2>1, <2>4, TotalOfNaturals, SupplyIsTotal
    <2>7. /\ after \in Nat /\ total \in Nat /\ total = T + F /\ after = S + M
          /\ \A q \in Pools : mApt'[q] \in Nat /\ mApt'[q] <= after
        BY SumsMove
    <2> HIDE DEF S, T, after, total, d, r, c, F, M
    <2> QED
        BY <2>1, <2>3, <2>4, <2>5, <2>6, <2>7
<1>2. /\ p \in Pools /\ Minted[p] # 0 /\ p \in Named(times)
      /\ y = -Pool!TopUpValue(d, r, c)
      /\ poolBal'[p] = r - y /\ settings'[p] = settings[p]
      /\ mine = m + Minted[p]
      /\ \A q \in Pools : Flowed[q] \in Int /\ Minted[q] \in Int
    <2>1. p \in Pools /\ mine # m
        BY DEF PoolsMoved
    <2>2. /\ \A q \in Pools : Flowed[q] \in Int /\ Minted[q] \in Int
          /\ poolBal'[p] = r - y /\ settings'[p] = settings[p]
          /\ Minted[p] # 0 => p \in Named(times) /\ (lpBal'[p] = 0 \/ y = -ReserveTopUp(p))
        BY <2>1 DEF Rebalanced
    <2>3. Minted[p] = mine - m
        BY <2>1 DEF Minted
    <2>4. mine \in Nat /\ m \in Nat
        BY <1>1, <2>1
    <2> HIDE DEF m, mine, d, r, c, y
    <2>5. Minted[p] # 0 /\ mine = m + Minted[p]
        BY <2>1, <2>3, <2>4
    <2> QED
        BY <2>1, <2>2, <2>5 DEF ReserveTopUp, d, r, c
<1>3. /\ \A q \in Pools : q \in PoolsMoved \/ (Flowed[q] = 0 /\ Minted[q] = 0)
      /\ n \in Nat /\ n > 0
    <2>1. \A q \in Pools : q \notin PoolsMoved => Minted[q] = 0
        BY <1>1 DEF PoolsMoved, Minted
    <2>2. \A q \in Pools : Minted[q] = 0 => Flowed[q] = 0
        BY DEF Rebalanced
    <2>3. PoolsMoved \subseteq Pools /\ PoolsMoved # {}
        BY DEF PoolsMoved
    <2>4. IsFiniteSet(PoolsMoved)
        BY <1>1, <2>3, FS_Subset
    <2>5. n \in Nat /\ n # 0
        BY <2>3, <2>4, FS_CardinalityType, FS_EmptySet
    <2> HIDE DEF n
    <2> QED
        BY <2>1, <2>2, <2>5
<1>4. total > 0
    <2>1. lpBal'[p] <= total
        BY <1>2, SumsMove
    <2>2. lpBal'[p] \in Nat
        BY <1>2, FlowConstants DEF StateTypes, LpTypes
    <2> HIDE DEF total
    <2> QED
        BY <1>1, <2>1, <2>2
<1>5. TopUpOnceReported(p)' = Pool!TopUpValue(D, r - y, c)
    BY <1>2 DEF TopUpOnceReported
<1>6. WithinRounding(TopUpOnceReported(p)') <=>
          LET t == Pool!TopUpValue(D, r - y, c)
              size == IF t < 0 THEN -t ELSE t
          IN  size = 0 \/ size * S < S + n * T
    BY <1>5 DEF WithinRounding
<1> HIDE DEF S, T, after, total, m, mine, d, y, r, c, n, F, M
<1>7. CASE T > 0
    <2>1. S > 0
        BY <1>1, <1>7 DEF S, T
    <2>2. S * d <= T * m /\ T * m < S * d + S
        <3>1. TvlRead = T
            BY <1>2, QuotedAtReport DEF T, Named
        <3>2. d = IF S = 0 \/ m = 0 THEN 0 ELSE (T * m) \div S
            BY <3>1 DEF MApt!GetDeployedValue, d, m, S
        <3>3. m \in Nat /\ T * m \in Int /\ S * d \in Int
            <4>1. m \in Nat
                BY <1>1, <1>2 DEF m
            <4> QED
                BY <1>1, <4>1
        <3>4. CASE m = 0
            <4>1. S * 0 = 0 /\ T * 0 = 0 /\ d = 0
                BY <1>1, <3>2, <3>4
            <4>2. S * d = 0 /\ T * m = 0
                BY <3>4, <4>1
            <4> QED
                BY <1>1, <2>1, <4>1, <4>2
        <3>5. CASE m # 0
            <4>1. d = (T * m) \div S
                BY <2>1, <3>2, <3>5
            <4> QED
                BY <1>1, <2>1, <3>3, <4>1, Quotient
        <3> QED
            BY <3>4, <3>5
    <2> DEFINE J == S * F - T * M
               j == T * Minted[p] - S * y
    <2>3. /\ m \in Nat /\ mine \in Nat /\ mine <= after /\ y \in Int
          /\ mine = m + Minted[p] /\ Minted[p] \in Int
        BY <1>1, <1>2 DEF m, mine, y
    <2>4. /\ F \in Int /\ M \in Int
          /\ \/ 0 <= J /\ J <= T * n /\ -T < j /\ j <= 0 /\ 0 <= M
             \/ -(T * n) <= J /\ J <= 0 /\ 0 <= j /\ j < T
        <3> DEFINE miss(q) == S * Flowed[q] - T * Minted[q]
        <3>1. \/ \A q \in Pools : 0 <= miss(q) /\ miss(q) < T /\ 0 <= Minted[q]
              \/ \A q \in Pools : -T < miss(q) /\ miss(q) <= 0
            BY <1>7 DEF Rebalanced, S, T
        <3>2. /\ \A q \in Pools : Flowed[q] \in Int /\ Minted[q] \in Int
              /\ \A q \in Pools \ PoolsMoved : Flowed[q] = 0 /\ Minted[q] = 0
              /\ PoolsMoved \in SUBSET Pools /\ IsFiniteSet(Pools) /\ p \in Pools
            BY <1>1, <1>2, <1>3 DEF PoolsMoved
        <3>3. F \in Int /\ M \in Int
            BY <3>2, TotalType DEF F, M
        <3>4. /\ \A q \in Pools : S * Flowed[q] \in Int /\ T * Minted[q] \in Int
              /\ \A q \in Pools : (-S) * Flowed[q] = -(S * Flowed[q])
                                  /\ (-T) * Minted[q] = -(T * Minted[q])
              /\ S * F \in Int /\ T * M \in Int /\ T * n \in Nat
              /\ (-S) * F = -(S * F) /\ (-T) * M = -(T * M) /\ -S \in Int /\ -T \in Int
            BY <1>1, <1>3, <3>2, <3>3
        <3>5. \A q \in Pools : miss(q) \in Int /\ -miss(q) = (-S) * Flowed[q] - (-T) * Minted[q]
            BY <3>4
        <3>6. j = -miss(p)
            BY <3>2, <3>4 DEF y
        <3>7. CASE \A q \in Pools : 0 <= miss(q) /\ miss(q) < T /\ 0 <= Minted[q]
            <4>1. \A q \in Pools : 0 <= miss(q) /\ miss(q) <= T
                BY <1>1, <3>5, <3>7
            <4>2. S \in Int /\ T \in Int /\ T \in Nat
                BY <1>1
            <4>3. 0 <= J /\ J <= T * n
                BY <3>2, <4>1, <4>2, MissesAddUp DEF F, M, n
            <4>4. 0 <= M
                <5>1. \A q \in Pools : Minted[q] \in Nat
                    BY <3>2, <3>7
                <5> QED
                    BY <3>2, <5>1, TotalOfNaturals DEF M
            <4>5. -T < j /\ j <= 0
                <5> HIDE DEF miss, j
                <5> QED
                    BY <1>1, <3>2, <3>5, <3>6, <3>7
            <4> QED
                BY <3>3, <4>3, <4>4, <4>5
        <3>8. CASE \A q \in Pools : -T < miss(q) /\ miss(q) <= 0
            <4>1. \A q \in Pools : /\ 0 <= (-S) * Flowed[q] - (-T) * Minted[q]
                                   /\ (-S) * Flowed[q] - (-T) * Minted[q] <= T
                <5> SUFFICES ASSUME NEW q \in Pools
                             PROVE  0 <= -miss(q) /\ -miss(q) <= T
                    BY <3>5
                <5> HIDE DEF miss
                <5> QED
                    BY <1>1, <3>5, <3>8
            <4>2. /\ 0 <= (-S) * F - (-T) * M
                  /\ (-S) * F - (-T) * M <= T * n
                BY <1>1, <3>2, <3>4, <4>1, MissesAddUp DEF F, M, n
            <4>3. -(T * n) <= J /\ J <= 0
                BY <3>4, <4>2
            <4>4. 0 <= j /\ j < T
                <5> HIDE DEF miss, j
                <5> QED
                    BY <1>1, <3>2, <3>5, <3>6, <3>8
            <4> QED
                BY <3>3, <4>3, <4>4
        <3> HIDE DEF miss, J, j
        <3> QED
            BY <3>1, <3>7, <3>8
    <2>5. J \in Int /\ j \in Int /\ S * total = T * after + J /\ T * mine = T * m + S * y + j
        <3>1. S * (T + F) = S * T + S * F /\ T * (S + M) = T * S + T * M /\ S * T = T * S
              /\ S * T \in Int /\ S * F \in Int /\ T * M \in Int
            BY <1>1, <2>4
        <3>2. T * (m + Minted[p]) = T * m + T * Minted[p] /\ T * m \in Int
              /\ T * Minted[p] \in Int /\ S * y \in Int
            BY <1>1, <2>3
        <3>3. J \in Int /\ S * total = T * after + J
            BY <1>1, <3>1
        <3>4. j \in Int /\ T * mine = T * m + S * y + j
            BY <2>3, <3>2
        <3> QED
            BY <3>3, <3>4
    <2>6. after > 0
        <3>1. CASE 0 <= M
            <4> HIDE DEF J, j
            <4> QED
                BY <1>1, <2>1, <2>4, <3>1
        <3>2. CASE J <= 0
            <4>1. S * total > 0
                BY <1>1, <1>4, <2>1
            <4>2. T * after > 0
                <5>1. T * after \in Int /\ S * total \in Int
                    BY <1>1
                <5> HIDE DEF J
                <5> QED
                    BY <2>5, <3>2, <4>1, <5>1
            <4>3. T * 0 = 0
                BY <1>1
            <4> QED
                BY <1>1, <4>2, <4>3
        <3> QED
            BY <2>4, <3>1, <3>2
    <2>7. D \in Int /\ -(S + T * n) < S * (D - d - y) /\ S * (D - d - y) < S + T * n
        <3> HIDE DEF J, j
        <3>1. /\ S \in Nat /\ T \in Nat /\ m \in Nat /\ d \in Int /\ after \in Nat
              /\ total \in Nat /\ mine \in Nat /\ y \in Int /\ J \in Int /\ j \in Int
              /\ n \in Nat /\ n > 0 /\ S > 0 /\ after > 0
            BY <1>1, <1>3, <2>1, <2>3, <2>5, <2>6
        <3>2. \/ 0 <= J /\ J <= T * n /\ -T < j /\ j <= 0
              \/ -(T * n) <= J /\ J <= 0 /\ 0 <= j /\ j < T
            BY <2>4
        <3>3. LET V == (total * mine) \div after
              IN  V \in Int /\ -(S + T * n) < S * (V - d - y) /\ S * (V - d - y) < S + T * n
            <4>1. /\ S * d <= T * m /\ T * m < S * d + S /\ mine <= after
                  /\ S * total = T * after + J /\ T * mine = T * m + S * y + j
                BY <2>2, <2>3, <2>5
            <4> HIDE DEF D
            <4> QED
                BY <3>1, <3>2, <4>1, ReportedValue, Zenon
        <3> QED
            BY <3>3
    <2> HIDE DEF D
    <2>8. LET t == Pool!TopUpValue(D, r - y, c)
              size == IF t < 0 THEN -t ELSE t
          IN  t \in Int /\ size * S < S + n * T
        <3>1. d \in Int /\ r \in Int
            BY <1>1
        <3>2. y = -Pool!TopUpValue(d, r, c)
            BY <1>2
        <3>3. /\ S \in Nat /\ T \in Nat /\ n \in Nat /\ S > 0 /\ D \in Int /\ y \in Int
              /\ c \in Nat /\ -(S + T * n) < S * (D - d - y) /\ S * (D - d - y) < S + T * n
            BY <1>1, <1>3, <2>1, <2>3, <2>7
        <3> QED
            BY <3>1, <3>2, <3>3, TargetWithinRounding
    <2> QED
        BY <1>6, <2>8
<1>8. CASE T = 0
    <2>1. S = 0 /\ m = 0 /\ d = 0
        <3>1. S = 0
            BY <1>8 DEF S, T
        <3>2. m = 0
            BY <1>1, <1>2, <3>1 DEF m
        <3> QED
            BY <3>1, <3>2 DEF MApt!GetDeployedValue, d, m, S
    <2>2. \A q \in Pools : Flowed[q] \in Nat /\ Minted[q] = Factor * Flowed[q]
        <3>1. \A q \in Pools : Flowed[q] \in Nat /\ Minted[q] = Flowed[q] * Factor
            BY <1>8 DEF Rebalanced, T
        <3> QED
            BY <1>1, <3>1
    <2>3. F \in Nat /\ y \in Nat /\ M = Factor * F /\ y <= F
        <3>1. F \in Nat /\ y <= F /\ y \in Nat
            BY <1>1, <1>2, <2>2, TotalOfNaturals DEF F, y
        <3>2. M = Factor * F
            <4>1. \A q \in Pools : Flowed[q] \in Int /\ Minted[q] = Factor * Flowed[q]
                BY <2>2
            <4>2. Factor \in Int
                BY <1>1
            <4> QED
                BY <1>1, <4>1, <4>2, TotalScales DEF F, M
        <3> QED
            BY <3>1, <3>2
    <2>4. mine = Factor * y /\ mine # 0
        BY <1>1, <1>2, <2>1, <2>2, <2>3 DEF y
    <2>5. Factor > 0 /\ total = F /\ after = Factor * F /\ F > 0
        <3>1. 0 * y = 0
            BY <2>3
        <3>2. Factor # 0
            BY <2>4, <3>1
        <3>3. total = F /\ after = M
            BY <1>1, <1>8, <2>1, <2>3
        <3> QED
            BY <1>1, <1>4, <2>3, <3>2, <3>3
    <2>6. D = y
        <3>1. after > 0
            <4>1. Factor * 0 = 0
                BY <1>1
            <4>2. Factor * 0 < Factor * F
                BY <1>1, <2>3, <2>5, Cancel
            <4> QED
                BY <1>1, <2>5, <4>1, <4>2
        <3>2. total * mine = after * y
            BY <1>1, <2>3, <2>4, <2>5
        <3>3. after * y \in Int /\ after * (y + 1) = after * y + after
            BY <1>1, <2>3
        <3>4. after * y <= total * mine /\ total * mine < after * (y + 1)
            BY <1>1, <3>1, <3>2, <3>3
        <3>5. y <= D /\ D < y + 1 /\ D \in Int
            BY <1>1, <2>3, <3>1, <3>2, <3>3, <3>4, QuotientBounds, Quotient DEF D
        <3> HIDE DEF D
        <3> QED
            BY <2>3, <3>5
    <2> HIDE DEF D
    <2> DEFINE a == Pool!TopUpValue(d, r, c)
    <2>7. a \in Int /\ y = -a /\ r - y = r + a
        <3>1. y = -a
            BY <1>2
        <3>2. a \in Int
            <4>1. a = Pool!TruncDiv(d * c - r * 100, c + 100)
                BY DEF Pool!TopUpValue
            <4>2. d * c - r * 100 \in Int /\ c + 100 \in Nat /\ c + 100 > 0
                <5>1. d * c \in Int /\ r * 100 \in Int
                    BY <1>1
                <5> QED
                    BY <1>1, <5>1
            <4> HIDE DEF a
            <4> QED
                BY <4>1, <4>2, TruncDivBetween
        <3> HIDE DEF a
        <3> QED
            BY <1>1, <3>1, <3>2
    <2>8. -0 <= D - (d - a) /\ D - (d - a) <= 0
        <3> HIDE DEF a
        <3> QED
            BY <2>1, <2>3, <2>6, <2>7
    <2> DEFINE t == Pool!TopUpValue(D, r + a, c)
    <2>9. t = 0
        <3>1. d \in Int /\ r \in Int /\ D \in Int /\ 0 \in Nat
            BY <1>1, <2>3, <2>6
        <3>2. t \in Int /\ -0 <= t /\ t <= 0
            BY <1>1, <2>8, <3>1, TopUpOnceMade
        <3> HIDE DEF t
        <3> QED
            BY <3>2
    <2>10. Pool!TopUpValue(D, r - y, c) = 0
        <3> HIDE DEF a
        <3> QED
            BY <2>7, <2>9
    <2> QED
        BY <1>6, <2>10
<1> QED
    BY <1>1, <1>7, <1>8

\* What holds of each step.
LEMMA StepHitsTarget ==
    ASSUME StateTypes, StateTypes', PricesFixed, [Next]_vars
    PROVE  MovedPoolsAtTarget
<1> SUFFICES ASSUME mApt' # mApt, FeedCurrent, ~Oracle!HasTvlOverride,
                    Lp!TrackedTvl = 0 <=> MApt!MAptSupply = 0,
                    \A q \in erc20Tokens' \ erc20Tokens : lpBal[q] = 0,
                    NEW p \in PoolsMoved, lpBal'[p] # 0
             PROVE  WithinRounding(TopUpOnceReported(p)')
    BY DEF MovedPoolsAtTarget
<1>1. Transaction
    BY DEF Next, ReportTvl, NewBlock, vars
<1>2. PICK times \in Calls : FundLpAccount(times) \/ WithdrawFromLpAccount(times)
    BY <1>1, MAptChanges
<1>3. MApt!Quoted(times)
    BY <1>2 DEF FundLpAccount, WithdrawFromLpAccount, Quoted
<1>4. Rebalanced(times)
    BY <1>2, FundRebalances, WithdrawRebalances
<1> QED
    BY <1>3, <1>4, MovedAtTarget

\* A rebalance, of any pools in one call and at any ratio of mAPT to value, leaves every
\* pool it moved capital for at its target once the TVL is reported, but for the rounding.
THEOREM RebalancesAlwaysHitTarget == Spec => RebalanceHitsTarget
<1>1. Init => StateTypes /\ PricesFixed
    BY InitTypes, InitPrices
<1>2. StateTypes /\ PricesFixed /\ [Next]_vars => StateTypes' /\ PricesFixed'
    BY TransactionTypes, ReportTypes, BlockTypes, StutterTypes, PricesStay DEF Next
<1>3. StateTypes /\ StateTypes' /\ PricesFixed /\ [Next]_vars => [MovedPoolsAtTarget]_vars
    BY StepHitsTarget
<1> QED
    BY <1>1, <1>2, <1>3, PTL DEF Spec, RebalanceHitsTarget
=============================================================================
