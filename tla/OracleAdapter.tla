--------------------------- MODULE OracleAdapter ---------------------------
(***************************************************************************)
(* contracts/oracle/OracleAdapter.sol: the gateway through which every     *)
(* other contract reads the TVL and the asset prices.  A value is the      *)
(* answer of a Chainlink aggregator, unless the Emergency Safe submitted   *)
(* an override that has not expired; while the adapter is locked nothing   *)
(* can be read at all.                                                     *)
(*                                                                         *)
(* A call that reverts is a call that takes no step: the guards of an      *)
(* action are the `require's of its function, and of the functions it      *)
(* calls.  The aggregators, the two clocks of the chain and the mAPT       *)
(* supply are the environment.                                             *)
(***************************************************************************)
EXTENDS Integers

CONSTANTS
    Assets,        \* the tokens priced by the adapter
    Tvl,           \* names the TVL among the values served
    Sources,       \* the deployed aggregator contracts
    NoSource,      \* an address without code (the zero address)
    Answers,       \* the answers aggregators may report (int256)
    Values,        \* the values the Emergency Safe may submit (uint256)
    Periods,       \* lock and submission periods, in blocks
    StalePeriods,  \* heartbeat durations the admin may choose, in seconds
    Supplies,      \* the mAPT total supplies distinguished
    BlockGaps,     \* seconds that may pass between two blocks
    MaxBlock       \* bound: no block after this one

ASSUME ConstantsAssumption ==
    /\ Tvl \notin Assets
    /\ NoSource \notin Sources
    /\ Answers \subseteq Int
    /\ Values \subseteq Nat
    /\ Periods \subseteq Nat
    /\ StalePeriods \subseteq Nat
    /\ Supplies \subseteq Nat
    /\ BlockGaps \subseteq Nat
    /\ MaxBlock \in Nat

VARIABLES
    block,                 \* block.number
    timestamp,             \* block.timestamp
    feed,                  \* latestRoundData of each aggregator
    mAptSupply,            \* totalSupply of the mAPT contract
    lockEnd,
    defaultLockPeriod,
    chainlinkStalePeriod,
    tvlSource,
    assetSources,
    submittedTvlValue,
    submittedAssetValues

envVars == <<block, timestamp, feed, mAptSupply>>
lockVars == <<lockEnd, defaultLockPeriod>>
sourceVars == <<chainlinkStalePeriod, tvlSource, assetSources>>
overrideVars == <<submittedTvlValue, submittedAssetValues>>
adapterVars == <<lockVars, sourceVars, overrideVars>>
vars == <<envVars, adapterVars>>

-----------------------------------------------------------------------------
\* What can be read.

Submission == [value : Nat, periodEnd : Nat]
Round == [hasData : BOOLEAN, answer : Int, updatedAt : Nat]

IsLocked == block < lockEnd

HasTvlOverride == block < submittedTvlValue.periodEnd

HasAssetOverride(asset) == block < submittedAssetValues[asset].periodEnd

\* _getPriceFromSource returns feed[source].answer when this holds, and
\* reverts when it does not.
SourceReadable(source) ==
    /\ source \in Sources
    /\ feed[source].hasData
    /\ feed[source].answer >= 0
    /\ timestamp - feed[source].updatedAt <= chainlinkStalePeriod

TvlReadable ==
    /\ ~IsLocked
    /\ \/ HasTvlOverride
       \/ /\ SourceReadable(tvlSource)
          /\ feed[tvlSource].answer > 0 \/ mAptSupply = 0

GetTvl ==
    IF HasTvlOverride THEN submittedTvlValue.value ELSE feed[tvlSource].answer

AssetPriceReadable(asset) ==
    /\ ~IsLocked
    /\ \/ HasAssetOverride(asset)
       \/ /\ SourceReadable(assetSources[asset])
          /\ feed[assetSources[asset]].answer > 0

GetAssetPrice(asset) ==
    IF HasAssetOverride(asset)
    THEN submittedAssetValues[asset].value
    ELSE feed[assetSources[asset]].answer

-----------------------------------------------------------------------------
\* The constructor: assets without a source in its arguments have none.

AdapterInit ==
    /\ lockEnd = 0
    /\ defaultLockPeriod \in Periods
    /\ chainlinkStalePeriod \in StalePeriods \ {0}
    /\ tvlSource \in Sources
    /\ assetSources \in [Assets -> Sources \cup {NoSource}]
    /\ submittedTvlValue = [value |-> 0, periodEnd |-> 0]
    /\ submittedAssetValues = [a \in Assets |-> [value |-> 0, periodEnd |-> 0]]

ChainInit ==
    /\ block = 0
    /\ timestamp = 0
    /\ feed = [s \in Sources |->
           [hasData |-> FALSE, answer |-> 0, updatedAt |-> 0]]

Init == AdapterInit /\ ChainInit /\ mAptSupply \in Supplies

-----------------------------------------------------------------------------
\* Locking.

\* Mutant: the lock ends in the past.
LockBackwards(period) == lockEnd' = block - period

\* _lockFor.
LockUntil(period) == lockEnd' = block + period

SetDefaultLockPeriod(period) ==
    /\ defaultLockPeriod' = period
    /\ UNCHANGED <<lockEnd, sourceVars, overrideVars>>

\* lock(): no comparison with a lock already in place.
Lock ==
    /\ LockUntil(defaultLockPeriod)
    /\ UNCHANGED <<defaultLockPeriod, sourceVars, overrideVars>>

\* Mutant: lockFor may shorten a lock, as lock() may.
LockForAlwaysAccepted(period) == block + period >= 0

LockForAccepted(period) == block + period > lockEnd

LockFor(period) ==
    /\ LockUntil(period)
    /\ LockForAccepted(period)
    /\ UNCHANGED <<defaultLockPeriod, sourceVars, overrideVars>>

EmergencyUnlock ==
    /\ LockUntil(0)
    /\ UNCHANGED <<defaultLockPeriod, sourceVars, overrideVars>>

-----------------------------------------------------------------------------
\* Manual submissions of the Emergency Safe.

EmergencySetTvl(value, period) ==
    /\ submittedTvlValue' = [value |-> value, periodEnd |-> block + period]
    /\ UNCHANGED <<lockVars, sourceVars, submittedAssetValues>>

EmergencyUnsetTvl ==
    /\ submittedTvlValue.periodEnd # 0
    /\ submittedTvlValue' = [submittedTvlValue EXCEPT !.periodEnd = block]
    /\ UNCHANGED <<lockVars, sourceVars, submittedAssetValues>>

EmergencySetAssetValue(asset, value, period) ==
    /\ submittedAssetValues' =
           [submittedAssetValues EXCEPT
               ![asset] = [value |-> value, periodEnd |-> block + period]]
    /\ UNCHANGED <<lockVars, sourceVars, submittedTvlValue>>

EmergencyUnsetAssetValue(asset) ==
    /\ submittedAssetValues[asset].periodEnd # 0
    /\ submittedAssetValues' =
           [submittedAssetValues EXCEPT ![asset].periodEnd = block]
    /\ UNCHANGED <<lockVars, sourceVars, submittedTvlValue>>

-----------------------------------------------------------------------------
\* Sources.  Only an address with code is accepted.

EmergencySetTvlSource(source) ==
    /\ source # NoSource
    /\ tvlSource' = source
    /\ UNCHANGED <<lockVars, chainlinkStalePeriod, assetSources, overrideVars>>

EmergencySetAssetSource(asset, source) ==
    /\ source # NoSource
    /\ assetSources' = [assetSources EXCEPT ![asset] = source]
    /\ UNCHANGED <<lockVars, chainlinkStalePeriod, tvlSource, overrideVars>>

\* All assets of a call, or none of them.
EmergencySetAssetSources(new) ==
    /\ \A a \in DOMAIN new : new[a] # NoSource
    /\ assetSources' = [a \in Assets |->
           IF a \in DOMAIN new THEN new[a] ELSE assetSources[a]]
    /\ UNCHANGED <<lockVars, chainlinkStalePeriod, tvlSource, overrideVars>>

SetChainlinkStalePeriod(period) ==
    /\ period > 0
    /\ chainlinkStalePeriod' = period
    /\ UNCHANGED <<lockVars, tvlSource, assetSources, overrideVars>>

-----------------------------------------------------------------------------
\* The environment.

NewBlock ==
    /\ block < MaxBlock
    /\ block' = block + 1
    /\ \E gap \in BlockGaps : timestamp' = timestamp + gap
    /\ UNCHANGED <<feed, mAptSupply>>

\* Chainlink nodes finish a round of an aggregator.
AnswerUpdated(source, answer) ==
    feed' = [feed EXCEPT ![source] =
        [hasData |-> TRUE, answer |-> answer, updatedAt |-> timestamp]]

\* Pools are funded or repaid by the mAPT contract.
SupplyChanged ==
    /\ mAptSupply' \in Supplies
    /\ UNCHANGED <<block, timestamp, feed>>

-----------------------------------------------------------------------------
LockStep ==
    \/ \E p \in Periods : SetDefaultLockPeriod(p) \/ LockFor(p)
    \/ Lock
    \/ EmergencyUnlock

OverrideStep ==
    \/ EmergencyUnsetTvl
    \/ \E v \in Values, p \in Periods : EmergencySetTvl(v, p)
    \/ \E a \in Assets : EmergencyUnsetAssetValue(a)
    \/ \E a \in Assets, v \in Values, p \in Periods :
           EmergencySetAssetValue(a, v, p)

SourceStep ==
    \/ \E s \in Sources \cup {NoSource} : EmergencySetTvlSource(s)
    \/ \E a \in Assets, s \in Sources \cup {NoSource} :
           EmergencySetAssetSource(a, s)
    \/ \E A \in SUBSET Assets : \E new \in [A -> Sources \cup {NoSource}] :
           EmergencySetAssetSources(new)
    \/ \E p \in StalePeriods : SetChainlinkStalePeriod(p)

EnvStep ==
    \/ NewBlock
    \/ /\ \E s \in Sources, a \in Answers : AnswerUpdated(s, a)
       /\ UNCHANGED <<block, timestamp, mAptSupply>>
    \/ SupplyChanged

AdapterStep == LockStep \/ OverrideStep \/ SourceStep

Next ==
    \/ AdapterStep /\ UNCHANGED envVars
    \/ EnvStep /\ UNCHANGED adapterVars

Spec == Init /\ [][Next]_vars

-----------------------------------------------------------------------------
\* The values the variables take.
TypeOK ==
    /\ block \in 0..MaxBlock
    /\ timestamp \in Nat
    /\ feed \in [Sources -> Round]
    /\ mAptSupply \in Nat
    /\ lockEnd \in Nat
    /\ defaultLockPeriod \in Nat
    /\ chainlinkStalePeriod \in Nat \ {0}
    /\ tvlSource \in Sources
    /\ assetSources \in [Assets -> Sources \cup {NoSource}]
    /\ submittedTvlValue \in Submission
    /\ submittedAssetValues \in [Assets -> Submission]

\* The absolute block numbers of lock(), lockFor, emergencyUnlock and of the
\* emergency submissions implement timers that run down by themselves and
\* that nothing but a new request winds up: an unset or expired override
\* stays off, and only lock() and emergencyUnlock ever bring lockEnd nearer.
Left(end) == IF block < end THEN end - block ELSE 0

SubmissionOf(reading) ==
    IF reading = Tvl THEN submittedTvlValue ELSE submittedAssetValues[reading]

Gate == INSTANCE ValueGate WITH
    Readings <- Assets \cup {Tvl},
    closedFor <- Left(lockEnd),
    overrideFor <-
        [r \in Assets \cup {Tvl} |-> Left(SubmissionOf(r).periodEnd)],
    overrideValue <- [r \in Assets \cup {Tvl} |-> SubmissionOf(r).value],
    defaultPeriod <- defaultLockPeriod

ImplementsGate == Gate!Spec
=============================================================================
