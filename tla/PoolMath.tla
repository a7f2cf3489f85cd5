----------------------------- MODULE PoolMath ------------------------------
(***************************************************************************)
(* The arithmetic of contracts/pool/PoolTokenV3.sol and of the mAPT        *)
(* (contracts/mapt/MetaPoolTokenV2.sol) on unsigned integers with the      *)
(* truncating division of the EVM.  `unit' is 10**decimals of the          *)
(* underlyer.  Results that would not fit 256 bits revert in the code and  *)
(* do not occur in the small instances.                                    *)
(***************************************************************************)
EXTENDS Integers

\* SignedSafeMath.div rounds towards zero; \div rounds down.
TruncDiv(a, b) == IF a >= 0 THEN a \div b ELSE -((-a) \div b)

\* getValueFromUnderlyerAmount
ValueOf(amount, price, unit) == (price * amount) \div unit

\* Mutant: rounds in favour of whoever gets the shares.
SharesForRoundedUp(value, totalValue, supply, factor) ==
    IF totalValue = 0 \/ supply = 0
    THEN value * factor
    ELSE -((-(value * supply)) \div totalValue)

\* _calculateMintAmount of the pool and _calculateDelta of the mAPT: shares
\* for a value, at a fixed ratio when there is nothing to compare with.
SharesFor(value, totalValue, supply, factor) ==
    IF totalValue = 0 \/ supply = 0
    THEN value * factor
    ELSE (value * supply) \div totalValue

\* getUnderlyerAmount
UnderlyerFor(shares, totalValue, supply, price, unit) ==
    ((shares * totalValue * unit) \div supply) \div price

\* Mutant: forgets that what is moved also changes the deployed value.
TopUpValueOneSided(deployed, reserve, percentage) ==
    TruncDiv(deployed * percentage - reserve * 100, 100)

\* _getReserveTopUpValue
TopUpValue(deployed, reserve, percentage) ==
    TruncDiv(deployed * percentage - reserve * 100, percentage + 100)

\* getReserveTopUpValue, in underlyer
TopUpAmount(deployed, reserve, percentage, price, unit) ==
    LET value == TopUpValue(deployed, reserve, percentage)
    IN  IF value = 0 THEN 0 ELSE TruncDiv(value * unit, price)
=============================================================================
