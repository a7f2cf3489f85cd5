-------------------------- MODULE GovernanceTokenV2 --------------------------
(***************************************************************************)
(* contracts/rewards/GovernanceTokenV2.sol: the APY token, in which        *)
(* lockers may lock part of an account's balance until lockEnd, one time   *)
(* for all.  The owner moves lockEnd; what is locked is never unlocked one *)
(* by one, it only stops to count.  Allowances are left out.               *)
(***************************************************************************)
EXTENDS Integers

CONSTANTS
    Accounts,
    Treasury,       \* holds the supply in the beginning
    InitialSupply,
    Lockers,        \* accounts that may be given the right to lock
    Amounts,
    LockEnds,       \* times the owner chooses from
    MaxTimestamp    \* bound: the clock

ASSUME TokenAssumption ==
    /\ Treasury \in Accounts
    /\ InitialSupply \in Nat /\ MaxTimestamp \in Nat
    /\ Amounts \subseteq Nat /\ LockEnds \subseteq Nat

VARIABLES
    timestamp,
    balances,
    lockEnd,
    lockers,
    lockedAmount,
    restarted       \* history: a new lock period began on amounts locked in an earlier one

tokenVars == <<timestamp, balances, lockEnd, lockers, lockedAmount, restarted>>

-----------------------------------------------------------------------------
IsLockPeriodActive == timestamp <= lockEnd

\* Negative, where the subtraction of the code reverts, only in a restarted period.
UnlockedBalance(a) ==
    IF IsLockPeriodActive THEN balances[a] - lockedAmount[a] ELSE balances[a]

\* _beforeTokenTransfer, and the balance that _transfer takes from.
MayTransfer(from, amount) == amount <= UnlockedBalance(from) /\ amount <= balances[from]

Moved(from, to, amount) ==
    [a \in Accounts |-> balances[a] + (IF a = to THEN amount ELSE 0)
                                    - (IF a = from THEN amount ELSE 0)]

-----------------------------------------------------------------------------
TokenInit ==
    /\ timestamp = 1
    /\ balances = [a \in Accounts |-> IF a = Treasury THEN InitialSupply ELSE 0]
    /\ lockEnd = 0
    /\ lockers = {}
    /\ lockedAmount = [a \in Accounts |-> 0]
    /\ restarted = FALSE

Transfer(from, to, amount) ==
    /\ MayTransfer(from, amount)
    /\ balances' = Moved(from, to, amount)
    /\ UNCHANGED <<timestamp, lockEnd, lockers, lockedAmount, restarted>>

SetLockEnd(end) ==
    /\ lockEnd' = end
    /\ restarted' = (restarted \/
           (~IsLockPeriodActive /\ timestamp <= end /\ \E a \in Accounts : lockedAmount[a] > 0))
    /\ UNCHANGED <<timestamp, balances, lockers, lockedAmount>>

AddLocker(locker) ==
    /\ lockers' = lockers \cup {locker}
    /\ UNCHANGED <<timestamp, balances, lockEnd, lockedAmount, restarted>>

RemoveLocker(locker) ==
    /\ lockers' = lockers \ {locker}
    /\ UNCHANGED <<timestamp, balances, lockEnd, lockedAmount, restarted>>

\* Mutant: what is already locked may be locked again.
LockAmountOfBalance(locker, a, amount) ==
    /\ locker \in lockers
    /\ IsLockPeriodActive
    /\ amount <= balances[a]
    /\ lockedAmount' = [lockedAmount EXCEPT ![a] = @ + amount]
    /\ UNCHANGED <<timestamp, balances, lockEnd, lockers, restarted>>

LockAmount(locker, a, amount) ==
    /\ locker \in lockers
    /\ IsLockPeriodActive
    /\ amount <= UnlockedBalance(a)
    /\ lockedAmount' = [lockedAmount EXCEPT ![a] = @ + amount]
    /\ UNCHANGED <<timestamp, balances, lockEnd, lockers, restarted>>

TimePasses ==
    /\ timestamp < MaxTimestamp
    /\ timestamp' = timestamp + 1
    /\ UNCHANGED <<balances, lockEnd, lockers, lockedAmount, restarted>>

TokenNext ==
    \/ \E from, to \in Accounts, amount \in Amounts : Transfer(from, to, amount)
    \/ \E end \in LockEnds : SetLockEnd(end)
    \/ \E locker \in Lockers : AddLocker(locker) \/ RemoveLocker(locker)
    \/ \E locker \in Lockers, a \in Accounts, amount \in Amounts : LockAmount(locker, a, amount)
    \/ TimePasses

TokenSpec == TokenInit /\ [][TokenNext]_tokenVars

-----------------------------------------------------------------------------
\* The values the variables take: no transfer or lock takes a balance below zero.
TokenTypeOK ==
    /\ timestamp \in Nat /\ lockEnd \in Nat
    /\ balances \in [Accounts -> Nat]
    /\ lockedAmount \in [Accounts -> Nat]
    /\ lockers \subseteq Lockers
    /\ restarted \in BOOLEAN

\* While a lock period lasts every account holds what is locked of it, however often
\* lockEnd was moved within the period and tokens were locked and transferred in
\* between; only a period started anew over amounts locked in an earlier one can
\* leave an account short, as the warning at setLockEnd says.
LockedWithinBalance ==
    IsLockPeriodActive /\ ~restarted => \A a \in Accounts : lockedAmount[a] <= balances[a]
=============================================================================
