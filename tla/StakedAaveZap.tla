--------------------------- MODULE StakedAaveZap ---------------------------
(***************************************************************************)
(* contracts/protocols/aave/stkAave.sol: the zap that stakes the LP        *)
(* Account's AAVE and takes it out again, by way of deployLiquidity and    *)
(* unwindLiquidity of common/AaveBasePool.sol.  It runs in the account's   *)
(* place (delegatecall), so that the AAVE, the stake and its cooldown are  *)
(* the account's.                                                          *)
(*                                                                         *)
(* The staking contract is external.  It gives AAVE back only within an    *)
(* unstake window that opens once a cooldown is over, so an unwinding is   *)
(* either the redemption, or the beginning of a cooldown, or it reverts;   *)
(* the LP Safe is to try again.  What the stake earns or loses is left     *)
(* out.                                                                    *)
(***************************************************************************)
EXTENDS Integers

CONSTANTS
    Cooldown,        \* COOLDOWN_SECONDS of the staking contract
    UnstakeWindow,   \* UNSTAKE_WINDOW
    MaxAave,         \* bound on the AAVE of the account, staked or not
    MaxTime          \* bound on block.timestamp

\* Assumed where the module is instantiated.
StakingAssumption ==
    /\ Cooldown \in Nat
    /\ UnstakeWindow \in Nat \ {0}
    /\ MaxAave \in Nat /\ MaxTime \in Nat

VARIABLES
    now,             \* block.timestamp
    aave,            \* AAVE of the LP Account
    staked,          \* its stkAAVE
    cooldownStart,   \* stakersCooldowns: when its cooldown began, or Never
    tryingSince,     \* history: when the first of a row of vain attempts to
                     \* unwind was made, none a window after the one before
    lastTry          \* history: when the last was made

stakeVars == <<aave, staked, cooldownStart>>
attempts == <<tryingSince, lastTry>>
vars == <<now, stakeVars, attempts>>

Never == 0

Init ==
    /\ now = Cooldown + UnstakeWindow + 1
    /\ aave = 0
    /\ staked = 0
    /\ cooldownStart = Never
    /\ tryingSince = Never /\ lastTry = Never

GiveUp == tryingSince' = Never /\ lastTry' = Never

-----------------------------------------------------------------------------
\* The staking contract.

WindowOpen ==
    /\ cooldownStart + Cooldown < now
    /\ now <= cooldownStart + Cooldown + UnstakeWindow

WindowFinished == cooldownStart + Cooldown + UnstakeWindow < now

\* A stake that grows moves a cooldown towards the present, or clears it.
CooldownMoved == cooldownStart' \in {Never} \cup cooldownStart..now

Redeem(amount) ==
    /\ WindowOpen
    /\ amount <= staked
    /\ staked' = staked - amount
    /\ aave' = aave + amount
    /\ cooldownStart' = IF amount = staked THEN Never ELSE cooldownStart

-----------------------------------------------------------------------------
\* The zap.

\* _deposit
Stake(amount) ==
    /\ amount <= aave
    /\ aave' = aave - amount
    /\ staked' = staked + amount
    /\ CooldownMoved
    /\ GiveUp
    /\ UNCHANGED now

\* Mutant: whatever the reason redeem failed for, the cooldown is started.
RestartsCooldownAlways == ~WindowOpen

\* Only the reason UNSTAKE_WINDOW_FINISHED, which also says there was no cooldown.
RestartsCooldown == WindowFinished

\* _withdraw
Withdraw(amount) ==
    /\ \/ Redeem(amount) /\ GiveUp
       \/ /\ ~WindowOpen
          /\ tryingSince' = IF tryingSince = Never THEN now ELSE tryingSince
          /\ lastTry' = now
          /\ \/ RestartsCooldown /\ cooldownStart' = now
             \/ ~RestartsCooldown /\ UNCHANGED cooldownStart    \* reverts
          /\ UNCHANGED <<aave, staked>>
    /\ UNCHANGED now

Claim(amount) ==
    /\ aave' = aave + amount
    /\ UNCHANGED <<now, staked, cooldownStart, attempts>>

-----------------------------------------------------------------------------
\* stkAAVE that the other zaps of Aave collect.
Rewarded(amount) ==
    /\ staked' = staked + amount
    /\ CooldownMoved
    /\ GiveUp
    /\ UNCHANGED <<now, aave>>

\* Whoever lets a window's length pass without an attempt has given up.
Tick ==
    /\ now < MaxTime
    /\ now' = now + 1
    /\ IF tryingSince # Never /\ now' - lastTry > UnstakeWindow
       THEN GiveUp
       ELSE UNCHANGED attempts
    /\ UNCHANGED stakeVars

Next ==
    \/ \E n \in 1..aave : Stake(n)
    \/ \E n \in 1..staked : Withdraw(n)
    \/ \E n \in 1..(MaxAave - aave - staked) : Claim(n) \/ Rewarded(n)
    \/ Tick

Spec == Init /\ [][Next]_vars

-----------------------------------------------------------------------------
\* unwindStrategy of stkAAVE: who tries again at least once in the length of every
\* unstake window has AAVE back within one cooldown and one window, for however
\* long an attempt may come too early, unless the stake grows meanwhile.  A retry
\* never puts off what it is waiting for.
RetriesSucceed ==
    tryingSince # Never => now <= tryingSince + Cooldown + UnstakeWindow
=============================================================================
