---------------------------- MODULE VotingEscrow ----------------------------
(***************************************************************************)
(* contracts/rewards/VotingEscrow.vy: tokens locked until a week's start   *)
(* give voting power that falls linearly to zero at the end of the lock.   *)
(* The total is kept as one line, whose slope changes where locks end.     *)
(* The admin can shut the escrow down; tokens then leave at any time.      *)
(*                                                                         *)
(* Only the last point of the histories is kept, for the views at the      *)
(* current block; block numbers, ownership and the checker of contract     *)
(* wallets are left out.  The loops over weeks end after 255 of them: no   *)
(* time considered here is that far from the last point.                   *)
(***************************************************************************)
EXTENDS Sums

CONSTANTS
    Users,
    WEEK,
    MAXTIME,
    Deposits,     \* amounts
    Funds,        \* tokens of each user at the start
    MaxTime       \* bound: the clock

Escrow == "escrow"

ASSUME EscrowAssumption ==
    /\ IsFiniteSet(Users) /\ Escrow \notin Users
    /\ {WEEK, MAXTIME} \subseteq Nat \ {0}
    /\ Deposits \subseteq Nat \ {0}
    /\ Funds \in Nat /\ MaxTime \in Nat \ {0}

VARIABLES
    now,
    locked,           \* by user: an amount and the end of the lock
    supply,
    slopeChanges,     \* by time, at the start of weeks
    lastPoint,        \* point_history[epoch]
    checkpointed,     \* epoch > 0
    userPoint,        \* user_point_history at user_point_epoch
    isShutdown,
    tokens            \* of the users and of the escrow

vars == <<now, locked, supply, slopeChanges, lastPoint, checkpointed, userPoint, isShutdown, tokens>>

Times == 0 .. MaxTime + MAXTIME
NoLock == [amount |-> 0, end |-> 0]
NoPoint == [bias |-> 0, slope |-> 0, ts |-> 0]

WeekStart(t) == (t \div WEEK) * WEEK

-----------------------------------------------------------------------------
\* Mutant: a lock that has expired counts as before.
PointOfExpired(lock) ==
    LET slope == lock.amount \div MAXTIME
    IN  [bias |-> slope * (lock.end - now), slope |-> slope, ts |-> now]

\* The line of one lock as of now.
PointOf(lock) ==
    LET slope == IF lock.end > now /\ lock.amount > 0 THEN lock.amount \div MAXTIME ELSE 0
    IN  [bias |-> slope * (lock.end - now), slope |-> slope, ts |-> now]

WeeksPassed(from, to) == {t \in from + 1 .. to : t % WEEK = 0}

\* Mutant: the week that starts at time to is not passed.
LineBeforeWeek(point, to) ==
    LET weeks == WeeksPassed(point.ts, to) \ {to}
    IN  [bias |-> point.bias - point.slope * (to - point.ts)
                      - Total([t \in weeks |-> slopeChanges[t] * (to - t)], weeks),
         slope |-> point.slope + Total(slopeChanges, weeks),
         ts |-> to]

\* The loop over weeks from a point to a time, summed up: at each start of a week that is
\* passed the slope changes.  The loop clips at zero on the way what is clipped here in
\* the end; as long as no slope is negative there is no difference.
Line(point, to) ==
    LET weeks == WeeksPassed(point.ts, to)
    IN  [bias |-> point.bias - point.slope * (to - point.ts)
                      - Total([t \in weeks |-> slopeChanges[t] * (to - t)], weeks),
         slope |-> point.slope + Total(slopeChanges, weeks),
         ts |-> to]

NotNegative(n) == Max({n, 0})

\* The last point brought up to now.
CurrentPoint == IF checkpointed THEN Line(lastPoint, now) ELSE [NoPoint EXCEPT !.ts = now]

\* Mutant: an extended lock leaves its old end scheduled.
RescheduledForgettingOld(old, new) ==
    LET dOld == IF new.end = old.end THEN PointOf(old).slope - PointOf(new).slope ELSE 0
        dNew == IF new.end > old.end THEN 0 - PointOf(new).slope ELSE 0
    IN  [t \in Times |->
            IF t = old.end /\ t > now THEN slopeChanges[t] + dOld
            ELSE IF t = new.end /\ t > now THEN slopeChanges[t] + dNew
            ELSE slopeChanges[t]]

\* The scheduled changes once a user's lock is replaced.
Rescheduled(old, new) ==
    LET dOld == PointOf(old).slope - (IF new.end = old.end THEN PointOf(new).slope ELSE 0)
        dNew == IF new.end > old.end THEN 0 - PointOf(new).slope ELSE 0
    IN  [t \in Times |->
            IF t = old.end /\ t > now THEN slopeChanges[t] + dOld
            ELSE IF t = new.end /\ t > now THEN slopeChanges[t] + dNew
            ELSE slopeChanges[t]]

\* Mutant: the user's point is that of the lock it had.
UserCheckpointOfOld(u, old, new) ==
    /\ lastPoint' =
           [bias |-> NotNegative(NotNegative(CurrentPoint.bias) + PointOf(new).bias - PointOf(old).bias),
            slope |-> NotNegative(NotNegative(CurrentPoint.slope) + PointOf(new).slope - PointOf(old).slope),
            ts |-> now]
    /\ checkpointed' = TRUE
    /\ slopeChanges' = Rescheduled(old, new)
    /\ userPoint' = [userPoint EXCEPT ![u] = PointOf(old)]

\* _checkpoint of a user whose lock is replaced.
UserCheckpoint(u, old, new) ==
    /\ lastPoint' =
           [bias |-> NotNegative(NotNegative(CurrentPoint.bias) + PointOf(new).bias - PointOf(old).bias),
            slope |-> NotNegative(NotNegative(CurrentPoint.slope) + PointOf(new).slope - PointOf(old).slope),
            ts |-> now]
    /\ checkpointed' = TRUE
    /\ slopeChanges' = Rescheduled(old, new)
    /\ userPoint' = [userPoint EXCEPT ![u] = PointOf(new)]

\* balanceOf at a time that is not past.
BalanceOf(u, t) == NotNegative(userPoint[u].bias - userPoint[u].slope * (t - userPoint[u].ts))

TotalSupply(t) == NotNegative(Line(lastPoint, t).bias)

-----------------------------------------------------------------------------
Init ==
    /\ now = 1
    /\ locked = [u \in Users |-> NoLock]
    /\ supply = 0
    /\ slopeChanges = [t \in Times |-> 0]
    /\ lastPoint = [NoPoint EXCEPT !.ts = now]
    /\ checkpointed = FALSE
    /\ userPoint = [u \in Users |-> NoPoint]
    /\ isShutdown = FALSE
    /\ tokens = [a \in Users \cup {Escrow} |-> IF a = Escrow THEN 0 ELSE Funds]

DepositFor(u, value, end) ==
    LET new == [amount |-> locked[u].amount + value, end |-> end]
    IN  /\ value <= tokens[u]
        /\ supply' = supply + value
        /\ locked' = [locked EXCEPT ![u] = new]
        /\ UserCheckpoint(u, locked[u], new)
        /\ tokens' = [tokens EXCEPT ![u] = @ - value, ![Escrow] = @ + value]
        /\ UNCHANGED <<now, isShutdown>>

CreateLock(u, value, time) ==
    /\ ~isShutdown
    /\ locked[u].amount = 0
    /\ WeekStart(time) > now
    /\ WeekStart(time) <= now + MAXTIME
    /\ DepositFor(u, value, WeekStart(time))

\* increase_amount, and deposit_for, which anyone may call for the user.
IncreaseAmount(u, value) ==
    /\ ~isShutdown
    /\ locked[u].amount > 0
    /\ locked[u].end > now
    /\ DepositFor(u, value, locked[u].end)

IncreaseUnlockTime(u, time) ==
    /\ ~isShutdown
    /\ locked[u].end > now
    /\ locked[u].amount > 0
    /\ WeekStart(time) > locked[u].end
    /\ WeekStart(time) <= now + MAXTIME
    /\ DepositFor(u, 0, WeekStart(time))

\* After the shutdown nothing is recorded: the power of what left stays.
Withdraw(u) ==
    /\ now >= locked[u].end \/ isShutdown
    /\ locked' = [locked EXCEPT ![u] = NoLock]
    /\ supply' = supply - locked[u].amount
    /\ IF isShutdown
       THEN UNCHANGED <<slopeChanges, lastPoint, checkpointed, userPoint>>
       ELSE UserCheckpoint(u, locked[u], NoLock)
    /\ tokens' = [tokens EXCEPT ![u] = @ + locked[u].amount, ![Escrow] = @ - locked[u].amount]
    /\ UNCHANGED <<now, isShutdown>>

Checkpoint ==
    /\ lastPoint' = [bias |-> NotNegative(CurrentPoint.bias),
                     slope |-> NotNegative(CurrentPoint.slope), ts |-> now]
    /\ checkpointed' = TRUE
    /\ UNCHANGED <<now, locked, supply, slopeChanges, userPoint, isShutdown, tokens>>

Shutdown ==
    /\ isShutdown' = TRUE
    /\ UNCHANGED <<now, locked, supply, slopeChanges, lastPoint, checkpointed, userPoint, tokens>>

Tick ==
    /\ now < MaxTime
    /\ now' = now + 1
    /\ UNCHANGED <<locked, supply, slopeChanges, lastPoint, checkpointed, userPoint, isShutdown, tokens>>

Next ==
    \/ \E u \in Users :
        \/ \E value \in Deposits :
               \/ \E time \in Times : CreateLock(u, value, time)
               \/ IncreaseAmount(u, value)
        \/ \E time \in Times : IncreaseUnlockTime(u, time)
        \/ Withdraw(u)
    \/ Checkpoint
    \/ Shutdown
    \/ Tick

Spec == Init /\ [][Next]_vars

-----------------------------------------------------------------------------
\* The values the variables take, and what ties them: the escrow holds the locked tokens
\* and nobody has less than none, locks end with a week, and no slope turns upwards.
TypeOK ==
    /\ now \in 0..MaxTime
    /\ supply = Total([u \in Users |-> locked[u].amount], Users)
    /\ tokens[Escrow] = supply
    /\ \A a \in Users \cup {Escrow} : tokens[a] >= 0
    /\ \A u \in Users :
           /\ locked[u].end % WEEK = 0 /\ locked[u].end <= now + MAXTIME
           /\ userPoint[u].bias \in Nat /\ userPoint[u].slope \in Nat
    /\ lastPoint.bias \in Nat /\ lastPoint.slope \in Nat /\ lastPoint.ts \in 0..now
    /\ \A t \in lastPoint.ts .. MaxTime + MAXTIME : Line(lastPoint, t).slope >= 0
    /\ \A t \in Times : slopeChanges[t] <= 0
    /\ isShutdown \in BOOLEAN /\ checkpointed \in BOOLEAN

\* The total voting power is the sum of the users' powers, now and at every later time
\* asked for: scheduled slope changes, late checkpoints and rounding never part the one
\* line from the many, not even when tokens leave after the shutdown.
TotalIsSum ==
    \A t \in now .. MaxTime + MAXTIME :
        TotalSupply(t) = Total([u \in Users |-> BalanceOf(u, t)], Users)

\* Until the shutdown a user's power is that of the lock it has, however it came about
\* by deposits and extensions, and none without a lock.
PowerMatchesLock ==
    ~isShutdown => \A u \in Users :
        BalanceOf(u, now) = (locked[u].amount \div MAXTIME) * Max({locked[u].end - now, 0})

\* Nothing but a change of a user's own lock changes its power at a later time, and the
\* total changes with some lock only: neither checkpoints nor the passing of weeks move
\* them.  After the shutdown no power is gained at any time.
LocksMovePower ==
    \A t \in now' .. MaxTime + MAXTIME :
        /\ \A u \in Users : locked'[u] = locked[u] => BalanceOf(u, t)' = BalanceOf(u, t)
        /\ locked' = locked => TotalSupply(t)' = TotalSupply(t)
        /\ isShutdown => TotalSupply(t)' <= TotalSupply(t)

PowerFollowsLocks == [][LocksMovePower]_vars
=============================================================================
