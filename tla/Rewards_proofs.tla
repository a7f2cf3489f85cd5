---------------------------- MODULE Rewards_proofs ----------------------------
(***************************************************************************)
(* Proofs about contracts/rewards: the escrow of locked tokens, and the    *)
(* distributor with the token it pays in.                                  *)
(*                                                                         *)
(* The escrow, for any users, deposits and lengths of weeks and locks: the *)
(* one line it keeps is the sum of the users' lines at every time to come. *)
(*                                                                         *)
(* The distributor, for any accounts, supply, lock ends and signers:       *)
(* balances and locks keep their types, what is locked stays within the    *)
(* balance while a lock period lasts, and claims are paid once for each    *)
(* nonce, in order.  The token's invariant Backed is inductive: a          *)
(* transfer or a lock looks at what is not locked, time can only end a     *)
(* period, and a period that begins anew over old locks is what            *)
(* `restarted' remembers.  Every action of the distributor is a transfer   *)
(* or leaves the token alone.                                              *)
(***************************************************************************)
EXTENDS VotingEscrow, RewardDistributor, Sums_proofs

-----------------------------------------------------------------------------
\* The escrow.

\* What the locks contribute at a time, each with the slope of its user's point and the
\* end it had when that point was made: to the total slope, to the total power, and to
\* the change of slope at that time.
Slopes(ends, t) == [u \in Users |-> IF ends[u] > t THEN userPoint[u].slope ELSE 0]
Powers(ends, t) ==
    [u \in Users |-> IF ends[u] > t THEN userPoint[u].slope * (ends[u] - t) ELSE 0]
Endings(ends, t) == [u \in Users |-> IF ends[u] = t THEN userPoint[u].slope ELSE 0]

EscrowTypes ==
    /\ now \in 0..MaxTime
    /\ locked \in [Users -> [amount : Nat, end : Times]]
    /\ slopeChanges \in [Times -> Int] /\ \A t \in Times : slopeChanges[t] <= 0
    /\ userPoint \in [Users -> [bias : Nat, slope : Nat, ts : 0..now]]
    /\ lastPoint \in [bias : Nat, slope : Nat, ts : 0..now]
    /\ isShutdown \in BOOLEAN /\ checkpointed \in BOOLEAN
    /\ \A u \in Users :
           /\ locked[u].amount = 0 => locked[u].end = 0
           /\ locked[u].end % WEEK = 0 /\ locked[u].end <= now + MAXTIME

\* The users' points are lines that reach zero at their ends.
PointsEnd(ends) ==
    /\ ends \in [Users -> Times]
    /\ \A u \in Users :
           /\ userPoint[u].bias = userPoint[u].slope * (ends[u] - userPoint[u].ts)
           /\ userPoint[u].slope > 0 => ends[u] % WEEK = 0
           /\ ~checkpointed => userPoint[u].slope = 0
           /\ ~isShutdown => /\ ends[u] = locked[u].end
                             /\ userPoint[u].slope = locked[u].amount \div MAXTIME

\* The last point and the changes scheduled after it are theirs.
LineAddsUp(ends) ==
    /\ lastPoint.slope = Total(Slopes(ends, lastPoint.ts), Users)
    /\ lastPoint.bias = Total(Powers(ends, lastPoint.ts), Users)
    /\ \A t \in Times : t > lastPoint.ts => slopeChanges[t] = -Total(Endings(ends, t), Users)

EscrowInv == EscrowTypes /\ \E ends : PointsEnd(ends) /\ LineAddsUp(ends)

-----------------------------------------------------------------------------
\* Max of two numbers.
LEMMA MaxOfTwo ==
    ASSUME NEW m \in Int, NEW n \in Int
    PROVE  Max({m, n}) = IF m >= n THEN m ELSE n
<1>1. Max({m, n}) \in {m, n} /\ \A y \in {m, n} : Max({m, n}) >= y
    BY DEF Max
<1> QED
    BY <1>1

\* NotNegative clips at zero.
LEMMA NotNegativeIs ==
    ASSUME NEW n \in Int
    PROVE  NotNegative(n) = IF n >= 0 THEN n ELSE 0
BY MaxOfTwo DEF NotNegative

\* What a user contributes are naturals.
LEMMA ContributionTypes ==
    ASSUME EscrowTypes, NEW ends, PointsEnd(ends), NEW t \in Int
    PROVE  \A u \in Users :
               /\ Slopes(ends, t)[u] \in Nat
               /\ Powers(ends, t)[u] \in Nat
               /\ Endings(ends, t)[u] \in Nat
<1> SUFFICES ASSUME NEW u \in Users
             PROVE  /\ Slopes(ends, t)[u] \in Nat
                    /\ Powers(ends, t)[u] \in Nat
                    /\ Endings(ends, t)[u] \in Nat
    OBVIOUS
<1>1. ends[u] \in Int /\ userPoint[u].slope \in Nat
    BY EscrowAssumption DEF EscrowTypes, PointsEnd, Times
<1>2. ends[u] > t => userPoint[u].slope * (ends[u] - t) \in Nat
    <2>1. \A a, b \in Nat : a * b \in Nat
        OBVIOUS
    <2> QED
        BY <1>1, <2>1
<1> QED
    BY <1>1, <1>2 DEF Slopes, Powers, Endings

\* One time unit later: the power has fallen by the slope, and the slope by the locks
\* that end.
LEMMA OneLater ==
    ASSUME EscrowTypes, NEW ends, PointsEnd(ends), NEW t \in Int
    PROVE  /\ Total(Powers(ends, t), Users)
                  = Total(Powers(ends, t + 1), Users) + Total(Slopes(ends, t), Users)
           /\ Total(Slopes(ends, t), Users)
                  = Total(Slopes(ends, t + 1), Users) + Total(Endings(ends, t + 1), Users)
<1>1. IsFiniteSet(Users)
    BY EscrowAssumption
<1>2. \A u \in Users :
          /\ ends[u] \in Int /\ userPoint[u].slope \in Nat
          /\ Powers(ends, t + 1)[u] \in Int /\ Slopes(ends, t)[u] \in Int
          /\ Slopes(ends, t + 1)[u] \in Int /\ Endings(ends, t + 1)[u] \in Int
    <2>1. t + 1 \in Int
        OBVIOUS
    <2>2. \A u \in Users : ends[u] \in Int /\ userPoint[u].slope \in Nat
        BY EscrowAssumption DEF EscrowTypes, PointsEnd, Times
    <2>3. \A u \in Users : Slopes(ends, t)[u] \in Nat
        BY ContributionTypes
    <2>4. \A u \in Users : /\ Slopes(ends, t + 1)[u] \in Nat /\ Powers(ends, t + 1)[u] \in Nat
                            /\ Endings(ends, t + 1)[u] \in Nat
        BY <2>1, ContributionTypes
    <2> QED
        BY <2>2, <2>3, <2>4
<1>3. ASSUME NEW u \in Users
      PROVE  Powers(ends, t)[u] = Powers(ends, t + 1)[u] + Slopes(ends, t)[u]
    <2>1. \A e, s, n \in Int : s * (e - n) = s * (e - (n + 1)) + s
        OBVIOUS
    <2>2. userPoint[u].slope * (ends[u] - t) = userPoint[u].slope * (ends[u] - (t + 1)) + userPoint[u].slope
        BY <1>2, <2>1, SMTT(60)
    <2>3. userPoint[u].slope * 0 = 0 /\ userPoint[u].slope * (ends[u] - (t + 1)) \in Int
        BY <1>2
    <2> QED
        BY <1>2, <2>2, <2>3 DEF Powers, Slopes
<1>4. \A u \in Users : Slopes(ends, t)[u] = Slopes(ends, t + 1)[u] + Endings(ends, t + 1)[u]
    BY <1>2 DEF Slopes, Endings
<1>5. Total(Powers(ends, t), Users)
          = Total(Powers(ends, t + 1), Users) + Total(Slopes(ends, t), Users)
    <2> DEFINE h == Powers(ends, t)
               f == Powers(ends, t + 1)
               g == Slopes(ends, t)
    <2>1. \A u \in Users : f[u] \in Int /\ g[u] \in Int /\ h[u] = f[u] + g[u]
        BY <1>2, <1>3
    <2>2. Total(h, Users) = Total(f, Users) + Total(g, Users)
        <3> HIDE DEF f, g, h
        <3> QED
            BY <1>1, <2>1, TotalAdds
    <2> QED
        BY <2>2
<1>6. Total(Slopes(ends, t), Users)
          = Total(Slopes(ends, t + 1), Users) + Total(Endings(ends, t + 1), Users)
    <2> DEFINE h == Slopes(ends, t)
               f == Slopes(ends, t + 1)
               g == Endings(ends, t + 1)
    <2>1. \A u \in Users : f[u] \in Int /\ g[u] \in Int /\ h[u] = f[u] + g[u]
        BY <1>2, <1>4
    <2>2. Total(h, Users) = Total(f, Users) + Total(g, Users)
        <3> HIDE DEF f, g, h
        <3> QED
            BY <1>1, <2>1, TotalAdds
    <2> QED
        BY <2>2
<1> QED
    BY <1>5, <1>6

\* The totals are naturals.
LEMMA TotalTypes ==
    ASSUME EscrowTypes, NEW ends, PointsEnd(ends), NEW t \in Int
    PROVE  /\ Total(Slopes(ends, t), Users) \in Nat
           /\ Total(Powers(ends, t), Users) \in Nat
           /\ Total(Endings(ends, t), Users) \in Nat
<1>1. IsFiniteSet(Users)
    BY EscrowAssumption
<1> QED
    BY <1>1, ContributionTypes, TotalOfNaturals

-----------------------------------------------------------------------------
\* The weeks passed up to a time are those passed before it, and that time if it is the
\* start of a week.
LEMMA WeeksOneLater ==
    ASSUME NEW from \in Nat, NEW to \in Nat, from <= to
    PROVE  /\ WeeksPassed(from, to + 1)
                  = IF (to + 1) % WEEK = 0 THEN WeeksPassed(from, to) \cup {to + 1}
                                           ELSE WeeksPassed(from, to)
           /\ to + 1 \notin WeeksPassed(from, to)
           /\ IsFiniteSet(WeeksPassed(from, to + 1))
           /\ IsFiniteSet(WeeksPassed(from, to))
<1>1. from + 1 .. to + 1 = (from + 1 .. to) \cup {to + 1}
    OBVIOUS
<1>2. \A n \in Nat : IsFiniteSet(from + 1 .. n)
    BY FS_Interval
<1> QED
    BY <1>1, <1>2, FS_Subset DEF WeeksPassed

\* The two parts of a line.
LEMMA LineIs ==
    ASSUME NEW point, NEW to
    PROVE  /\ Line(point, to).bias
                  = point.bias - point.slope * (to - point.ts)
                      - Total([w \in WeeksPassed(point.ts, to) |-> slopeChanges[w] * (to - w)],
                              WeeksPassed(point.ts, to))
           /\ Line(point, to).slope
                  = point.slope + Total(slopeChanges, WeeksPassed(point.ts, to))
           /\ Line(point, to).ts = to
BY DEF Line

\* One time unit later the line is lower by its slope, and changes its slope if a week
\* begins.
LEMMA LineOneLater ==
    ASSUME EscrowTypes, NEW t \in Nat, lastPoint.ts <= t, t + 1 \in Times,
           Line(lastPoint, t).bias \in Int, Line(lastPoint, t).slope \in Int
    PROVE  /\ Line(lastPoint, t + 1).bias = Line(lastPoint, t).bias - Line(lastPoint, t).slope
           /\ Line(lastPoint, t + 1).slope
                  = Line(lastPoint, t).slope + IF (t + 1) % WEEK = 0 THEN slopeChanges[t + 1] ELSE 0
<1> DEFINE from == lastPoint.ts
           to == t + 1
           W == WeeksPassed(from, t)
           V == WeeksPassed(from, to)
           f == [w \in W |-> slopeChanges[w] * (t - w)]
           g == [w \in V |-> slopeChanges[w] * (to - w)]
<1>1. from \in Nat /\ lastPoint.slope \in Int /\ lastPoint.bias \in Int
    BY DEF EscrowTypes
<1>2. /\ V = IF (t + 1) % WEEK = 0 THEN W \cup {t + 1} ELSE W
      /\ t + 1 \notin W /\ IsFiniteSet(W) /\ IsFiniteSet(V)
    BY <1>1, WeeksOneLater
<1>3. \A w \in V : w \in Times /\ w \in Int /\ slopeChanges[w] \in Int
    <2>1. \A w \in V : w \in Int /\ 0 <= w /\ w <= t + 1
        BY <1>1 DEF WeeksPassed
    <2>2. MaxTime + MAXTIME \in Int
        BY EscrowAssumption
    <2>3. \A w \in V : w \in Times
        BY <2>1, <2>2 DEF Times
    <2> QED
        BY <2>1, <2>3 DEF EscrowTypes
<1>4. W \subseteq V
    BY <1>2
<1>5. Total(slopeChanges, V)
          = Total(slopeChanges, W) + IF (t + 1) % WEEK = 0 THEN slopeChanges[t + 1] ELSE 0
    <2>1. CASE (t + 1) % WEEK = 0
        <3>1. V \ {t + 1} = W /\ t + 1 \in V
            BY <1>2, <2>1
        <3>2. Total(slopeChanges, V) = slopeChanges[t + 1] + Total(slopeChanges, V \ {t + 1})
            BY <1>2, <1>3, <3>1, TotalSplits
        <3>3. Total(slopeChanges, W) \in Int
            BY <1>2, <1>3, <1>4, TotalType
        <3>4. slopeChanges[t + 1] \in Int
            BY <1>3, <3>1
        <3>5. Total(slopeChanges, V) = Total(slopeChanges, W) + slopeChanges[t + 1]
            <4>1. Total(slopeChanges, V \ {t + 1}) = Total(slopeChanges, W)
                BY <3>1, Zenon
            <4> HIDE DEF V, W
            <4> QED
                BY <3>2, <3>3, <3>4, <4>1
        <3> QED
            BY <2>1, <3>5
    <2>2. CASE (t + 1) % WEEK # 0
        <3>1. Total(slopeChanges, W) \in Int
            BY <1>2, <1>3, <1>4, TotalType
        <3> QED
            BY <1>2, <2>2, <3>1
    <2> QED
        BY <2>1, <2>2
<1>6. \A w \in W : f[w] \in Int
    BY <1>3, <1>4
<1>7. \A w \in V : g[w] \in Int
    BY <1>3
<1>8. \A w \in W : g[w] = f[w] + slopeChanges[w]
    <2>1. \A a, b \in Int : a * (b + 1) = a * b + a
        OBVIOUS
    <2> SUFFICES ASSUME NEW w \in W PROVE g[w] = f[w] + slopeChanges[w]
        OBVIOUS
    <2>2. to - w = (t - w) + 1 /\ t - w \in Int /\ slopeChanges[w] \in Int
        BY <1>3, <1>4
    <2>3. g[w] = slopeChanges[w] * (to - w) /\ f[w] = slopeChanges[w] * (t - w)
        <3> HIDE DEF V, W
        <3> QED
            BY <1>4
    <2> HIDE DEF f, g, V, W, to
    <2>4. g[w] = slopeChanges[w] * ((t - w) + 1)
        BY <2>2, <2>3, Zenon
    <2> QED
        BY <2>1, <2>2, <2>3, <2>4
<1>9. Total(g, W) = Total(f, W) + Total(slopeChanges, W)
    <2>1. \A w \in W : slopeChanges[w] \in Int
        BY <1>3, <1>4
    <2> HIDE DEF f, g, W, V
    <2> QED
        BY <1>2, <1>6, <1>8, <2>1, TotalAdds
<1>10. Total(g, V) = Total(g, W)
    <2>1. CASE (t + 1) % WEEK = 0
        <3>1. V \ {t + 1} = W /\ t + 1 \in V
            BY <1>2, <2>1
        <3>2. g[t + 1] = 0
            BY <1>3, <3>1
        <3>3. Total(g, W) \in Int
            <4> HIDE DEF f, g, W, V
            <4> QED
                BY <1>2, <1>4, <1>7, TotalType
        <3>4. Total(g, V) = g[t + 1] + Total(g, V \ {t + 1})
            <4> HIDE DEF f, g, W, V
            <4> QED
                BY <1>2, <1>7, <3>1, TotalSplits
        <3> HIDE DEF f, g, W, V
        <3> QED
            BY <3>1, <3>2, <3>3, <3>4
    <2>2. CASE (t + 1) % WEEK # 0
        BY <1>2, <2>2
    <2> QED
        BY <2>1, <2>2
<1>11. Total(f, W) \in Int /\ Total(slopeChanges, W) \in Int
    <2>1. \A w \in W : slopeChanges[w] \in Int
        BY <1>3, <1>4
    <2> HIDE DEF f, g, W, V
    <2> QED
        BY <1>2, <1>6, <2>1, TotalType
<1>12. /\ Line(lastPoint, t).bias = lastPoint.bias - lastPoint.slope * (t - from) - Total(f, W)
       /\ Line(lastPoint, t).slope = lastPoint.slope + Total(slopeChanges, W)
    BY LineIs
<1>13. /\ Line(lastPoint, to).bias
              = lastPoint.bias - lastPoint.slope * (to - from) - Total(g, V)
       /\ Line(lastPoint, to).slope = lastPoint.slope + Total(slopeChanges, V)
    <2> HIDE DEF to
    <2> QED
        BY LineIs
<1>14. /\ lastPoint.slope * (t + 1 - from) = lastPoint.slope * (t - from) + lastPoint.slope
       /\ lastPoint.slope * (t - from) \in Int
    <2>1. \A a, b \in Int : a * (b + 1) = a * b + a /\ a * b \in Int
        OBVIOUS
    <2>2. t + 1 - from = (t - from) + 1 /\ t - from \in Int
        BY <1>1
    <2> HIDE DEF from
    <2> QED
        BY <1>1, <2>1, <2>2
<1>15. IF (t + 1) % WEEK = 0 THEN slopeChanges[t + 1] \in Int ELSE TRUE
    BY <1>2, <1>3
<1> HIDE DEF f, g, W, V, from
<1> QED
    BY <1>1, <1>5, <1>9, <1>10, <1>11, <1>12, <1>13, <1>14, <1>15

\* Brought up to any time to come, the last point is the sum of what the locks contribute
\* then.
LEMMA LineIsSum ==
    ASSUME EscrowTypes, NEW ends, PointsEnd(ends), LineAddsUp(ends)
    PROVE  \A t \in Times : lastPoint.ts <= t =>
               /\ Line(lastPoint, t).bias = Total(Powers(ends, t), Users)
               /\ Line(lastPoint, t).slope = Total(Slopes(ends, t), Users)
<1> DEFINE from == lastPoint.ts
           Sum(t) == /\ Line(lastPoint, t).bias = Total(Powers(ends, t), Users)
                     /\ Line(lastPoint, t).slope = Total(Slopes(ends, t), Users)
           G == {n \in Nat : from + n \in Times => Sum(from + n)}
<1>1. from \in Nat /\ lastPoint.slope \in Int /\ lastPoint.bias \in Int
    BY DEF EscrowTypes
<1>2. Sum(from)
    <2> DEFINE f == [w \in WeeksPassed(from, from) |-> slopeChanges[w] * (from - w)]
    <2>1. WeeksPassed(from, from) = {}
        BY <1>1 DEF WeeksPassed
    <2>2. /\ Line(lastPoint, from).bias
                 = lastPoint.bias - lastPoint.slope * (from - from)
                     - Total(f, WeeksPassed(from, from))
          /\ Line(lastPoint, from).slope
                 = lastPoint.slope + Total(slopeChanges, WeeksPassed(from, from))
        BY LineIs
    <2> HIDE DEF f
    <2>3. Total(f, WeeksPassed(from, from)) = 0 /\ Total(slopeChanges, WeeksPassed(from, from)) = 0
        BY <2>1, TotalOfNone, Zenon
    <2>4. lastPoint.slope * (from - from) = 0
        BY <1>1
    <2>5. Line(lastPoint, from).bias = lastPoint.bias /\ Line(lastPoint, from).slope = lastPoint.slope
        BY <1>1, <2>2, <2>3, <2>4
    <2> QED
        BY <2>5 DEF LineAddsUp
<1>3. 0 \in G
    <2>1. from + 0 = from
        BY <1>1
    <2> HIDE DEF Sum, from
    <2> QED
        BY <1>2, <2>1
<1>4. ASSUME NEW t \in Nat, from <= t, t + 1 \in Times, Sum(t)
      PROVE  Sum(t + 1)
    <2> DEFINE P(i) == Total(Powers(ends, i), Users)
               S(i) == Total(Slopes(ends, i), Users)
               E(i) == Total(Endings(ends, i), Users)
               to == t + 1
    <2>1. t \in Int /\ to \in Int
        OBVIOUS
    <2>2. P(t) \in Nat /\ S(t) \in Nat /\ P(to) \in Nat /\ S(to) \in Nat /\ E(to) \in Nat
        BY <2>1, TotalTypes
    <2>3. P(t) = P(to) + S(t) /\ S(t) = S(to) + E(to)
        BY <2>1, OneLater
    <2>4. Line(lastPoint, t).bias = P(t) /\ Line(lastPoint, t).slope = S(t)
        BY <1>4
    <2>5. /\ Line(lastPoint, to).bias = Line(lastPoint, t).bias - Line(lastPoint, t).slope
          /\ Line(lastPoint, to).slope
                 = Line(lastPoint, t).slope + IF to % WEEK = 0 THEN slopeChanges[to] ELSE 0
        <3>1. Line(lastPoint, t).bias \in Int /\ Line(lastPoint, t).slope \in Int
            BY <2>2, <2>4
        <3> QED
            BY <1>4, <3>1, LineOneLater
    <2>6. slopeChanges[to] = -E(to)
        <3>1. to \in Times /\ to > lastPoint.ts
            BY <1>1, <1>4
        <3> QED
            BY <3>1 DEF LineAddsUp
    <2> SUFFICES Line(lastPoint, to).bias = P(to) /\ Line(lastPoint, to).slope = S(to)
        OBVIOUS
    <2>7. CASE to % WEEK = 0
        <3> HIDE DEF P, S, E, to
        <3> QED
            BY <2>2, <2>3, <2>4, <2>5, <2>6, <2>7
    <2>8. CASE to % WEEK # 0
        <3>1. \A u \in Users : Endings(ends, to)[u] = 0
            <4> HIDE DEF to
            <4> SUFFICES ASSUME NEW u \in Users, ends[u] = to PROVE userPoint[u].slope = 0
                BY DEF Endings
            <4>1. userPoint[u].slope \in Nat /\ ~(userPoint[u].slope > 0)
                BY <2>8 DEF EscrowTypes, PointsEnd
            <4> QED
                BY <4>1
        <3>2. IsFiniteSet(Users)
            BY EscrowAssumption
        <3>3. E(to) = 0
            <4> HIDE DEF to
            <4> QED
                BY <3>1, <3>2, TotalOfZeros
        <3> HIDE DEF P, S, E, to
        <3> QED
            BY <2>2, <2>3, <2>4, <2>5, <2>8, <3>3
    <2> QED
        BY <2>7, <2>8
<1>5. ASSUME NEW n \in Nat, n \in G PROVE n + 1 \in G
    <2> SUFFICES ASSUME from + (n + 1) \in Times PROVE Sum(from + (n + 1))
        OBVIOUS
    <2> DEFINE t == from + n
    <2>1. t \in Nat /\ from <= t /\ from + (n + 1) = t + 1
        BY <1>1
    <2>2. t + 1 \in Times
        BY <2>1
    <2>3. t \in Times
        <3>1. MaxTime + MAXTIME \in Int
            BY EscrowAssumption
        <3> HIDE DEF t
        <3> QED
            BY <2>1, <2>2, <3>1 DEF Times
    <2>4. Sum(t)
        <3> HIDE DEF Sum
        <3> QED
            BY <1>5, <2>3
    <2>5. Sum(t + 1)
        <3> HIDE DEF Sum, t, from
        <3> QED
            BY <1>4, <2>1, <2>2, <2>4
    <2> HIDE DEF Sum, t, from
    <2> QED
        BY <2>1, <2>5
<1>6. Nat \subseteq G
    <2> HIDE DEF G
    <2> QED
        BY <1>3, <1>5, NaturalInduction
<1> SUFFICES ASSUME NEW t \in Times, from <= t PROVE Sum(t)
    OBVIOUS
<1>7. t - from \in Nat /\ from + (t - from) = t
    <2>1. t \in Int
        BY DEF Times
    <2> QED
        BY <1>1, <2>1
<1> HIDE DEF Sum, from
<1> QED
    BY <1>6, <1>7

\* What the views and _checkpoint start from is the sum at the current time.
LEMMA CurrentIsSum ==
    ASSUME EscrowTypes, NEW ends, PointsEnd(ends), LineAddsUp(ends)
    PROVE  /\ now \in Times /\ lastPoint.ts <= now
           /\ CurrentPoint.bias = Total(Powers(ends, now), Users)
           /\ CurrentPoint.slope = Total(Slopes(ends, now), Users)
<1>1. now \in Times /\ lastPoint.ts <= now /\ now \in Int
    BY EscrowAssumption DEF EscrowTypes, Times
<1>2. CASE checkpointed
    <2>1. CurrentPoint = Line(lastPoint, now)
        BY <1>2 DEF CurrentPoint
    <2> QED
        BY <1>1, <2>1, LineIsSum
<1>3. CASE ~checkpointed
    <2>1. CurrentPoint.bias = 0 /\ CurrentPoint.slope = 0
        BY <1>3 DEF CurrentPoint, NoPoint
    <2>2. \A u \in Users : userPoint[u].slope = 0
        BY <1>3 DEF PointsEnd
    <2>3. \A u \in Users : ends[u] \in Int
        BY DEF PointsEnd, Times
    <2>4. \A u \in Users : Powers(ends, now)[u] = 0 /\ Slopes(ends, now)[u] = 0
        <3>1. \A n \in Int : 0 * n = 0
            OBVIOUS
        <3>2. \A u \in Users : ends[u] - now \in Int
            BY <1>1, <2>3
        <3> QED
            BY <2>2, <3>1, <3>2 DEF Powers, Slopes
    <2>5. IsFiniteSet(Users)
        BY EscrowAssumption
    <2>6. Total(Powers(ends, now), Users) = 0 /\ Total(Slopes(ends, now), Users) = 0
        BY <2>4, <2>5, TotalOfZeros
    <2> QED
        BY <1>1, <2>1, <2>6
<1> QED
    BY <1>1, <1>2, <1>3

\* A user's balance at a time is what its lock contributes then.
LEMMA BalanceIsPower ==
    ASSUME EscrowTypes, NEW ends, PointsEnd(ends), NEW u \in Users, NEW t \in Int
    PROVE  BalanceOf(u, t) = Powers(ends, t)[u]
<1> DEFINE slope == userPoint[u].slope
           ts == userPoint[u].ts
           end == ends[u]
<1>1. slope \in Nat /\ ts \in Int /\ end \in Int
    BY DEF EscrowTypes, PointsEnd, Times
<1>2. userPoint[u].bias = slope * (end - ts)
    BY DEF PointsEnd
<1>3. slope * (end - ts) - slope * (t - ts) = slope * (end - t) /\ slope * (end - t) \in Int
    <2>1. \A s, a, b, c \in Int : s * (a - b) - s * (c - b) = s * (a - c) /\ s * (a - c) \in Int
        OBVIOUS
    <2> HIDE DEF slope, ts, end
    <2> QED
        BY <1>1, <2>1
<1>4. BalanceOf(u, t) = NotNegative(slope * (end - t))
    BY <1>2, <1>3 DEF BalanceOf
<1>5. Powers(ends, t)[u] = IF end > t THEN slope * (end - t) ELSE 0
    BY DEF Powers
<1>6. CASE end > t
    <2>1. slope * (end - t) >= 0
        <3>1. \A a, b \in Nat : a * b >= 0
            OBVIOUS
        <3>2. end - t \in Nat
            BY <1>1, <1>6
        <3> HIDE DEF slope, end
        <3> QED
            BY <1>1, <3>1, <3>2
    <2> HIDE DEF slope, end, ts
    <2> QED
        BY <1>3, <1>4, <1>5, <1>6, <2>1, NotNegativeIs
<1>7. CASE ~(end > t)
    <2>1. slope * (end - t) <= 0
        <3>1. \A a, b \in Nat : a * b >= 0 /\ a * (-b) = -(a * b)
            OBVIOUS
        <3>2. t - end \in Nat /\ end - t = -(t - end)
            BY <1>1, <1>7
        <3> HIDE DEF slope, end
        <3>3. slope * (-(t - end)) <= 0
            BY <1>1, <3>1, <3>2
        <3> QED
            BY <3>2, <3>3
    <2>2. NotNegative(slope * (end - t)) = 0
        <3> HIDE DEF slope, end
        <3> QED
            BY <1>3, <2>1, NotNegativeIs
    <2> QED
        BY <1>4, <1>5, <1>7, <2>2
<1> QED
    BY <1>6, <1>7

\* The total power is the sum of the balances.
LEMMA SupplyIsSum ==
    ASSUME EscrowTypes, NEW ends, PointsEnd(ends), LineAddsUp(ends)
    PROVE  TotalIsSum
<1> SUFFICES ASSUME NEW t \in now .. MaxTime + MAXTIME
             PROVE  TotalSupply(t) = Total([u \in Users |-> BalanceOf(u, t)], Users)
    BY DEF TotalIsSum
<1>1. t \in Times /\ lastPoint.ts <= t /\ t \in Int
    <2>1. now \in Nat /\ lastPoint.ts \in Int /\ lastPoint.ts <= now
        BY DEF EscrowTypes
    <2>2. MaxTime + MAXTIME \in Int
        BY EscrowAssumption
    <2> QED
        BY <2>1, <2>2 DEF Times
<1>2. Line(lastPoint, t).bias = Total(Powers(ends, t), Users)
    BY <1>1, LineIsSum
<1>3. Total(Powers(ends, t), Users) \in Nat
    BY <1>1, TotalTypes
<1>4. TotalSupply(t) = Total(Powers(ends, t), Users)
    BY <1>2, <1>3, NotNegativeIs DEF TotalSupply
<1>5. [u \in Users |-> BalanceOf(u, t)] = Powers(ends, t)
    <2>1. \A u \in Users : BalanceOf(u, t) = Powers(ends, t)[u]
        BY <1>1, BalanceIsPower
    <2> QED
        BY <2>1 DEF Powers
<1> QED
    BY <1>4, <1>5

-----------------------------------------------------------------------------
\* A point's slope and bias are what the lock contributes now, and naturals.
LEMMA PointTypes ==
    ASSUME now \in Int, NEW lock, lock.amount \in Nat, lock.end \in Int
    PROVE  /\ PointOf(lock).slope \in Nat /\ PointOf(lock).bias \in Nat
           /\ PointOf(lock).ts = now
           /\ PointOf(lock).bias = PointOf(lock).slope * (lock.end - now)
           /\ lock.end > now => PointOf(lock).slope = lock.amount \div MAXTIME
           /\ ~(lock.end > now) => PointOf(lock).slope = 0 /\ PointOf(lock).bias = 0
<1> DEFINE s == PointOf(lock).slope
<1>1. MAXTIME \in Nat \ {0}
    BY EscrowAssumption
<1>2. 0 \div MAXTIME = 0 /\ lock.amount \div MAXTIME \in Nat
    BY <1>1
<1>3. s = IF lock.end > now /\ lock.amount > 0 THEN lock.amount \div MAXTIME ELSE 0
    BY DEF PointOf
<1>4. PointOf(lock).bias = s * (lock.end - now) /\ PointOf(lock).ts = now
    BY DEF PointOf
<1>5. lock.end > now => s = lock.amount \div MAXTIME
    BY <1>2, <1>3
<1>6. s \in Nat
    BY <1>2, <1>3
<1>7. ~(lock.end > now) => s = 0 /\ s * (lock.end - now) = 0
    <2>1. \A n \in Int : 0 * n = 0
        OBVIOUS
    <2>2. lock.end - now \in Int
        OBVIOUS
    <2> QED
        BY <1>3, <2>1, <2>2
<1>8. s * (lock.end - now) \in Nat
    <2>1. CASE lock.end > now
        <3>1. lock.end - now \in Nat
            BY <2>1
        <3>2. \A a, b \in Nat : a * b \in Nat
            OBVIOUS
        <3> HIDE DEF s
        <3> QED
            BY <1>6, <3>1, <3>2
    <2> QED
        BY <1>7, <2>1
<1> QED
    BY <1>4, <1>5, <1>6, <1>7, <1>8

\* What replaces a lock: one that ends later than now and not before the old one, or,
\* once that has ended, none.
Replaces(old, new) ==
    /\ new \in [amount : Nat, end : Times]
    /\ new.end % WEEK = 0 /\ new.end <= now + MAXTIME
    /\ \/ new.amount > 0 /\ new.end > now /\ new.end >= old.end
       \/ new = NoLock /\ old.end <= now

\* _checkpoint keeps the line the sum of the locks when a lock is replaced.
LEMMA UserCheckpointAddsUp ==
    ASSUME EscrowTypes, NEW ends, PointsEnd(ends), LineAddsUp(ends),
           ~isShutdown, NEW u \in Users, NEW new, Replaces(locked[u], new),
           UserCheckpoint(u, locked[u], new), locked' = [locked EXCEPT ![u] = new],
           UNCHANGED <<now, isShutdown>>
    PROVE  EscrowInv'
<1> DEFINE old == locked[u]
           after == [ends EXCEPT ![u] = new.end]
           pOld == PointOf(old)
           pNew == PointOf(new)
<1>1. /\ now \in Nat /\ MaxTime \in Nat /\ MAXTIME \in Nat \ {0}
      /\ old.amount \in Nat /\ old.end \in Times /\ old.end \in Int
      /\ new.amount \in Nat /\ new.end \in Times /\ new.end \in Int
      /\ \A t \in Times : t \in Int
    BY EscrowAssumption, SMTT(60) DEF EscrowTypes, Replaces, Times
<1>2. /\ pOld.slope \in Nat /\ pOld.bias \in Nat /\ pOld.ts = now
      /\ pOld.bias = pOld.slope * (old.end - now)
      /\ old.end > now => pOld.slope = old.amount \div MAXTIME
      /\ ~(old.end > now) => pOld.slope = 0 /\ pOld.bias = 0
    BY <1>1, PointTypes
<1>3. /\ pNew.slope \in Nat /\ pNew.bias \in Nat /\ pNew.ts = now
      /\ pNew.bias = pNew.slope * (new.end - now)
      /\ new.end > now => pNew.slope = new.amount \div MAXTIME
      /\ ~(new.end > now) => pNew.slope = 0 /\ pNew.bias = 0
    BY <1>1, PointTypes
<1>4. ends[u] = old.end /\ userPoint[u].slope = old.amount \div MAXTIME
    BY DEF PointsEnd
<1>5. IsFiniteSet(Users)
    BY EscrowAssumption
<1>6. /\ after \in [Users -> Times] /\ after[u] = new.end
      /\ \A v \in Users \ {u} : after[v] = ends[v]
    BY <1>1 DEF PointsEnd
<1>7. /\ userPoint'[u] = pNew
      /\ \A v \in Users \ {u} : userPoint'[v] = userPoint[v]
      /\ userPoint' \in [Users -> [bias : Nat, slope : Nat, ts : 0..now]]
    <2>1. userPoint' = [userPoint EXCEPT ![u] = pNew]
        BY DEF UserCheckpoint
    <2>2. pNew \in [bias : Nat, slope : Nat, ts : 0..now]
        <3>1. pNew = [bias |-> pNew.bias, slope |-> pNew.slope, ts |-> pNew.ts]
            BY DEF PointOf
        <3> HIDE DEF pNew
        <3> QED
            BY <1>1, <1>3, <3>1
    <2> HIDE DEF pNew
    <2> QED
        BY <2>1, <2>2 DEF EscrowTypes
<1>8. /\ locked'[u] = new /\ \A v \in Users \ {u} : locked'[v] = locked[v]
      /\ locked' \in [Users -> [amount : Nat, end : Times]]
    BY DEF EscrowTypes, Replaces
<1> HIDE DEF pOld, pNew, after
<1>9. PointsEnd(after)'
    <2>1. checkpointed'
        BY DEF UserCheckpoint
    <2>2. ASSUME NEW v \in Users
          PROVE  /\ userPoint'[v].bias = userPoint'[v].slope * (after[v] - userPoint'[v].ts)
                 /\ userPoint'[v].slope > 0 => after[v] % WEEK = 0
                 /\ after[v] = locked'[v].end
                 /\ userPoint'[v].slope = locked'[v].amount \div MAXTIME
        <3>1. CASE v = u
            <4>1. pNew.slope = new.amount \div MAXTIME
                <5>1. CASE new.end > now
                    BY <1>3, <5>1
                <5>2. CASE ~(new.end > now)
                    <6>1. new.amount = 0
                        BY <5>2 DEF Replaces, NoLock
                    <6>2. 0 \div MAXTIME = 0
                        BY <1>1
                    <6> QED
                        BY <1>3, <5>2, <6>1, <6>2
                <5> QED
                    BY <5>1, <5>2
            <4>2. new.end % WEEK = 0
                BY DEF Replaces
            <4> QED
                BY <1>3, <1>6, <1>7, <1>8, <3>1, <4>1, <4>2
        <3>2. CASE v # u
            <4>1. v \in Users \ {u}
                BY <3>2
            <4>2. userPoint'[v] = userPoint[v] /\ after[v] = ends[v] /\ locked'[v] = locked[v]
                BY <1>6, <1>7, <1>8, <4>1
            <4> QED
                BY <4>2 DEF PointsEnd
        <3> QED
            BY <3>1, <3>2
    <2> QED
        BY <1>6, <2>1, <2>2 DEF PointsEnd
\* What the locks contribute after the step, and what has changed.
<1>10. ASSUME NEW t \in Times, now <= t
       PROVE  /\ \A v \in Users \ {u} :
                     /\ Slopes(after, t)'[v] = Slopes(ends, t)[v]
                     /\ Powers(after, t)'[v] = Powers(ends, t)[v]
                     /\ Endings(after, t)'[v] = Endings(ends, t)[v]
              /\ Slopes(after, t)'[u] = IF new.end > t THEN pNew.slope ELSE 0
              /\ Powers(after, t)'[u] = IF new.end > t THEN pNew.slope * (new.end - t) ELSE 0
              /\ Endings(after, t)'[u] = IF new.end = t THEN pNew.slope ELSE 0
              /\ Slopes(ends, t)[u] = IF old.end > t THEN pOld.slope ELSE 0
              /\ Powers(ends, t)[u] = IF old.end > t THEN pOld.slope * (old.end - t) ELSE 0
              /\ t > now => Endings(ends, t)[u] = IF old.end = t THEN pOld.slope ELSE 0
    <2>1. \A v \in Users : /\ Slopes(after, t)'[v] = IF after[v] > t THEN userPoint'[v].slope ELSE 0
                           /\ Powers(after, t)'[v] = IF after[v] > t THEN userPoint'[v].slope * (after[v] - t) ELSE 0
                           /\ Endings(after, t)'[v] = IF after[v] = t THEN userPoint'[v].slope ELSE 0
        BY DEF Slopes, Powers, Endings
    <2>2. \A v \in Users : /\ Slopes(ends, t)[v] = IF ends[v] > t THEN userPoint[v].slope ELSE 0
                           /\ Powers(ends, t)[v] = IF ends[v] > t THEN userPoint[v].slope * (ends[v] - t) ELSE 0
                           /\ Endings(ends, t)[v] = IF ends[v] = t THEN userPoint[v].slope ELSE 0
        BY DEF Slopes, Powers, Endings
    <2>3. \A v \in Users \ {u} : after[v] = ends[v] /\ userPoint'[v] = userPoint[v]
        BY <1>6, <1>7
    <2>4. after[u] = new.end /\ userPoint'[u].slope = pNew.slope
        BY <1>6, <1>7
    <2>5. old.end > now => userPoint[u].slope = pOld.slope
        BY <1>2, <1>4
    <2>6. old.end > t => old.end > now
        BY <1>1, <1>10
    <2>7. t > now /\ old.end = t => old.end > now
        OBVIOUS
    <2> HIDE DEF old
    <2> QED
        BY <1>4, <2>1, <2>2, <2>3, <2>4, <2>5, <2>6, <2>7
<1>11. \A t \in Times : now <= t =>
           /\ \A v \in Users : /\ Slopes(after, t)'[v] \in Nat /\ Slopes(ends, t)[v] \in Nat
                               /\ Powers(after, t)'[v] \in Nat /\ Powers(ends, t)[v] \in Nat
                               /\ Endings(after, t)'[v] \in Nat /\ Endings(ends, t)[v] \in Nat
    <2> SUFFICES ASSUME NEW t \in Times, now <= t, NEW v \in Users
                 PROVE  /\ Slopes(after, t)'[v] \in Nat /\ Slopes(ends, t)[v] \in Nat
                        /\ Powers(after, t)'[v] \in Nat /\ Powers(ends, t)[v] \in Nat
                        /\ Endings(after, t)'[v] \in Nat /\ Endings(ends, t)[v] \in Nat
        OBVIOUS
    <2>1. /\ Slopes(ends, t)[v] \in Nat /\ Powers(ends, t)[v] \in Nat /\ Endings(ends, t)[v] \in Nat
        BY <1>1, ContributionTypes
    <2>2. CASE v # u
        BY <1>10, <2>1, <2>2
    <2>3. CASE v = u
        <3>1. new.end > t => pNew.slope * (new.end - t) \in Nat
            <4>1. \A a, b \in Nat : a * b \in Nat
                OBVIOUS
            <4>2. new.end > t => new.end - t \in Nat
                BY <1>1
            <4> QED
                BY <1>3, <4>1, <4>2
        <3> QED
            BY <1>3, <1>10, <2>1, <2>3, <3>1
    <2> QED
        BY <2>2, <2>3
\* So the totals change by what the user's lock contributes.
<1>12. ASSUME NEW t \in Times, now <= t
       PROVE  /\ Total(Slopes(after, t)', Users)
                     = Total(Slopes(ends, t), Users) + (Slopes(after, t)'[u] - Slopes(ends, t)[u])
              /\ Total(Powers(after, t)', Users)
                     = Total(Powers(ends, t), Users) + (Powers(after, t)'[u] - Powers(ends, t)[u])
              /\ Total(Endings(after, t)', Users)
                     = Total(Endings(ends, t), Users) + (Endings(after, t)'[u] - Endings(ends, t)[u])
    <2>1. ASSUME NEW f, NEW g, \A v \in Users : f[v] \in Nat /\ g[v] \in Nat,
                 \A v \in Users \ {u} : g[v] = f[v]
          PROVE  Total(g, Users) = Total(f, Users) + (g[u] - f[u])
        BY <1>5, <2>1, TotalChanges
    <2> QED
        BY <1>10, <1>11, <1>12, <2>1
<1>13. now \in Times /\ lastPoint.ts <= now
       /\ CurrentPoint.bias = Total(Powers(ends, now), Users)
       /\ CurrentPoint.slope = Total(Slopes(ends, now), Users)
    BY CurrentIsSum
<1>14. /\ Total(Slopes(ends, now), Users) \in Nat /\ Total(Powers(ends, now), Users) \in Nat
       /\ Total(Slopes(after, now)', Users) \in Nat /\ Total(Powers(after, now)', Users) \in Nat
    <2>1. ASSUME NEW f, \A v \in Users : f[v] \in Nat
          PROVE  Total(f, Users) \in Nat
        BY <1>5, <2>1, TotalOfNaturals
    <2> QED
        BY <1>1, <1>11, <1>13, <2>1
<1>15. /\ lastPoint'.slope = Total(Slopes(after, now)', Users)
       /\ lastPoint'.bias = Total(Powers(after, now)', Users)
       /\ lastPoint'.ts = now
       /\ lastPoint' \in [bias : Nat, slope : Nat, ts : 0..now]
    <2> DEFINE S == Total(Slopes(ends, now), Users)
               P == Total(Powers(ends, now), Users)
               S1 == Total(Slopes(after, now)', Users)
               P1 == Total(Powers(after, now)', Users)
               point == [bias |-> NotNegative(NotNegative(P) + pNew.bias - pOld.bias),
                         slope |-> NotNegative(NotNegative(S) + pNew.slope - pOld.slope),
                         ts |-> now]
    <2>1. lastPoint' = point
        BY <1>13 DEF UserCheckpoint, pOld, pNew
    <2>2. S1 = S + (pNew.slope - pOld.slope) /\ P1 = P + (pNew.bias - pOld.bias)
        <3>1. now <= now
            BY <1>1
        <3>2. Slopes(after, now)'[u] = pNew.slope /\ Slopes(ends, now)[u] = pOld.slope
            BY <1>2, <1>3, <1>10, <1>13, <3>1
        <3>3. Powers(after, now)'[u] = pNew.bias /\ Powers(ends, now)[u] = pOld.bias
            BY <1>2, <1>3, <1>10, <1>13, <3>1
        <3> QED
            BY <1>12, <1>13, <3>1, <3>2, <3>3
    <2>3. S \in Nat /\ P \in Nat /\ S1 \in Nat /\ P1 \in Nat
        BY <1>14
    <2> HIDE DEF S, P, S1, P1
    <2>4. NotNegative(S) = S /\ NotNegative(P) = P
        BY <2>3, NotNegativeIs
    <2>5. NotNegative(S + pNew.slope - pOld.slope) = S1 /\ NotNegative(P + pNew.bias - pOld.bias) = P1
        <3>1. S + pNew.slope - pOld.slope = S1 /\ P + pNew.bias - pOld.bias = P1
            BY <1>2, <1>3, <2>2, <2>3
        <3> QED
            BY <2>3, <3>1, NotNegativeIs
    <2>6. point = [bias |-> P1, slope |-> S1, ts |-> now]
        BY <2>4, <2>5
    <2>7. lastPoint'.slope = S1 /\ lastPoint'.bias = P1 /\ lastPoint'.ts = now
          /\ lastPoint' \in [bias : Nat, slope : Nat, ts : 0..now]
        BY <1>1, <2>1, <2>3, <2>6
    <2> QED
        BY <2>7 DEF S1, P1
<1>16. ASSUME NEW t \in Times
       PROVE  /\ t > now => slopeChanges'[t] = -Total(Endings(after, t)', Users)
              /\ slopeChanges'[t] \in Int /\ slopeChanges'[t] <= 0
    <2> DEFINE dOld == pOld.slope - (IF new.end = old.end THEN pNew.slope ELSE 0)
               dNew == IF new.end > old.end THEN 0 - pNew.slope ELSE 0
    <2>1. slopeChanges'[t] = IF t = old.end /\ t > now THEN slopeChanges[t] + dOld
                             ELSE IF t = new.end /\ t > now THEN slopeChanges[t] + dNew
                             ELSE slopeChanges[t]
        BY DEF UserCheckpoint, Rescheduled, pOld, pNew
    <2>2. CASE t > now
        <3>1. now <= t
            BY <1>1, <2>2
        <3>2. Total(Endings(after, t)', Users)
                  = Total(Endings(ends, t), Users) + (Endings(after, t)'[u] - Endings(ends, t)[u])
            BY <1>12, <3>1
        <3>3. /\ Endings(after, t)'[u] = IF new.end = t THEN pNew.slope ELSE 0
              /\ Endings(ends, t)[u] = IF old.end = t THEN pOld.slope ELSE 0
            BY <1>10, <2>2, <3>1
        <3>4. slopeChanges[t] = -Total(Endings(ends, t), Users)
            BY <1>1, <1>13, <2>2 DEF LineAddsUp, EscrowTypes
        <3>5. Total(Endings(ends, t), Users) \in Nat /\ Total(Endings(after, t)', Users) \in Nat
            <4>1. ASSUME NEW f, \A v \in Users : f[v] \in Nat
                  PROVE  Total(f, Users) \in Nat
                BY <1>5, <4>1, TotalOfNaturals
            <4> QED
                BY <1>11, <3>1, <4>1
        <3>6. new.end = t => new.end >= old.end
            BY <1>1, <2>2 DEF Replaces, NoLock
        <3> DEFINE e == Total(Endings(ends, t), Users)
                   e1 == Total(Endings(after, t)', Users)
        <3>7. e1 = e + ((IF new.end = t THEN pNew.slope ELSE 0) - (IF old.end = t THEN pOld.slope ELSE 0))
            BY <3>2, <3>3
        <3> HIDE DEF e, e1, old
        <3>8. slopeChanges'[t] = -e1
            <4>1. slopeChanges[t] = -e /\ e \in Nat /\ e1 \in Nat
                BY <3>4, <3>5 DEF e, e1
            <4>2. CASE t = old.end
                <5>1. slopeChanges'[t] = -e + dOld
                    BY <2>1, <2>2, <4>1, <4>2
                <5>2. dOld = pOld.slope - (IF new.end = t THEN pNew.slope ELSE 0)
                    BY <4>2
                <5>3. e1 = e + ((IF new.end = t THEN pNew.slope ELSE 0) - pOld.slope)
                    BY <3>7, <4>2
                <5> HIDE DEF dOld
                <5> QED
                    BY <1>2, <1>3, <4>1, <5>1, <5>2, <5>3
            <4>3. CASE t # old.end
                <5>1. slopeChanges'[t] = IF t = new.end THEN -e + dNew ELSE -e
                    BY <2>1, <2>2, <4>1, <4>3
                <5>2. t = new.end => dNew = 0 - pNew.slope
                    BY <1>1, <3>6, <4>3
                <5>3. e1 = e + (IF new.end = t THEN pNew.slope ELSE 0)
                    BY <1>2, <1>3, <3>7, <4>1, <4>3
                <5> HIDE DEF dNew
                <5> QED
                    BY <1>2, <1>3, <4>1, <5>1, <5>2, <5>3
            <4> QED
                BY <4>2, <4>3
        <3> QED
            BY <3>5, <3>8 DEF e1
    <2>3. CASE ~(t > now)
        BY <2>1, <2>3 DEF EscrowTypes
    <2> QED
        BY <2>2, <2>3
<1>17. LineAddsUp(after)'
    BY <1>15, <1>16 DEF LineAddsUp
<1>18. EscrowTypes'
    <2>1. checkpointed' \in BOOLEAN /\ isShutdown' \in BOOLEAN /\ now' = now
        BY DEF UserCheckpoint, EscrowTypes
    <2>2. slopeChanges' \in [Times -> Int]
        <3>1. slopeChanges' = [t \in Times |-> slopeChanges'[t]]
            BY DEF UserCheckpoint, Rescheduled
        <3> QED
            BY <1>16, <3>1
    <2>3. ASSUME NEW v \in Users
          PROVE  /\ locked'[v].amount = 0 => locked'[v].end = 0
                 /\ locked'[v].end % WEEK = 0 /\ locked'[v].end <= now + MAXTIME
        <3>1. CASE v = u
            BY <1>1, <1>8, <3>1 DEF Replaces, NoLock
        <3>2. CASE v # u
            BY <1>8, <3>2 DEF EscrowTypes
        <3> QED
            BY <3>1, <3>2
    <2> QED
        BY <1>7, <1>8, <1>15, <1>16, <2>1, <2>2, <2>3 DEF EscrowTypes
<1> QED
    BY <1>9, <1>17, <1>18 DEF EscrowInv

-----------------------------------------------------------------------------
\* A start of a week is a multiple of a week.
LEMMA WeekStartsAtWeek ==
    ASSUME NEW t \in Nat
    PROVE  WeekStart(t) % WEEK = 0 /\ WeekStart(t) \in Nat
<1>1. WEEK \in Nat \ {0}
    BY EscrowAssumption
<1>2. t \div WEEK \in Nat
    BY <1>1
<1>3. \A a, b \in Nat : a * b \in Nat
    OBVIOUS
<1>4. \A q \in Nat : (q * WEEK) % WEEK = 0
    BY <1>1
<1> QED
    BY <1>1, <1>2, <1>3, <1>4 DEF WeekStart

\* Every deposit replaces the lock as the escrow requires.
LEMMA DepositReplaces ==
    ASSUME EscrowTypes, NEW u \in Users, NEW value \in Nat, NEW end \in Times,
           DepositFor(u, value, end), locked[u].amount + value > 0,
           end > now, end >= locked[u].end, end % WEEK = 0, end <= now + MAXTIME
    PROVE  \E new : /\ Replaces(locked[u], new)
                    /\ UserCheckpoint(u, locked[u], new)
                    /\ locked' = [locked EXCEPT ![u] = new]
                    /\ UNCHANGED <<now, isShutdown>>
<1> DEFINE new == [amount |-> locked[u].amount + value, end |-> end]
<1>1. /\ UserCheckpoint(u, locked[u], new)
      /\ locked' = [locked EXCEPT ![u] = new]
      /\ UNCHANGED <<now, isShutdown>>
    BY DEF DepositFor
<1>2. Replaces(locked[u], new)
    <2>1. locked[u].amount + value \in Nat
        BY DEF EscrowTypes
    <2> QED
        BY <2>1 DEF Replaces
<1> HIDE DEF new
<1> QED
    BY <1>1, <1>2

\* The operations by which a lock is replaced.
LEMMA LockReplaced ==
    ASSUME EscrowTypes, ~isShutdown, NEW u \in Users,
           \/ \E value \in Deposits :
                  \/ \E time \in Times : CreateLock(u, value, time)
                  \/ IncreaseAmount(u, value)
           \/ \E time \in Times : IncreaseUnlockTime(u, time)
           \/ Withdraw(u)
    PROVE  \E new : /\ Replaces(locked[u], new)
                    /\ UserCheckpoint(u, locked[u], new)
                    /\ locked' = [locked EXCEPT ![u] = new]
                    /\ UNCHANGED <<now, isShutdown>>
<1>1. /\ now \in Nat /\ now <= MaxTime /\ MaxTime \in Nat /\ MAXTIME \in Nat \ {0}
      /\ WEEK \in Nat \ {0} /\ Deposits \subseteq Nat \ {0}
      /\ locked[u].amount \in Nat /\ locked[u].end \in Nat
    BY EscrowAssumption, SMTT(60) DEF EscrowTypes, Times
<1>2. ASSUME NEW value \in Deposits, NEW time \in Times, CreateLock(u, value, time)
      PROVE  \E new : /\ Replaces(locked[u], new)
                      /\ UserCheckpoint(u, locked[u], new)
                      /\ locked' = [locked EXCEPT ![u] = new]
                      /\ UNCHANGED <<now, isShutdown>>
    <2>1. WeekStart(time) % WEEK = 0 /\ WeekStart(time) \in Nat
        BY <1>1, WeekStartsAtWeek DEF Times
    <2>2. WeekStart(time) > now /\ WeekStart(time) <= now + MAXTIME /\ locked[u].amount = 0
        BY <1>2 DEF CreateLock
    <2>3. locked[u].end = 0
        BY <2>2 DEF EscrowTypes
    <2>4. WeekStart(time) \in Times
        BY <1>1, <2>1, <2>2 DEF Times
    <2>5. DepositFor(u, value, WeekStart(time))
        BY <1>2 DEF CreateLock
    <2>6. value \in Nat /\ locked[u].amount + value > 0 /\ WeekStart(time) >= locked[u].end
        BY <1>1, <2>1, <2>3
    <2> QED
        BY <2>1, <2>2, <2>4, <2>5, <2>6, DepositReplaces
<1>3. ASSUME NEW value \in Deposits, IncreaseAmount(u, value)
      PROVE  \E new : /\ Replaces(locked[u], new)
                      /\ UserCheckpoint(u, locked[u], new)
                      /\ locked' = [locked EXCEPT ![u] = new]
                      /\ UNCHANGED <<now, isShutdown>>
    <2>1. DepositFor(u, value, locked[u].end) /\ locked[u].end > now
        BY <1>3 DEF IncreaseAmount
    <2>2. /\ value \in Nat /\ locked[u].amount + value > 0
          /\ locked[u].end \in Times /\ locked[u].end >= locked[u].end
          /\ locked[u].end % WEEK = 0 /\ locked[u].end <= now + MAXTIME
        BY <1>1 DEF EscrowTypes
    <2> QED
        BY <2>1, <2>2, DepositReplaces
<1>4. ASSUME NEW time \in Times, IncreaseUnlockTime(u, time)
      PROVE  \E new : /\ Replaces(locked[u], new)
                      /\ UserCheckpoint(u, locked[u], new)
                      /\ locked' = [locked EXCEPT ![u] = new]
                      /\ UNCHANGED <<now, isShutdown>>
    <2>1. WeekStart(time) % WEEK = 0 /\ WeekStart(time) \in Nat
        BY <1>1, WeekStartsAtWeek DEF Times
    <2>2. /\ WeekStart(time) > locked[u].end /\ WeekStart(time) <= now + MAXTIME
          /\ locked[u].amount > 0 /\ locked[u].end > now
        BY <1>4 DEF IncreaseUnlockTime
    <2>3. WeekStart(time) \in Times /\ WeekStart(time) > now /\ WeekStart(time) >= locked[u].end
        BY <1>1, <2>1, <2>2 DEF Times
    <2>4. DepositFor(u, 0, WeekStart(time)) /\ locked[u].amount + 0 > 0 /\ 0 \in Nat
        BY <1>1, <1>4, <2>2 DEF IncreaseUnlockTime
    <2> QED
        BY <2>1, <2>2, <2>3, <2>4, DepositReplaces
<1>5. ASSUME Withdraw(u)
      PROVE  \E new : /\ Replaces(locked[u], new)
                      /\ UserCheckpoint(u, locked[u], new)
                      /\ locked' = [locked EXCEPT ![u] = new]
                      /\ UNCHANGED <<now, isShutdown>>
    <2>1. /\ UserCheckpoint(u, locked[u], NoLock)
          /\ locked' = [locked EXCEPT ![u] = NoLock]
          /\ UNCHANGED <<now, isShutdown>>
        BY <1>5 DEF Withdraw
    <2>2. locked[u].end <= now
        BY <1>1, <1>5 DEF Withdraw
    <2>3. 0 % WEEK = 0 /\ 0 \in Times /\ 0 <= now + MAXTIME
        BY <1>1 DEF Times
    <2>4. Replaces(locked[u], NoLock)
        BY <2>2, <2>3 DEF Replaces, NoLock
    <2> QED
        BY <2>1, <2>4
<1> QED
    BY <1>2, <1>3, <1>4, <1>5

\* While no point of a user and no scheduled change is touched, neither is the sum.
LEMMA PointsUntouched ==
    ASSUME UNCHANGED userPoint, NEW ends, NEW t
    PROVE  /\ Slopes(ends, t)' = Slopes(ends, t)
           /\ Powers(ends, t)' = Powers(ends, t)
           /\ Endings(ends, t)' = Endings(ends, t)
BY DEF Slopes, Powers, Endings

\* The invariant holds at the start.
LEMMA EscrowStarts ==
    ASSUME Init
    PROVE  EscrowInv
<1> DEFINE ends == [u \in Users |-> 0]
<1>1. /\ MaxTime \in Nat \ {0} /\ MAXTIME \in Nat \ {0} /\ WEEK \in Nat \ {0}
      /\ IsFiniteSet(Users) /\ 0 \in Times /\ 0 % WEEK = 0 /\ 0 \div MAXTIME = 0
    BY EscrowAssumption DEF Times
<1>2. EscrowTypes
    <2>1. now = 1 /\ lastPoint = [bias |-> 0, slope |-> 0, ts |-> 1]
        BY DEF Init, NoPoint
    <2>2. locked = [u \in Users |-> [amount |-> 0, end |-> 0]]
        BY DEF Init, NoLock
    <2>3. userPoint = [u \in Users |-> [bias |-> 0, slope |-> 0, ts |-> 0]]
        BY DEF Init, NoPoint
    <2>4. slopeChanges = [t \in Times |-> 0] /\ isShutdown = FALSE /\ checkpointed = FALSE
        BY DEF Init
    <2>5. userPoint \in [Users -> [bias : Nat, slope : Nat, ts : 0..now]]
        BY <2>1, <2>3
    <2>6. lastPoint \in [bias : Nat, slope : Nat, ts : 0..now] /\ now \in 0..MaxTime
        BY <1>1, <2>1
    <2>7. locked \in [Users -> [amount : Nat, end : Times]]
        BY <1>1, <2>2
    <2>8. \A u \in Users : locked[u].end = 0 /\ 0 <= now + MAXTIME
        BY <1>1, <2>1, <2>2
    <2>9. slopeChanges \in [Times -> Int] /\ \A t \in Times : slopeChanges[t] <= 0
        BY <2>4
    <2> QED
        BY <1>1, <2>4, <2>5, <2>6, <2>7, <2>8, <2>9 DEF EscrowTypes
<1>3. \A u \in Users : userPoint[u].slope = 0 /\ userPoint[u].bias = 0 /\ userPoint[u].ts = 0
    BY DEF Init, NoPoint
<1>4. PointsEnd(ends)
    <2>1. ASSUME NEW u \in Users
          PROVE  /\ userPoint[u].bias = userPoint[u].slope * (ends[u] - userPoint[u].ts)
                 /\ ~(userPoint[u].slope > 0)
                 /\ ends[u] = locked[u].end
                 /\ userPoint[u].slope = locked[u].amount \div MAXTIME
        <3>1. locked[u].end = 0 /\ locked[u].amount = 0
            BY DEF Init, NoLock
        <3>2. ends[u] = 0 /\ 0 * (0 - 0) = 0 /\ ~(0 > 0)
            OBVIOUS
        <3> QED
            BY <1>1, <1>3, <3>1, <3>2
    <2> QED
        BY <1>1, <1>3, <2>1 DEF PointsEnd
<1>5. LineAddsUp(ends)
    <2>1. ASSUME NEW t \in Int
          PROVE  /\ Total(Slopes(ends, t), Users) = 0
                 /\ Total(Powers(ends, t), Users) = 0
                 /\ Total(Endings(ends, t), Users) = 0
        <3>1. \A u \in Users : Slopes(ends, t)[u] = 0 /\ Endings(ends, t)[u] = 0
            BY <1>3 DEF Slopes, Endings
        <3>2. \A u \in Users : Powers(ends, t)[u] = 0
            <4>1. 0 * (0 - t) = 0
                OBVIOUS
            <4>2. \A u \in Users : ends[u] = 0
                OBVIOUS
            <4> QED
                BY <1>3, <4>1, <4>2 DEF Powers
        <3> QED
            BY <1>1, <3>1, <3>2, TotalOfZeros
    <2>2. lastPoint.ts = 1 /\ lastPoint.slope = 0 /\ lastPoint.bias = 0
        BY DEF Init, NoPoint
    <2>3. \A t \in Times : slopeChanges[t] = 0 /\ t \in Int
        BY DEF Init, Times
    <2>4. \A m, n \in Int : m + n = 0 => m = -n
        OBVIOUS
    <2>5. 0 \in Int /\ 0 + 0 = 0
        OBVIOUS
    <2> HIDE DEF ends
    <2> QED
        BY <2>1, <2>2, <2>3, <2>4, <2>5 DEF LineAddsUp
<1> HIDE DEF ends
<1> QED
    BY <1>2, <1>4, <1>5 DEF EscrowInv

\* _checkpoint without a user only brings the last point up to now.
LEMMA CheckpointAddsUp ==
    ASSUME EscrowTypes, NEW ends, PointsEnd(ends), LineAddsUp(ends), Checkpoint
    PROVE  EscrowInv'
<1>1. /\ lastPoint' = [bias |-> NotNegative(CurrentPoint.bias),
                       slope |-> NotNegative(CurrentPoint.slope), ts |-> now]
      /\ checkpointed' = TRUE
      /\ UNCHANGED <<now, locked, slopeChanges, userPoint, isShutdown>>
    BY DEF Checkpoint
<1>2. /\ now \in Times /\ now \in Nat /\ lastPoint.ts <= now
      /\ CurrentPoint.bias = Total(Powers(ends, now), Users)
      /\ CurrentPoint.slope = Total(Slopes(ends, now), Users)
    BY CurrentIsSum DEF EscrowTypes
<1>3. Total(Powers(ends, now), Users) \in Nat /\ Total(Slopes(ends, now), Users) \in Nat
    BY <1>2, TotalTypes
<1>4. lastPoint' = [bias |-> Total(Powers(ends, now), Users),
                    slope |-> Total(Slopes(ends, now), Users), ts |-> now]
    BY <1>1, <1>2, <1>3, NotNegativeIs
<1>5. EscrowTypes'
    BY <1>1, <1>2, <1>3, <1>4 DEF EscrowTypes
<1>6. PointsEnd(ends)'
    BY <1>1 DEF PointsEnd
<1>7. LineAddsUp(ends)'
    <2>1. \A t : /\ Slopes(ends, t)' = Slopes(ends, t) /\ Powers(ends, t)' = Powers(ends, t)
                 /\ Endings(ends, t)' = Endings(ends, t)
        BY <1>1, PointsUntouched
    <2>2. lastPoint'.ts = now /\ lastPoint'.slope = Total(Slopes(ends, now), Users)
          /\ lastPoint'.bias = Total(Powers(ends, now), Users)
        BY <1>4
    <2>3. \A t \in Times : t > now => t > lastPoint.ts
        BY <1>2 DEF EscrowTypes, Times
    <2> QED
        BY <1>1, <2>1, <2>2, <2>3 DEF LineAddsUp
<1> QED
    BY <1>5, <1>6, <1>7 DEF EscrowInv

\* Nor do the passing of time, the shutdown, and what leaves after it touch the sum.
LEMMA OthersAddUp ==
    ASSUME EscrowTypes, NEW ends, PointsEnd(ends), LineAddsUp(ends),
           \/ Tick
           \/ Shutdown
           \/ isShutdown /\ \E u \in Users : Withdraw(u)
           \/ UNCHANGED vars
    PROVE  EscrowInv'
<1>1. /\ UNCHANGED <<lastPoint, checkpointed, slopeChanges, userPoint>>
      /\ now' \in 0..MaxTime /\ now <= now' /\ now' \in Nat /\ now \in Nat
      /\ isShutdown => isShutdown'
      /\ isShutdown' \in BOOLEAN
      /\ ~isShutdown' => locked' = locked
    <2>1. now \in 0..MaxTime /\ MaxTime \in Nat
        BY EscrowAssumption DEF EscrowTypes
    <2>2. CASE Tick
        BY <2>1, <2>2 DEF Tick, EscrowTypes
    <2>3. CASE Shutdown
        BY <2>1, <2>3 DEF Shutdown
    <2>4. CASE isShutdown /\ \E u \in Users : Withdraw(u)
        BY <2>1, <2>4 DEF Withdraw, EscrowTypes
    <2>5. CASE UNCHANGED vars
        BY <2>1, <2>5 DEF vars, EscrowTypes
    <2> QED
        BY <2>2, <2>3, <2>4, <2>5
<1>2. /\ locked' \in [Users -> [amount : Nat, end : Times]]
      /\ \A u \in Users :
             /\ locked'[u].amount = 0 => locked'[u].end = 0
             /\ locked'[u].end % WEEK = 0 /\ locked'[u].end <= now' + MAXTIME
    <2>1. /\ WEEK \in Nat \ {0} /\ MAXTIME \in Nat \ {0} /\ 0 % WEEK = 0 /\ 0 \in Times
          /\ \A t \in Times : t \in Nat
        BY EscrowAssumption DEF Times
    <2>2. CASE locked' = locked
        BY <1>1, <2>1, <2>2 DEF EscrowTypes
    <2>3. ASSUME NEW u \in Users, locked' = [locked EXCEPT ![u] = NoLock]
          PROVE  /\ locked' \in [Users -> [amount : Nat, end : Times]]
                 /\ \A v \in Users :
                        /\ locked'[v].amount = 0 => locked'[v].end = 0
                        /\ locked'[v].end % WEEK = 0 /\ locked'[v].end <= now' + MAXTIME
        <3>1. locked' \in [Users -> [amount : Nat, end : Times]]
            BY <2>1, <2>3 DEF EscrowTypes, NoLock
        <3>2. ASSUME NEW v \in Users
              PROVE  /\ locked'[v].amount = 0 => locked'[v].end = 0
                     /\ locked'[v].end % WEEK = 0 /\ locked'[v].end <= now' + MAXTIME
            <4>1. CASE v = u
                <5>1. locked'[v].amount = 0 /\ locked'[v].end = 0
                    BY <2>3, <4>1 DEF EscrowTypes, NoLock
                <5>2. now' \in Nat /\ MAXTIME \in Nat
                    BY <1>1, <2>1
                <5>3. 0 <= now' + MAXTIME
                    <6>1. \A a, b \in Nat : 0 <= a + b
                        OBVIOUS
                    <6> QED
                        BY <5>2, <6>1, Zenon
                <5> QED
                    BY <2>1, <5>1, <5>3
            <4>2. CASE v # u
                BY <1>1, <2>1, <2>3, <4>2 DEF EscrowTypes
            <4> QED
                BY <4>1, <4>2
        <3> QED
            BY <3>1, <3>2
    <2>4. locked' = locked \/ \E u \in Users : locked' = [locked EXCEPT ![u] = NoLock]
        BY DEF Tick, Shutdown, Withdraw, vars
    <2> QED
        BY <2>2, <2>3, <2>4
<1>3. EscrowTypes'
    <2>1. userPoint' \in [Users -> [bias : Nat, slope : Nat, ts : 0..now']]
          /\ lastPoint' \in [bias : Nat, slope : Nat, ts : 0..now']
        <3>1. 0..now \subseteq 0..now'
            BY <1>1
        <3> QED
            BY <1>1, <3>1 DEF EscrowTypes
    <2> QED
        BY <1>1, <1>2, <2>1 DEF EscrowTypes
<1>4. PointsEnd(ends)'
    BY <1>1 DEF PointsEnd
<1>5. LineAddsUp(ends)'
    <2>1. \A t : /\ Slopes(ends, t)' = Slopes(ends, t) /\ Powers(ends, t)' = Powers(ends, t)
                 /\ Endings(ends, t)' = Endings(ends, t)
        BY <1>1, PointsUntouched
    <2> QED
        BY <1>1, <2>1 DEF LineAddsUp
<1> QED
    BY <1>3, <1>4, <1>5 DEF EscrowInv

\* In every step before the shutdown a lock is replaced, or no lock and no point is
\* touched; after it only locks are, until they are empty.
LEMMA EscrowSteps ==
    ASSUME EscrowTypes, Next
    PROVE  \/ ~isShutdown /\ \E u \in Users : \E new :
                  /\ Replaces(locked[u], new)
                  /\ UserCheckpoint(u, locked[u], new)
                  /\ locked' = [locked EXCEPT ![u] = new]
                  /\ UNCHANGED <<now, isShutdown>>
           \/ Checkpoint
           \/ Tick
           \/ Shutdown
           \/ isShutdown /\ \E u \in Users : Withdraw(u)
<1>1. CASE ~isShutdown
    BY <1>1, LockReplaced DEF Next
<1>2. CASE isShutdown
    BY <1>2 DEF Next, CreateLock, IncreaseAmount, IncreaseUnlockTime
<1> QED
    BY <1>1, <1>2 DEF EscrowTypes

\* Every step keeps the invariant.
LEMMA EscrowKept ==
    ASSUME EscrowInv, [Next]_vars
    PROVE  EscrowInv'
<1> PICK ends : PointsEnd(ends) /\ LineAddsUp(ends)
    BY DEF EscrowInv
<1>1. EscrowTypes
    BY DEF EscrowInv
<1>2. CASE Next
    BY <1>1, <1>2, EscrowSteps, UserCheckpointAddsUp, CheckpointAddsUp, OthersAddUp
<1>3. CASE UNCHANGED vars
    BY <1>1, <1>3, OthersAddUp
<1> QED
    BY <1>2, <1>3

\* The inductive invariant holds whatever is locked, extended, withdrawn and shut down.
THEOREM EscrowInvariant == Spec => []EscrowInv
<1>1. Init => EscrowInv
    BY EscrowStarts
<1>2. EscrowInv /\ [Next]_vars => EscrowInv'
    BY EscrowKept
<1> QED
    BY <1>1, <1>2, PTL DEF Spec

-----------------------------------------------------------------------------
\* So it is in every state of the invariant.
LEMMA SumHolds == EscrowInv => TotalIsSum
BY SupplyIsSum DEF EscrowInv

\* The total power is the sum of the users' powers, for any number of them and at every
\* time to come.
THEOREM SupplyIsSumOfBalances == Spec => []TotalIsSum
BY SumHolds, EscrowInvariant, PTL

\* Until the shutdown a user's power is that of its lock.
LEMMA PowerOfLock ==
    ASSUME EscrowInv
    PROVE  PowerMatchesLock
<1> PICK ends : PointsEnd(ends)
    BY DEF EscrowInv
<1> SUFFICES ASSUME ~isShutdown, NEW u \in Users
             PROVE  BalanceOf(u, now)
                        = (locked[u].amount \div MAXTIME) * Max({locked[u].end - now, 0})
    BY DEF PowerMatchesLock
<1> DEFINE power == locked[u].amount \div MAXTIME
           left == locked[u].end - now
<1>1. EscrowTypes /\ now \in Int /\ left \in Int /\ ends[u] = locked[u].end
    BY SMTT(60) DEF EscrowInv, EscrowTypes, PointsEnd, Times
<1>2. power \in Nat /\ userPoint[u].slope = power
    <2>1. userPoint[u].slope \in Nat
        BY <1>1 DEF EscrowTypes
    <2> QED
        BY <2>1 DEF PointsEnd
<1>3. BalanceOf(u, now) = IF locked[u].end > now THEN power * left ELSE 0
    <2>1. BalanceOf(u, now) = Powers(ends, now)[u]
        BY <1>1, BalanceIsPower
    <2> QED
        BY <1>1, <1>2, <2>1 DEF Powers
<1>4. Max({left, 0}) = IF left >= 0 THEN left ELSE 0
    <2> HIDE DEF left
    <2> QED
        BY <1>1, MaxOfTwo
<1>5. locked[u].end > now <=> left > 0
    BY <1>1 DEF EscrowTypes, Times
<1>6. power * 0 = 0
    BY <1>2
<1>7. power * Max({left, 0}) = IF left > 0 THEN power * left ELSE 0
    <2> HIDE DEF power, left
    <2>1. CASE left > 0
        BY <1>1, <1>4, <2>1
    <2>2. CASE ~(left > 0)
        <3>1. Max({left, 0}) = 0
            BY <1>1, <1>4, <2>2
        <3> QED
            BY <1>6, <2>2, <3>1
    <2> QED
        BY <2>1, <2>2
<1> HIDE DEF power, left
<1>8. BalanceOf(u, now) = power * Max({left, 0})
    BY <1>3, <1>5, <1>7
<1> QED
    BY <1>8 DEF power, left

\* balanceOf: until the shutdown a user's power is that of its lock, however it came about.
THEOREM PowerIsThatOfLock == Spec => []PowerMatchesLock
BY EscrowInvariant, PowerOfLock, PTL

-----------------------------------------------------------------------------
\* The point of a user changes only when its lock does, or when there is no lock and it
\* gives no power before or after; after the shutdown no point changes.
LEMMA PointFollowsLock ==
    ASSUME EscrowInv, [Next]_vars, NEW t \in Int
    PROVE  /\ \A u \in Users : locked'[u] = locked[u] => BalanceOf(u, t)' = BalanceOf(u, t)
           /\ isShutdown => userPoint' = userPoint
<1> PICK ends : PointsEnd(ends) /\ LineAddsUp(ends)
    BY DEF EscrowInv
<1>1. EscrowTypes
    BY DEF EscrowInv
<1>2. CASE userPoint' = userPoint
    BY <1>2 DEF BalanceOf
<1>3. CASE ~isShutdown /\ \E u \in Users : \E new :
                  /\ Replaces(locked[u], new)
                  /\ UserCheckpoint(u, locked[u], new)
                  /\ locked' = [locked EXCEPT ![u] = new]
                  /\ UNCHANGED <<now, isShutdown>>
    <2> PICK u \in Users : \E new :
                  /\ Replaces(locked[u], new)
                  /\ UserCheckpoint(u, locked[u], new)
                  /\ locked' = [locked EXCEPT ![u] = new]
                  /\ UNCHANGED <<now, isShutdown>>
        BY <1>3
    <2> PICK new :
                  /\ Replaces(locked[u], new)
                  /\ UserCheckpoint(u, locked[u], new)
                  /\ locked' = [locked EXCEPT ![u] = new]
                  /\ UNCHANGED <<now, isShutdown>>
        OBVIOUS
    <2>1. userPoint' = [userPoint EXCEPT ![u] = PointOf(new)]
        BY DEF UserCheckpoint
    <2> SUFFICES ASSUME NEW v \in Users, locked'[v] = locked[v]
                 PROVE  BalanceOf(v, t)' = BalanceOf(v, t)
        BY <1>3
    <2>2. CASE v # u
        <3>1. userPoint'[v] = userPoint[v]
            BY <1>1, <2>1, <2>2 DEF EscrowTypes
        <3> QED
            BY <3>1 DEF BalanceOf
    <2>3. CASE v = u
        <3>1. new = locked[u] /\ locked[u].end = ends[u]
            BY <1>1, <1>3, <2>3 DEF EscrowTypes, PointsEnd
        <3> DEFINE after == [ends EXCEPT ![u] = new.end]
        <3>2. locked[u].amount \in Nat /\ locked[u].end \in Int /\ now \in Int
            BY <1>1 DEF EscrowTypes, Times
        <3>3. userPoint'[u] = PointOf(locked[u])
            BY <1>1, <2>1, <3>1 DEF EscrowTypes
        <3>4. /\ PointOf(locked[u]).bias = PointOf(locked[u]).slope * (locked[u].end - now)
              /\ PointOf(locked[u]).ts = now /\ PointOf(locked[u]).slope \in Nat
              /\ PointOf(locked[u]).slope = userPoint[u].slope
            <4>1. PointOf(locked[u]).slope = locked[u].amount \div MAXTIME
                <5>1. CASE locked[u].end > now
                    BY <3>2, <5>1, PointTypes
                <5>2. CASE ~(locked[u].end > now)
                    <6>1. locked[u].amount = 0 /\ PointOf(locked[u]).slope = 0
                        BY <3>1, <3>2, <5>2, PointTypes DEF Replaces, NoLock
                    <6>2. 0 \div MAXTIME = 0
                        BY EscrowAssumption
                    <6> QED
                        BY <6>1, <6>2
                <5> QED
                    BY <5>1, <5>2
            <4>2. userPoint[u].slope = locked[u].amount \div MAXTIME
                BY <1>3 DEF PointsEnd
            <4> QED
                BY <3>2, <4>1, <4>2, PointTypes
        <3>5. /\ userPoint[u].bias = userPoint[u].slope * (locked[u].end - userPoint[u].ts)
              /\ userPoint[u].ts \in Int
            BY <1>1, <3>1, <3>2 DEF PointsEnd, EscrowTypes
        <3> DEFINE s == userPoint[u].slope
                   e == locked[u].end
        <3>6. \A a, b \in Int : s * (e - a) - s * (b - a) = s * (e - b)
            <4>1. s \in Int /\ e \in Int
                BY <3>2, <3>4
            <4>2. \A x, y, a, b \in Int : x * (y - a) - x * (b - a) = x * (y - b)
                OBVIOUS
            <4> HIDE DEF s, e
            <4> QED
                BY <4>1, <4>2
        <3>7. BalanceOf(u, t) = NotNegative(s * (e - t))
            <4>1. BalanceOf(u, t) = NotNegative(s * (e - userPoint[u].ts) - s * (t - userPoint[u].ts))
                BY <3>5 DEF BalanceOf
            <4> HIDE DEF s, e
            <4> QED
                BY <3>5, <3>6, <4>1
        <3>8. BalanceOf(u, t)' = NotNegative(s * (e - t))
            <4>1. BalanceOf(u, t)' = NotNegative(s * (e - now) - s * (t - now))
                BY <3>3, <3>4 DEF BalanceOf, NotNegative
            <4> HIDE DEF s, e
            <4> QED
                BY <3>2, <3>6, <4>1
        <3> QED
            BY <2>3, <3>7, <3>8
    <2> QED
        BY <2>2, <2>3
<1>4. \/ userPoint' = userPoint
      \/ ~isShutdown /\ \E u \in Users : \E new :
             /\ Replaces(locked[u], new)
             /\ UserCheckpoint(u, locked[u], new)
             /\ locked' = [locked EXCEPT ![u] = new]
             /\ UNCHANGED <<now, isShutdown>>
    <2>1. CASE Next
        BY <1>1, <2>1, EscrowSteps DEF Checkpoint, Tick, Shutdown, Withdraw
    <2>2. CASE UNCHANGED vars
        BY <2>2 DEF vars
    <2> QED
        BY <2>1, <2>2
<1> QED
    BY <1>2, <1>3, <1>4

\* Time goes forwards only.
LEMMA TimeGoesOn ==
    ASSUME EscrowInv, [Next]_vars
    PROVE  now \in Nat /\ now' \in Nat /\ now <= now' /\ now' <= MaxTime
<1>1. now \in Nat /\ now' \in Nat /\ now' <= MaxTime
    <2>1. MaxTime \in Nat
        BY EscrowAssumption
    <2>2. EscrowInv'
        BY EscrowKept
    <2>3. now \in 0..MaxTime /\ now' \in 0..MaxTime
        BY <2>2 DEF EscrowInv, EscrowTypes
    <2> QED
        BY <2>1, <2>3
<1>2. now' = now \/ now' = now + 1
    <2>1. CASE Next
        BY <2>1, ZenonT(60) DEF Next, CreateLock, IncreaseAmount, IncreaseUnlockTime, DepositFor,
                    Withdraw, Checkpoint, Shutdown, Tick
    <2>2. CASE UNCHANGED vars
        BY <2>2 DEF vars
    <2> QED
        BY <2>1, <2>2
<1> QED
    BY <1>1, <1>2

\* A step moves no power but that of the locks it changes.
LEMMA StepsMovePower ==
    ASSUME EscrowInv, [Next]_vars
    PROVE  LocksMovePower
<1> SUFFICES ASSUME NEW t \in now' .. MaxTime + MAXTIME
             PROVE  /\ \A u \in Users : locked'[u] = locked[u] => BalanceOf(u, t)' = BalanceOf(u, t)
                    /\ locked' = locked => TotalSupply(t)' = TotalSupply(t)
                    /\ isShutdown => TotalSupply(t)' <= TotalSupply(t)
    BY DEF LocksMovePower
<1> DEFINE before == [u \in Users |-> BalanceOf(u, t)]
           then == [u \in Users |-> BalanceOf(u, t)']
<1>1. t \in now .. MaxTime + MAXTIME /\ t \in Int
    <2>1. MaxTime + MAXTIME \in Int
        BY EscrowAssumption
    <2> QED
        BY <2>1, TimeGoesOn
<1>2. /\ \A u \in Users : locked'[u] = locked[u] => then[u] = before[u]
      /\ isShutdown => userPoint' = userPoint
    BY <1>1, PointFollowsLock
<1>3. isShutdown => then = before
    BY <1>2 DEF BalanceOf
<1>4. TotalSupply(t) = Total(before, Users)
    <2>1. TotalIsSum
        BY SumHolds
    <2> QED
        BY <1>1, <2>1 DEF TotalIsSum
<1>5. TotalSupply(t)' = Total(then, Users)
    <2>1. EscrowInv'
        BY EscrowKept
    <2>3. TotalIsSum'
        BY <2>1, SumHolds, PTL
    <2> QED
        BY <2>3 DEF TotalIsSum
<1>6. locked' = locked => then = before
    BY <1>2
<1>7. Total(before, Users) \in Int
    <2> PICK ends : PointsEnd(ends) /\ LineAddsUp(ends)
        BY DEF EscrowInv
    <2>1. EscrowTypes /\ IsFiniteSet(Users)
        BY EscrowAssumption DEF EscrowInv
    <2>2. \A u \in Users : before[u] \in Int
        BY <1>1, <2>1, BalanceIsPower, ContributionTypes
    <2> HIDE DEF before
    <2> QED
        BY <2>1, <2>2, TotalType
<1>8. /\ locked' = locked => TotalSupply(t)' = TotalSupply(t)
      /\ isShutdown => TotalSupply(t)' <= TotalSupply(t)
    <2> HIDE DEF before, then
    <2> QED
        BY <1>3, <1>4, <1>5, <1>6, <1>7
<1> QED
    BY <1>2, <1>8

\* create_lock, increase_amount, increase_unlock_time, withdraw: voting power at a later time
\* changes with the user's own lock only, and after the shutdown none is gained.
THEOREM OnlyLocksMovePower == Spec => PowerFollowsLocks
<1>1. EscrowInv /\ [Next]_vars => [LocksMovePower]_vars
    BY StepsMovePower
<1> QED
    BY <1>1, EscrowInvariant, PTL DEF Spec, PowerFollowsLocks

-----------------------------------------------------------------------------
\* The escrow holds the locked tokens, and nobody has less than none.
FundsInv ==
    /\ tokens \in [Users \cup {Escrow} -> Nat]
    /\ supply = Total([u \in Users |-> locked[u].amount], Users)
    /\ tokens[Escrow] = supply

\* The tokens of one lock come and go with its amount.
LEMMA LockFundsMove ==
    ASSUME EscrowTypes, FundsInv, NEW u \in Users, NEW new, new.amount \in Nat,
           NEW d \in Int, new.amount = locked[u].amount + d, tokens[u] - d \in Nat,
           locked' = [locked EXCEPT ![u] = new], supply' = supply + d,
           tokens' = [tokens EXCEPT ![u] = @ - d, ![Escrow] = @ + d]
    PROVE  FundsInv'
<1> DEFINE f == [v \in Users |-> locked[v].amount]
           g == [v \in Users |-> locked'[v].amount]
<1>1. IsFiniteSet(Users) /\ Escrow \notin Users
    BY EscrowAssumption
<1>2. /\ \A v \in Users : f[v] \in Nat
      /\ \A v \in Users \ {u} : g[v] = f[v]
      /\ f[u] = locked[u].amount /\ g[u] = new.amount
    BY DEF EscrowTypes
<1>3. \A v \in Users : g[v] \in Nat
    BY <1>2
<1>4. supply = Total(f, Users) /\ tokens[Escrow] = supply
    BY DEF FundsInv
<1>5. supply' = Total(g, Users) /\ supply' \in Nat
    <2> HIDE DEF f, g
    <2>1. Total(f, Users) \in Nat /\ Total(g, Users) \in Nat
        BY <1>1, <1>2, <1>3, TotalOfNaturals
    <2>2. Total(g, Users) = Total(f, Users) + (g[u] - f[u])
        <3>1. \A v \in Users : f[v] \in Int /\ g[v] \in Int
            BY <1>2, <1>3
        <3> QED
            BY <1>1, <1>2, <3>1, TotalChanges
    <2>3. locked[u].amount \in Nat
        BY DEF EscrowTypes
    <2>4. g[u] - f[u] = d
        BY <1>2, <2>3
    <2> QED
        BY <1>4, <2>1, <2>2, <2>4
<1>6. tokens'[Escrow] = supply + d /\ tokens'[u] = tokens[u] - d
      /\ \A a \in (Users \cup {Escrow}) \ {u, Escrow} : tokens'[a] = tokens[a]
    BY <1>1, <1>4 DEF FundsInv
<1>7. tokens' \in [Users \cup {Escrow} -> Nat]
    <2>1. \A a \in Users \cup {Escrow} : tokens'[a] \in Nat
        BY <1>5, <1>6 DEF FundsInv
    <2>2. tokens' = [a \in Users \cup {Escrow} |-> tokens'[a]]
        BY DEF FundsInv
    <2> QED
        BY <2>1, <2>2
<1> QED
    BY <1>5, <1>6, <1>7 DEF FundsInv

\* Every step keeps them.
LEMMA FundsKept ==
    ASSUME EscrowInv, FundsInv, [Next]_vars
    PROVE  FundsInv'
<1>1. EscrowTypes
    BY DEF EscrowInv
<1>2. \A u \in Users : locked[u].amount \in Nat /\ tokens[u] \in Nat /\ tokens[Escrow] \in Nat
    BY <1>1 DEF EscrowTypes, FundsInv
<1>3. Deposits \subseteq Nat /\ IsFiniteSet(Users) /\ Escrow \notin Users
    BY EscrowAssumption
<1>4. ASSUME NEW u \in Users, NEW value \in Nat, NEW end, DepositFor(u, value, end)
      PROVE  FundsInv'
    <2> DEFINE new == [amount |-> locked[u].amount + value, end |-> end]
    <2>1. /\ value <= tokens[u] /\ supply' = supply + value
          /\ locked' = [locked EXCEPT ![u] = new]
          /\ tokens' = [tokens EXCEPT ![u] = @ - value, ![Escrow] = @ + value]
        BY <1>4 DEF DepositFor
    <2>2. /\ value \in Int /\ tokens[u] - value \in Nat
          /\ new.amount = locked[u].amount + value /\ new.amount \in Nat
        BY <1>2, <2>1
    <2> HIDE DEF new
    <2> QED
        BY <1>1, <2>1, <2>2, LockFundsMove
<1>5. ASSUME NEW u \in Users, Withdraw(u)
      PROVE  FundsInv'
    <2> DEFINE d == -locked[u].amount
    <2>1. /\ supply' = supply - locked[u].amount
          /\ locked' = [locked EXCEPT ![u] = NoLock]
          /\ tokens' = [tokens EXCEPT ![u] = @ + locked[u].amount, ![Escrow] = @ - locked[u].amount]
        BY <1>5 DEF Withdraw
    <2>2. d \in Int /\ NoLock.amount = locked[u].amount + d /\ NoLock.amount \in Nat
        BY <1>2 DEF NoLock
    <2>3. /\ tokens[u] - d = tokens[u] + locked[u].amount
          /\ tokens[Escrow] + d = tokens[Escrow] - locked[u].amount
          /\ tokens[u] - d \in Nat
        BY <1>2
    <2>4. supply + d = supply - locked[u].amount
        <3>1. supply \in Nat
            BY <1>2 DEF FundsInv
        <3> QED
            BY <1>2, <3>1
    <2>5. tokens' = [tokens EXCEPT ![u] = @ - d, ![Escrow] = @ + d]
        BY <1>3, <2>1, <2>3 DEF FundsInv
    <2> HIDE DEF d
    <2> QED
        BY <1>1, <2>1, <2>2, <2>3, <2>4, <2>5, LockFundsMove
<1>6. CASE UNCHANGED <<locked, supply, tokens>>
    BY <1>6 DEF FundsInv
<1>7. CASE Next
    <2>1. ASSUME NEW u \in Users, NEW value \in Deposits, NEW time \in Times, CreateLock(u, value, time)
          PROVE  FundsInv'
        BY <1>3, <1>4, <2>1 DEF CreateLock
    <2>2. ASSUME NEW u \in Users, NEW value \in Deposits, IncreaseAmount(u, value)
          PROVE  FundsInv'
        BY <1>3, <1>4, <2>2 DEF IncreaseAmount
    <2>3. ASSUME NEW u \in Users, NEW time \in Times, IncreaseUnlockTime(u, time)
          PROVE  FundsInv'
        BY <1>4, <2>3 DEF IncreaseUnlockTime
    <2>4. CASE Checkpoint \/ Shutdown \/ Tick
        BY <1>6, <2>4 DEF Checkpoint, Shutdown, Tick
    <2> QED
        BY <1>5, <1>7, <2>1, <2>2, <2>3, <2>4 DEF Next
<1>8. CASE UNCHANGED vars
    BY <1>6, <1>8 DEF vars
<1> QED
    BY <1>7, <1>8

\* They hold at the start.
LEMMA FundsStart ==
    ASSUME Init
    PROVE  FundsInv
<1>1. IsFiniteSet(Users) /\ Escrow \notin Users /\ Funds \in Nat
    BY EscrowAssumption
<1> DEFINE f == [u \in Users |-> locked[u].amount]
<1>2. \A u \in Users : f[u] = 0
    BY DEF Init, NoLock
<1>3. Total(f, Users) = 0
    <2> HIDE DEF f
    <2> QED
        BY <1>1, <1>2, TotalOfZeros
<1> QED
    BY <1>1, <1>3 DEF Init, FundsInv

\* The invariant and what the escrow holds are all that the types and their ties say.
LEMMA EscrowTypesFollow == EscrowInv /\ FundsInv => TypeOK
<1> SUFFICES ASSUME EscrowInv, FundsInv PROVE TypeOK
    OBVIOUS
<1> PICK ends : PointsEnd(ends) /\ LineAddsUp(ends)
    BY DEF EscrowInv
<1>1. EscrowTypes
    BY DEF EscrowInv
<1>2. \A t \in lastPoint.ts .. MaxTime + MAXTIME : Line(lastPoint, t).slope >= 0
    <2> SUFFICES ASSUME NEW t \in lastPoint.ts .. MaxTime + MAXTIME
                 PROVE  Line(lastPoint, t).slope >= 0
        OBVIOUS
    <2>1. t \in Times /\ lastPoint.ts <= t /\ t \in Int
        <3>1. lastPoint.ts \in Nat /\ MaxTime + MAXTIME \in Int
            BY <1>1, EscrowAssumption DEF EscrowTypes
        <3> QED
            BY <3>1 DEF Times
    <2>2. Line(lastPoint, t).slope = Total(Slopes(ends, t), Users)
        BY <1>1, <2>1, LineIsSum
    <2>3. Total(Slopes(ends, t), Users) \in Nat
        BY <1>1, <2>1, TotalTypes
    <2> QED
        BY <2>2, <2>3
<1> QED
    BY <1>1, <1>2 DEF TypeOK, EscrowTypes, FundsInv

\* Whatever is locked, extended and withdrawn: the escrow holds the locked tokens, and
\* no slope turns upwards.
THEOREM EscrowTypeCorrect == Spec => []TypeOK
<1>1. Init => FundsInv
    BY FundsStart
<1>2. EscrowInv /\ FundsInv /\ [Next]_vars => FundsInv'
    BY FundsKept
<1>3. Spec => []FundsInv
    BY <1>1, <1>2, EscrowInvariant, PTL DEF Spec
<1> QED
    BY <1>3, EscrowInvariant, EscrowTypesFollow, PTL

-----------------------------------------------------------------------------
\* The distributor.

Backed == TokenTypeOK /\ LockedWithinBalance

ClaimTypes ==
    /\ accountNonces \in [Wallets -> Nat]
    /\ paid \in [Wallets -> Seq(Claims)]
    /\ issued \subseteq Claims

InOrder == ClaimTypes /\ PaidInOrder

-----------------------------------------------------------------------------
\* A transfer keeps locked amounts covered, whoever makes it.
LEMMA TransferKeepsBacked ==
    ASSUME Backed, NEW from \in Accounts, NEW to \in Accounts, NEW amount \in Amounts,
           Transfer(from, to, amount)
    PROVE  Backed'
<1>1. amount \in Nat
    BY TokenAssumption
<1>2. balances' \in [Accounts -> Nat]
    <2>1. \A a \in Accounts : balances'[a] = balances[a] + (IF a = to THEN amount ELSE 0)
                                                    - (IF a = from THEN amount ELSE 0)
        BY DEF Transfer, Moved
    <2>2. balances' = [a \in Accounts |-> balances'[a]]
        BY DEF Transfer, Moved
    <2>3. amount <= balances[from]
        BY DEF Transfer, MayTransfer
    <2>4. \A a \in Accounts : balances'[a] \in Nat
        BY <1>1, <2>1, <2>3 DEF Backed, TokenTypeOK
    <2> QED
        BY <2>2, <2>4
<1>3. TokenTypeOK'
    BY <1>2 DEF Transfer, Backed, TokenTypeOK
<1>4. ASSUME IsLockPeriodActive', ~restarted', NEW a \in Accounts
      PROVE  lockedAmount'[a] <= balances'[a]
    <2>1. IsLockPeriodActive /\ lockedAmount[a] <= balances[a]
        BY <1>4 DEF Transfer, IsLockPeriodActive, Backed, LockedWithinBalance
    <2>2. amount <= balances[from] - lockedAmount[from]
        BY <2>1 DEF Transfer, MayTransfer, UnlockedBalance
    <2>3. balances'[a] = balances[a] + (IF a = to THEN amount ELSE 0)
                                     - (IF a = from THEN amount ELSE 0)
        BY DEF Transfer, Moved
    <2>4. lockedAmount' = lockedAmount
        BY DEF Transfer
    <2> QED
        BY <1>1, <2>1, <2>2, <2>3, <2>4 DEF Backed, TokenTypeOK
<1> QED
    BY <1>3, <1>4 DEF Backed, LockedWithinBalance

\* A lock never takes more than what is not locked.
LEMMA LockKeepsBacked ==
    ASSUME Backed, NEW locker \in Lockers, NEW account \in Accounts, NEW amount \in Amounts,
           LockAmount(locker, account, amount)
    PROVE  Backed'
<1>1. amount \in Nat
    BY TokenAssumption
<1>2. lockedAmount' = [lockedAmount EXCEPT ![account] = lockedAmount[account] + amount]
    BY DEF LockAmount
<1>3. TokenTypeOK'
    BY <1>1, <1>2 DEF LockAmount, Backed, TokenTypeOK
<1>4. ASSUME ~restarted', NEW a \in Accounts
      PROVE  lockedAmount'[a] <= balances'[a]
    <2>1. lockedAmount[a] <= balances[a]
        BY <1>4 DEF LockAmount, Backed, LockedWithinBalance
    <2>2. amount <= balances[account] - lockedAmount[account]
        BY DEF LockAmount, UnlockedBalance
    <2>3. balances' = balances
        BY DEF LockAmount
    <2> QED
        BY <1>1, <1>2, <2>1, <2>2, <2>3 DEF Backed, TokenTypeOK
<1> QED
    BY <1>3, <1>4 DEF Backed, LockedWithinBalance

\* Moving lockEnd starts a new period over old locks, and remembers it, or leaves the
\* running one covered.
LEMMA SetLockEndKeepsBacked ==
    ASSUME Backed, NEW end \in LockEnds, SetLockEnd(end)
    PROVE  Backed'
<1>1. end \in Nat
    BY TokenAssumption
<1>2. TokenTypeOK'
    BY <1>1 DEF SetLockEnd, Backed, TokenTypeOK
<1>3. ASSUME IsLockPeriodActive', ~restarted', NEW a \in Accounts
      PROVE  lockedAmount'[a] <= balances'[a]
    <2>1. timestamp <= end /\ UNCHANGED <<balances, lockedAmount>> /\ ~restarted
        BY <1>3 DEF SetLockEnd, IsLockPeriodActive
    <2>2. CASE IsLockPeriodActive
        BY <2>1, <2>2 DEF Backed, LockedWithinBalance
    <2>3. CASE ~IsLockPeriodActive
        <3>1. ~(lockedAmount[a] > 0)
            BY <1>3, <2>1, <2>3 DEF SetLockEnd
        <3> QED
            BY <2>1, <3>1 DEF Backed, TokenTypeOK
    <2> QED
        BY <2>2, <2>3
<1> QED
    BY <1>2, <1>3 DEF Backed, LockedWithinBalance

\* Every step of the token keeps the invariant.
LEMMA TokenKeepsBacked ==
    ASSUME Backed, [TokenNext]_tokenVars
    PROVE  Backed'
<1>1. CASE \E from, to \in Accounts, amount \in Amounts : Transfer(from, to, amount)
    BY <1>1, TransferKeepsBacked
<1>2. CASE \E end \in LockEnds : SetLockEnd(end)
    BY <1>2, SetLockEndKeepsBacked
<1>3. CASE \E locker \in Lockers : AddLocker(locker) \/ RemoveLocker(locker)
    BY <1>3 DEF AddLocker, RemoveLocker, Backed, TokenTypeOK, LockedWithinBalance, IsLockPeriodActive
<1>4. CASE \E locker \in Lockers, a \in Accounts, amount \in Amounts :
               LockAmount(locker, a, amount)
    BY <1>4, LockKeepsBacked
<1>5. CASE TimePasses
    BY <1>5 DEF TimePasses, Backed, TokenTypeOK, LockedWithinBalance, IsLockPeriodActive
<1>6. CASE UNCHANGED tokenVars
    BY <1>6 DEF tokenVars, Backed, TokenTypeOK, LockedWithinBalance, IsLockPeriodActive
<1> QED
    BY <1>1, <1>2, <1>3, <1>4, <1>5, <1>6 DEF TokenNext

\* Initially nothing is locked.
LEMMA InitiallyBacked ==
    ASSUME TokenInit
    PROVE  Backed
<1>1. InitialSupply \in Nat
    BY TokenAssumption
<1>2. TokenTypeOK
    BY <1>1 DEF TokenInit, TokenTypeOK
<1>3. ASSUME NEW a \in Accounts
      PROVE  lockedAmount[a] <= balances[a]
    <2>1. lockedAmount[a] = 0 /\ balances[a] \in {0, InitialSupply}
        BY DEF TokenInit
    <2> QED
        BY <1>1, <2>1
<1> QED
    BY <1>2, <1>3 DEF Backed, LockedWithinBalance

\* A step of the distributor is, to the token, a transfer or nothing at all.
LEMMA StepKeepsBacked ==
    ASSUME Backed, [DistributorNext]_distributorVars
    PROVE  Backed'
<1>1. CASE \E claim \in Claims : Issue(claim)
    BY <1>1, TokenKeepsBacked DEF Issue
<1>2. CASE \E claim \in Claims : Claim(claim)
    <2>1. PICK claim \in Claims : Claim(claim)
        BY <1>2
    <2>2. claim.wallet \in Accounts /\ claim.amount \in Amounts /\ Distributor \in Accounts
        BY DistributorAssumption DEF Claims
    <2> QED
        BY <2>1, <2>2, TransferKeepsBacked DEF Claim
<1>3. CASE \E s \in Signers \cup {NoSigner} : SetSigner(s)
    BY <1>3, TokenKeepsBacked DEF SetSigner
<1>4. CASE TokenNext
    BY <1>4, TokenKeepsBacked
<1>5. CASE UNCHANGED distributorVars
    BY <1>5, TokenKeepsBacked DEF distributorVars
<1> QED
    BY <1>1, <1>2, <1>3, <1>4, <1>5 DEF DistributorNext

\* With the invariant go its parts.
LEMMA AlwaysBacked == DistributorSpec => []Backed
<1>1. DistributorInit => Backed
    BY InitiallyBacked DEF DistributorInit
<1>2. Backed /\ [DistributorNext]_distributorVars => Backed'
    BY StepKeepsBacked
<1> QED
    BY <1>1, <1>2, PTL DEF DistributorSpec

\* GovernanceTokenV2 and RewardDistributor: no balance, lock or time ever becomes
\* negative, by whatever transfers, locks and claims.
THEOREM TypeCorrect == DistributorSpec => []TokenTypeOK
<1>1. Backed => TokenTypeOK
    BY DEF Backed
<1> QED
    BY <1>1, AlwaysBacked, PTL

\* lockAmount, setLockEnd, _beforeTokenTransfer, claim: in every lock period that did
\* not begin over locks of an earlier one, each account holds what is locked of it.
THEOREM LockedStaysWithinBalance == DistributorSpec => []LockedWithinBalance
<1>1. Backed => LockedWithinBalance
    BY DEF Backed
<1> QED
    BY <1>1, AlwaysBacked, PTL

-----------------------------------------------------------------------------
\* A claim is paid for the next nonce of its wallet, whose history it ends.
LEMMA ClaimKeepsOrder ==
    ASSUME InOrder, NEW claim \in Claims, Claim(claim)
    PROVE  InOrder'
<1> DEFINE w == claim.wallet
<1>1. w \in Wallets /\ claim.nonce = accountNonces[w] /\ Signed(claim)
    BY DEF Claims, Claim, NonceMatches
<1>2. /\ accountNonces' = [accountNonces EXCEPT ![w] = accountNonces[w] + 1]
      /\ paid' = [paid EXCEPT ![w] = Append(paid[w], claim)]
      /\ issued' = issued
    BY DEF Claim
<1>3. ClaimTypes'
    BY <1>1, <1>2 DEF InOrder, ClaimTypes
<1>4. ASSUME NEW v \in Wallets
      PROVE  /\ Len(paid'[v]) = accountNonces'[v]
             /\ \A i \in DOMAIN paid'[v] :
                    /\ Signed(paid'[v][i])
                    /\ paid'[v][i].wallet = v
                    /\ paid'[v][i].nonce = i - 1
    <2>1. paid[v] \in Seq(Claims) /\ accountNonces[v] \in Nat
        BY DEF InOrder, ClaimTypes
    <2>2. /\ Len(paid[v]) = accountNonces[v]
          /\ \A i \in DOMAIN paid[v] :
                 /\ Signed(paid[v][i])
                 /\ paid[v][i].wallet = v
                 /\ paid[v][i].nonce = i - 1
        BY DEF InOrder, PaidInOrder
    <2>3. CASE v # w
        <3>1. paid'[v] = paid[v]
            BY <1>2, <2>3 DEF InOrder, ClaimTypes
        <3>2. accountNonces'[v] = accountNonces[v]
            BY <1>2, <2>3 DEF InOrder, ClaimTypes
        <3> QED
            BY <2>2, <3>1, <3>2
    <2>4. CASE v = w
        <3>1. paid'[v] = Append(paid[v], claim) /\ accountNonces'[v] = accountNonces[v] + 1
            BY <1>1, <1>2, <2>4 DEF InOrder, ClaimTypes
        <3>2. Len(paid'[v]) = Len(paid[v]) + 1
            BY <2>1, <3>1
        <3>3. ASSUME NEW i \in DOMAIN paid'[v]
              PROVE  /\ Signed(paid'[v][i])
                     /\ paid'[v][i].wallet = v
                     /\ paid'[v][i].nonce = i - 1
            <4>1. CASE i \in DOMAIN paid[v]
                BY <2>1, <2>2, <3>1, <4>1
            <4>2. CASE i = Len(paid[v]) + 1
                <5>1. paid'[v][i] = claim
                    BY <2>1, <3>1, <4>2
                <5> QED
                    BY <1>1, <2>1, <2>2, <2>4, <4>2, <5>1
            <4> QED
                BY <2>1, <3>1, <4>1, <4>2
        <3> QED
            BY <2>1, <2>2, <3>1, <3>2, <3>3
    <2> QED
        BY <2>3, <2>4
<1> QED
    BY <1>2, <1>3, <1>4 DEF InOrder, PaidInOrder, Signed

\* Only a claim touches nonces and payments; claims issued stay issued.
LEMMA StepKeepsOrder ==
    ASSUME InOrder, [DistributorNext]_distributorVars
    PROVE  InOrder'
<1>1. CASE \E claim \in Claims : Issue(claim)
    <2>1. issued \subseteq issued' /\ issued' \subseteq Claims /\ UNCHANGED <<accountNonces, paid>>
        BY <1>1 DEF Issue, InOrder, ClaimTypes
    <2> QED
        BY <2>1 DEF InOrder, ClaimTypes, PaidInOrder, Signed
<1>2. CASE \E claim \in Claims : Claim(claim)
    BY <1>2, ClaimKeepsOrder
<1>3. CASE UNCHANGED <<accountNonces, issued, paid>>
    BY <1>3 DEF InOrder, ClaimTypes, PaidInOrder, Signed
<1>4. CASE \E s \in Signers \cup {NoSigner} : SetSigner(s)
    BY <1>3, <1>4 DEF SetSigner
<1>5. CASE TokenNext /\ UNCHANGED claimVars
    BY <1>3, <1>5 DEF claimVars
<1>6. CASE UNCHANGED distributorVars
    BY <1>3, <1>6 DEF distributorVars, claimVars
<1> QED
    BY <1>1, <1>2, <1>4, <1>5, <1>6 DEF DistributorNext

\* claim, setSigner: whoever submits which signed claims in whatever order and however
\* often, a wallet is paid once for each nonce, and in the order of the nonces; so it
\* is while the zero address is the signer.
THEOREM ClaimsPaidInOrder == DistributorSpec => []PaidInOrder
<1>1. DistributorInit => InOrder
    BY DEF DistributorInit, InOrder, ClaimTypes, PaidInOrder
<1>2. InOrder /\ [DistributorNext]_distributorVars => InOrder'
    BY StepKeepsOrder
<1>3. InOrder => PaidInOrder
    BY DEF InOrder
<1> QED
    BY <1>1, <1>2, <1>3, PTL DEF DistributorSpec
=============================================================================
