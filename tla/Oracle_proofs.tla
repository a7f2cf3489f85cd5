---------------------------- MODULE Oracle_proofs ----------------------------
(***************************************************************************)
(* Proofs about the two contracts prices come through.  Of the aggregator, *)
(* for any oracles, answers, payments, timeouts, terms and numbers of      *)
(* rounds: what the rounds answer, who may answer them, and what that is   *)
(* paid with.  Of the adapter, for every set of assets, sources, answers,  *)
(* submitted values, periods and blocks: its variables keep their types,   *)
(* and its locks and overrides implement the timers of ValueGate.          *)
(***************************************************************************)
EXTENDS FluxAggregator, OracleAdapter, Sums_proofs, SequenceTheorems

-----------------------------------------------------------------------------
\* The aggregator.

\* The values the variables take.
RoundType == [answer : 0..Max(SubmissionValues), updated : BOOLEAN, answeredInRound : Nat]
DetailsType == [submissions : Seq(SubmissionValues), max : Nat, min : Nat, timeout : Nat, payment : Nat]
OracleType ==
    [withdrawable : Nat, startingRound : 0 .. MaxRound + 1, endingRound : 0..RoundMax,
     lastReportedRound : Nat, lastStartedRound : Nat,
     admin : Admins \cup {NoAdmin}, pendingAdmin : Admins \cup {NoAdmin}]

FluxTypes ==
    /\ reportingRoundId \in Rounds /\ latestRoundId \in 0..reportingRoundId
    /\ age \in 0..OldAge
    /\ rounds \in [Rounds -> RoundType]
    /\ details \in [Rounds -> DetailsType]
    /\ oracles \in [Oracles -> OracleType]
    /\ requesters \in [Requesters -> [authorized : BOOLEAN, delay : Nat, lastStartedRound : Nat]]
    /\ futureRounds \in [payment : Payments, minSubmissions : Nat, maxSubmissions : Nat,
                         restartDelay : Nat, timeout : Timeouts]
    /\ recordedFunds \in [available : Nat, allocated : Nat]
    /\ linkBalance \in 0..MaxLink

\* Of details with n rounds started: a round takes fewer submissions than its maximum, and
\* none before it starts.
DetailsOK(ds, n) ==
    \A r \in Rounds :
        /\ r > n => ds[r].max = 0
        /\ ds[r].max = 0 => ds[r].submissions = <<>>
        /\ ds[r].max > 0 => Len(ds[r].submissions) < ds[r].max /\ ds[r].payment \in Payments
        /\ ds[r].min <= ds[r].max

\* Of n rounds: only the last may be without an answer, and an answer is that of the round
\* it names.
AnswersOK(rs, n) ==
    /\ rs[0].updated
    /\ \A r \in Rounds : (r < n => rs[r].updated) /\ (r > n => ~rs[r].updated)
    /\ \A r \in Rounds : ~rs[r].updated => rs[r].answeredInRound = 0
    /\ \A r \in Rounds : rs[r].updated =>
           /\ rs[r].answeredInRound <= r
           /\ rs[r].answer = rs[rs[r].answeredInRound].answer

DetailsInv == DetailsOK(details, reportingRoundId)
AnswersInv == AnswersOK(rounds, reportingRoundId) /\ rounds[latestRoundId].updated

\* Who is enabled joined by the next round; nobody has reported or started a later round
\* than the reporting one, and no two oracles started the same.
OraclesInv ==
    /\ \A o \in Oracles :
           /\ oracles[o].startingRound <= reportingRoundId + 1
           /\ oracles[o].endingRound <= reportingRoundId + 1 \/ OracleEnabled(o)
           /\ OracleEnabled(o) => oracles[o].startingRound # 0
           /\ oracles[o].lastReportedRound <= reportingRoundId
           /\ oracles[o].lastStartedRound <= reportingRoundId
    /\ \A o, p \in Oracles :
           oracles[o].lastStartedRound = oracles[p].lastStartedRound =>
               o = p \/ oracles[o].lastStartedRound = 0

\* There are oracles for the rounds to come, and they do not all have to wait.
TermsInv ==
    /\ futureRounds.minSubmissions <= futureRounds.maxSubmissions
    /\ futureRounds.maxSubmissions <= Cardinality(EnabledOracles)
    /\ EnabledOracles # {} => futureRounds.restartDelay < Cardinality(EnabledOracles)

\* Those who may still answer the reporting round, now or after they have waited for the
\* next one.
MayStillAnswer ==
    LET r == reportingRoundId
    IN  {o \in Oracles :
            /\ oracles[o].startingRound # 0 /\ oracles[o].lastReportedRound < r
            /\ oracles[o].startingRound <= r + 1 /\ r <= oracles[o].endingRound}

FinishInv ==
    reportingRoundId > 0 /\ details[reportingRoundId].max > 0 =>
        Len(details[reportingRoundId].submissions) + Cardinality(MayStillAnswer)
            >= details[reportingRoundId].min

FluxInv ==
    /\ FluxTypes /\ DetailsInv /\ AnswersInv /\ OraclesInv /\ TermsInv /\ FinishInv
    /\ FundsAddUp /\ OneSubmissionEach

-----------------------------------------------------------------------------
\* A finite set of integers has a greatest element.
LEMMA MaxBounds ==
    ASSUME NEW S, IsFiniteSet(S), S \subseteq Int, S # {}
    PROVE  Max(S) \in S /\ \A x \in S : x <= Max(S)
<1> DEFINE G == {T \in SUBSET S : T # {} => \E m \in T : \A x \in T : m >= x}
<1>1. ASSUME NEW T \in SUBSET S, \A U \in SUBSET T : U # T => U \in G
      PROVE  T \in G
    <2> SUFFICES ASSUME NEW y \in T PROVE \E m \in T : \A x \in T : m >= x
        OBVIOUS
    <2>1. T \ {y} \in G
        BY <1>1
    <2>2. CASE T \ {y} = {}
        BY <2>2
    <2>3. CASE T \ {y} # {}
        <3> PICK m \in T \ {y} : \A x \in T \ {y} : m >= x
            BY <2>1, <2>3
        <3>1. m \in Int /\ y \in Int /\ \A x \in T : x \in Int
            OBVIOUS
        <3>2. CASE m >= y
            BY <3>1, <3>2
        <3>3. CASE ~(m >= y)
            BY <3>1, <3>3
        <3> QED
            BY <3>2, <3>3
    <2> QED
        BY <2>2, <2>3
<1>2. SUBSET S \subseteq G
    <2> HIDE DEF G
    <2> QED
        BY <1>1, SubsetInduction
<1>3. \E m \in S : \A x \in S : m >= x
    BY <1>2
<1> QED
    BY <1>3 DEF Max

\* What the constants give.
LEMMA Bounds ==
    /\ SubmissionValues \subseteq 0..Max(SubmissionValues) /\ Max(SubmissionValues) \in Nat
    /\ Payments \subseteq 0..Max(Payments) /\ Max(Payments) \in Nat
    /\ Timeouts \subseteq Nat /\ OldAge \in Nat
    /\ MaxRound \in Nat /\ Rounds \subseteq Nat
    /\ IsFiniteSet(Oracles)
<1>1. /\ SubmissionValues \subseteq Nat /\ Payments \subseteq Nat /\ Timeouts \subseteq Nat
      /\ SubmissionValues # {} /\ Payments # {} /\ Timeouts # {} /\ MaxRound \in Nat
      /\ IsFiniteSet(SubmissionValues) /\ IsFiniteSet(Payments) /\ IsFiniteSet(Timeouts) /\ IsFiniteSet(Oracles)
    BY FluxAssumption
<1>2. ASSUME NEW S, S \subseteq Nat, S # {}, IsFiniteSet(S)
      PROVE  S \subseteq 0..Max(S) /\ Max(S) \in Nat
    <2>1. S \subseteq Int
        BY <1>2
    <2>2. Max(S) \in S /\ \A x \in S : x <= Max(S)
        BY <1>2, <2>1, MaxBounds
    <2>3. Max(S) \in Nat /\ \A x \in S : x \in Nat /\ x <= Max(S)
        BY <1>2, <2>2
    <2> QED
        BY <2>3
<1>3. Max(SubmissionValues) \in Nat /\ Max(Payments) \in Nat /\ Max(Timeouts) \in Nat
    BY <1>1, <1>2
<1>4. SubmissionValues \subseteq 0..Max(SubmissionValues) /\ Payments \subseteq 0..Max(Payments)
    BY <1>1, <1>2
<1> QED
    BY <1>1, <1>3, <1>4 DEF OldAge, Rounds

\* A submission makes the sequence one longer.
LEMMA SubmissionAdded ==
    ASSUME NEW S, NEW sorted \in Seq(S), NEW answer \in S
    PROVE  /\ WithSubmission(sorted, answer) \in Seq(S)
           /\ Len(WithSubmission(sorted, answer)) = Len(sorted) + 1
<1> DEFINE below == {i \in DOMAIN sorted : sorted[i] < answer}
           k == Cardinality(below)
           before == SubSeq(sorted, 1, k)
           after == SubSeq(sorted, k + 1, Len(sorted))
<1>1. Len(sorted) \in Nat /\ DOMAIN sorted = 1..Len(sorted)
    BY LenProperties
<1>2. k \in Nat /\ k <= Len(sorted)
    <2>1. IsFiniteSet(1..Len(sorted)) /\ Cardinality(1..Len(sorted)) = Len(sorted)
        BY <1>1, FS_Interval, SMTT(60)
    <2>2. below \in SUBSET (1..Len(sorted))
        BY <1>1
    <2>3. IsFiniteSet(below) /\ k <= Len(sorted)
        BY <2>1, <2>2, FS_Subset
    <2> QED
        BY <2>3, FS_CardinalityType
<1>3. WithSubmission(sorted, answer) = before \o <<answer>> \o after
    <2>1. (k + 1) - 1 = k
        BY <1>2
    <2>2. WithSubmission(sorted, answer)
              = SubSeq(sorted, 1, (k + 1) - 1) \o <<answer>> \o SubSeq(sorted, k + 1, Len(sorted))
        BY DEF WithSubmission, InsertAt
    <2> HIDE DEF k
    <2> QED
        BY <2>1, <2>2
<1> DEFINE n == Len(sorted)
<1> HIDE DEF k, n
<1>4. before \in Seq(S) /\ Len(before) = k
    <2>1. \A i \in 1..k : sorted[i] \in S
        BY <1>1, <1>2, ElementOfSeq
    <2>2. /\ SubSeq(sorted, 1, k) \in Seq(S)
          /\ Len(SubSeq(sorted, 1, k)) = IF 1 <= k THEN k - 1 + 1 ELSE 0
        BY <1>2, <2>1, SubSeqProperties
    <2> QED
        BY <1>2, <2>2
<1>5. after \in Seq(S) /\ Len(after) = n - k
    <2>1. n \in Nat /\ k \in Nat /\ k <= n
        BY <1>1, <1>2 DEF n
    <2>2. \A i \in k + 1 .. n : sorted[i] \in S
        <3>1. \A i \in k + 1 .. n : i \in 1..n
            BY <2>1
        <3> QED
            BY <3>1, ElementOfSeq DEF n
    <2>3. /\ SubSeq(sorted, k + 1, n) \in Seq(S)
          /\ Len(SubSeq(sorted, k + 1, n)) = IF k + 1 <= n THEN n - (k + 1) + 1 ELSE 0
        <3>1. k + 1 \in Int /\ n \in Int
            BY <2>1
        <3> QED
            BY <2>2, <3>1, SubSeqProperties
    <2>4. (IF k + 1 <= n THEN n - (k + 1) + 1 ELSE 0) = n - k
        BY <2>1
    <2>5. after = SubSeq(sorted, k + 1, n)
        BY DEF n
    <2> QED
        BY <2>3, <2>4, <2>5, Zenon
<1>6. <<answer>> \in Seq(S) /\ Len(<<answer>>) = 1
    OBVIOUS
<1> HIDE DEF before, after
<1> DEFINE start == before \o <<answer>>
<1>7. start \in Seq(S) /\ Len(start) = k + 1
    BY <1>2, <1>4, <1>6, ConcatProperties
<1>8. WithSubmission(sorted, answer) = start \o after
    BY <1>3
<1> HIDE DEF start
<1>9. start \o after \in Seq(S) /\ Len(start \o after) = Len(start) + Len(after)
    BY <1>5, <1>7, ConcatProperties
<1>10. Len(start) + Len(after) = n + 1
    <2>1. n \in Nat
        BY <1>1 DEF n
    <2> QED
        BY <1>2, <1>5, <1>7, <2>1
<1> QED
    BY <1>8, <1>9, <1>10, Zenon DEF n

\* The median of submissions is within their bounds.
LEMMA MedianType ==
    ASSUME NEW n \in Nat, NEW sorted \in Seq(0..n), Len(sorted) > 0
    PROVE  Median(sorted) \in 0..n
<1> DEFINE half == Len(sorted) \div 2
<1>1. Len(sorted) \in Nat /\ \A i \in 1..Len(sorted) : sorted[i] \in 0..n
    BY LenProperties, ElementOfSeq
<1>2. half \in Nat /\ (Len(sorted) % 2 = 1 => half + 1 \in 1..Len(sorted))
      /\ (Len(sorted) % 2 # 1 => half \in 1..Len(sorted) /\ half + 1 \in 1..Len(sorted))
    BY <1>1
<1>3. Median(sorted) = IF Len(sorted) % 2 = 1 THEN sorted[half + 1]
                       ELSE (sorted[half] + sorted[half + 1]) \div 2
    BY DEF Median
<1>4. \A a, b \in 0..n : (a + b) \div 2 \in 0..n
    OBVIOUS
<1> HIDE DEF half
<1> QED
    BY <1>1, <1>2, <1>3, <1>4

\* The rounds rs once round r is given the answer a of round k.
WithAnswer(rs, r, a, k) ==
    [rs EXCEPT ![r].answer = a, ![r].answeredInRound = k, ![r].updated = TRUE]

\* What an answer changes.
LEMMA RoundReplaced ==
    ASSUME NEW rs \in [Rounds -> RoundType], NEW r \in Rounds,
           NEW a \in 0..Max(SubmissionValues), NEW k \in Nat
    PROVE  /\ WithAnswer(rs, r, a, k) \in [Rounds -> RoundType]
           /\ WithAnswer(rs, r, a, k)[r].answer = a
           /\ WithAnswer(rs, r, a, k)[r].answeredInRound = k
           /\ WithAnswer(rs, r, a, k)[r].updated
           /\ \A q \in Rounds \ {r} : WithAnswer(rs, r, a, k)[q] = rs[q]
<1> DEFINE old == rs[r]
           row == [old EXCEPT !.answer = a, !.answeredInRound = k, !.updated = TRUE]
<1>1. old \in RoundType
    OBVIOUS
<1> HIDE DEF old
<1>2. row \in RoundType /\ row.answer = a /\ row.answeredInRound = k /\ row.updated
    BY <1>1 DEF RoundType
<1> DEFINE new == WithAnswer(rs, r, a, k)
<1>3. new = [rs EXCEPT ![r] = row]
    BY DEF old, WithAnswer
<1> HIDE DEF row, new
<1>4. new \in [Rounds -> RoundType]
    BY <1>2, <1>3
<1>5. new[r] = row /\ \A q \in Rounds \ {r} : new[q] = rs[q]
    BY <1>2, <1>3
<1> QED
    BY <1>2, <1>4, <1>5 DEF new

-----------------------------------------------------------------------------
\* initializeNewRound: the next round begins with no submission on the terms set, the one
\* before it has an answer.
LEMMA RoundStarted ==
    ASSUME FluxTypes, DetailsInv, AnswersInv, TermsInv,
           NEW r \in Rounds, NewRound(r), Supersedable(reportingRoundId)
    PROVE  /\ RoundsWithNew(r) \in [Rounds -> RoundType]
           /\ AnswersOK(RoundsWithNew(r), r)
           /\ RoundsWithNew(r)[latestRoundId].updated
           /\ DetailsWithNew(r) \in [Rounds -> DetailsType]
           /\ DetailsOK(DetailsWithNew(r), r)
           /\ DetailsWithNew(r)[r]
                  = [submissions |-> <<>>, max |-> futureRounds.maxSubmissions,
                     min |-> futureRounds.minSubmissions, timeout |-> futureRounds.timeout,
                     payment |-> futureRounds.payment]
           /\ \A q \in Rounds \ {r} :
                  DetailsWithNew(r)[q].submissions \in {details[q].submissions, <<>>}
<1> DEFINE n == reportingRoundId
           fresh == [submissions |-> <<>>, max |-> futureRounds.maxSubmissions,
                     min |-> futureRounds.minSubmissions, timeout |-> futureRounds.timeout,
                     payment |-> futureRounds.payment]
           ds == DetailsWithNew(r)
           rs == RoundsWithNew(r)
<1>1. n \in Rounds /\ n \in Nat /\ r = n + 1 /\ r - 1 = n /\ MaxRound \in Nat
      /\ \A q \in Rounds : q \in Nat
    BY Bounds DEF FluxTypes, NewRound, Rounds
<1>2. fresh \in DetailsType /\ fresh.min <= fresh.max /\ Len(fresh.submissions) = 0
      /\ fresh.payment \in Payments /\ NoDetails \in DetailsType
    <2>1. <<>> \in Seq(SubmissionValues) /\ Len(<<>>) = 0
        BY EmptySeq
    <2>2. Payments \subseteq Nat /\ Timeouts \subseteq Nat
        BY Bounds
    <2>3. /\ futureRounds.maxSubmissions \in Nat /\ futureRounds.minSubmissions \in Nat
          /\ futureRounds.timeout \in Nat /\ futureRounds.payment \in Nat
          /\ futureRounds.payment \in Payments
        BY <2>2 DEF FluxTypes
    <2>4. futureRounds.minSubmissions <= futureRounds.maxSubmissions
        BY DEF TermsInv
    <2> QED
        BY <2>1, <2>3, <2>4 DEF DetailsType, NoDetails
<1>3. ds = [q \in Rounds |-> IF q = r THEN fresh
                             ELSE IF q = r - 1 /\ TimedOut(q) THEN NoDetails ELSE details[q]]
    BY DEF DetailsWithNew
<1> HIDE DEF fresh
<1>4. ds \in [Rounds -> DetailsType]
    BY <1>2, <1>3 DEF FluxTypes
<1>5. DetailsOK(ds, r)
    <2> SUFFICES ASSUME NEW q \in Rounds
                 PROVE  /\ q > r => ds[q].max = 0
                        /\ ds[q].max = 0 => ds[q].submissions = <<>>
                        /\ ds[q].max > 0 => Len(ds[q].submissions) < ds[q].max /\ ds[q].payment \in Payments
                        /\ ds[q].min <= ds[q].max
        BY DEF DetailsOK
    <2>1. CASE q = r
        <3>1. ds[q] = fresh /\ q \in Nat
            BY <1>1, <1>3, <2>1
        <3>2. fresh.max \in Nat /\ fresh.submissions = <<>>
            BY <1>2 DEF fresh, DetailsType
        <3> QED
            BY <1>1, <1>2, <2>1, <3>1, <3>2
    <2>2. CASE q # r /\ q = r - 1 /\ TimedOut(q)
        <3>1. ds[q] = NoDetails
            BY <1>3, <2>2
        <3>2. NoDetails.max = 0 /\ NoDetails.min = 0 /\ NoDetails.submissions = <<>>
            BY DEF NoDetails
        <3> QED
            BY <3>1, <3>2
    <2>3. CASE q # r /\ ~(q = r - 1 /\ TimedOut(q))
        <3>1. ds[q] = details[q]
            BY <1>3, <2>3
        <3>2. q > r => q > n
            BY <1>1
        <3> QED
            BY <3>1, <3>2 DEF DetailsInv, DetailsOK
    <2> QED
        BY <2>1, <2>2, <2>3
<1>6. \A q \in Rounds \ {r} : ds[q].submissions \in {details[q].submissions, <<>>}
    BY <1>3 DEF NoDetails
<1>7. ds[r] = fresh
    BY <1>3
<1>8. rs \in [Rounds -> RoundType] /\ AnswersOK(rs, r) /\ rs[latestRoundId].updated
    <2>1. CASE TimedOut(n)
        <3>1. n \in 1..n /\ n - 1 \in Rounds
            BY <1>1, <2>1 DEF TimedOut, Started, Rounds
        <3>2. rs = [rounds EXCEPT ![n].answer = rounds[n - 1].answer,
                                  ![n].answeredInRound = rounds[n - 1].answeredInRound,
                                  ![n].updated = TRUE]
            BY <1>1, <2>1, Zenon DEF RoundsWithNew, CarriedRound
        <3>3. /\ rs \in [Rounds -> RoundType]
              /\ rs[n].answer = rounds[n - 1].answer
              /\ rs[n].answeredInRound = rounds[n - 1].answeredInRound
              /\ rs[n].updated
              /\ \A q \in Rounds \ {n} : rs[q] = rounds[q]
            <4> DEFINE a == rounds[n - 1].answer
                       k == rounds[n - 1].answeredInRound
            <4>1. a \in 0..Max(SubmissionValues) /\ k \in Nat
                BY <3>1 DEF FluxTypes, RoundType
            <4>2. rounds \in [Rounds -> RoundType]
                BY DEF FluxTypes
            <4> HIDE DEF rs, a, k
            <4>3. rs = WithAnswer(rounds, n, a, k)
                BY <3>2 DEF a, k, WithAnswer
            <4> HIDE DEF n
            <4>4. /\ rs \in [Rounds -> RoundType]
                  /\ rs[n].answer = a /\ rs[n].answeredInRound = k /\ rs[n].updated
                  /\ \A q \in Rounds \ {n} : rs[q] = rounds[q]
                BY <1>1, <4>1, <4>2, <4>3, RoundReplaced
            <4> QED
                BY <4>4 DEF a, k
        <3> HIDE DEF rs
        <3>5. /\ rounds[n - 1].updated /\ rounds[n - 1].answeredInRound <= n - 1
              /\ rounds[n - 1].answeredInRound \in Nat
              /\ rounds[n - 1].answer = rounds[rounds[n - 1].answeredInRound].answer
            <4>1. n - 1 < n
                BY <1>1
            <4>2. rounds[n - 1].answeredInRound \in Nat
                BY <3>1 DEF FluxTypes, RoundType
            <4>3. rounds[n - 1].updated
                BY <3>1, <4>1 DEF AnswersInv, AnswersOK
            <4> QED
                BY <3>1, <4>2, <4>3 DEF AnswersInv, AnswersOK
        <3>6. AnswersOK(rs, r)
            <4>1. rs[0].updated
                BY <1>1, <3>1, <3>3 DEF AnswersInv, AnswersOK, Rounds
            <4>2. ASSUME NEW q \in Rounds
                  PROVE  (q < r => rs[q].updated) /\ (q > r => ~rs[q].updated)
                BY <1>1, <3>3 DEF AnswersInv, AnswersOK
            <4>3. ASSUME NEW q \in Rounds, rs[q].updated
                  PROVE  rs[q].answeredInRound <= q /\ rs[q].answer = rs[rs[q].answeredInRound].answer
                <5>1. CASE q = n
                    <6> DEFINE k == rounds[n - 1].answeredInRound
                    <6>1. k \in Rounds /\ k # n /\ k <= n
                        BY <1>1, <3>5 DEF Rounds
                    <6>2. rs[k].answer = rounds[k].answer
                        BY <3>3, <6>1
                    <6> QED
                        BY <3>3, <3>5, <5>1, <6>1, <6>2
                <5>2. CASE q # n
                    <6> DEFINE k == rounds[q].answeredInRound
                    <6>1. rs[q] = rounds[q] /\ rounds[q].updated
                        BY <3>3, <4>3, <5>2
                    <6>2. k <= q /\ k \in Nat /\ rounds[q].answer = rounds[k].answer
                        BY <6>1 DEF AnswersInv, AnswersOK, FluxTypes, RoundType
                    <6>3. q < n
                        <7>1. ~(q > n)
                            BY <6>1 DEF AnswersInv, AnswersOK
                        <7> QED
                            BY <1>1, <5>2, <7>1
                    <6>4. k \in Rounds \ {n}
                        BY <1>1, <6>2, <6>3 DEF Rounds
                    <6>5. rs[k].answer = rounds[k].answer
                        BY <3>3, <6>4
                    <6> QED
                        BY <6>1, <6>2, <6>5
                <5> QED
                    BY <5>1, <5>2
            <4>4. \A q \in Rounds : ~rs[q].updated => rs[q].answeredInRound = 0
                BY <3>3 DEF AnswersInv, AnswersOK
            <4> QED
                BY <4>1, <4>2, <4>3, <4>4 DEF AnswersOK
        <3>7. rs[latestRoundId].updated
            <4>1. latestRoundId \in Rounds
                BY <1>1 DEF FluxTypes, Rounds
            <4> QED
                BY <3>3, <4>1 DEF AnswersInv
        <3> QED
            BY <3>3, <3>6, <3>7
    <2>2. CASE ~TimedOut(n)
        <3>1. rs = rounds
            BY <1>1, <2>2 DEF RoundsWithNew
        <3>2. rounds[n].updated
            BY <2>2 DEF Supersedable
        <3> HIDE DEF rs
        <3>3. AnswersOK(rounds, r)
            <4>1. ASSUME NEW q \in Rounds
                  PROVE  (q < r => rounds[q].updated) /\ (q > r => ~rounds[q].updated)
                BY <1>1, <3>2 DEF AnswersInv, AnswersOK
            <4> QED
                BY <4>1 DEF AnswersInv, AnswersOK
        <3> QED
            BY <3>1, <3>3 DEF FluxTypes, AnswersInv
    <2> QED
        BY <2>1, <2>2
<1> QED
    BY <1>4, <1>5, <1>6, <1>7, <1>8 DEF fresh

-----------------------------------------------------------------------------
\* What submit makes of the tables, once round r has the submissions s.
RoundsAfter(rs, ds, r, s) == IF Len(s) >= ds[r].min THEN AnsweredRound(rs, r, s) ELSE rs
DetailsAfter(ds, r, s) ==
    [ds EXCEPT ![r] = IF Len(s) >= @.max THEN NoDetails ELSE [@ EXCEPT !.submissions = s]]

\* A round takes one submission more and may get its answer, whether it is the last round
\* or, while that has no answer, the one before it.
LEMMA SubmissionRecorded ==
    ASSUME NEW n \in Rounds, NEW r \in 1..n, NEW answer \in SubmissionValues,
           NEW rs \in [Rounds -> RoundType], NEW ds \in [Rounds -> DetailsType],
           AnswersOK(rs, n), DetailsOK(ds, n), ds[r].max > 0,
           r = n \/ (r + 1 = n /\ ~rs[n].updated),
           NEW s, s = WithSubmission(ds[r].submissions, answer)
    PROVE  /\ RoundsAfter(rs, ds, r, s) \in [Rounds -> RoundType]
           /\ AnswersOK(RoundsAfter(rs, ds, r, s), n)
           /\ Len(s) >= ds[r].min => RoundsAfter(rs, ds, r, s)[r].updated
           /\ \A q \in Rounds : rs[q].updated => RoundsAfter(rs, ds, r, s)[q].updated
           /\ DetailsAfter(ds, r, s) \in [Rounds -> DetailsType]
           /\ DetailsOK(DetailsAfter(ds, r, s), n)
           /\ \A q \in Rounds \ {r} : DetailsAfter(ds, r, s)[q] = ds[q]
           /\ Len(DetailsAfter(ds, r, s)[r].submissions) <= Len(ds[r].submissions) + 1
           /\ DetailsAfter(ds, r, s)[r].max > 0 =>
                  /\ Len(DetailsAfter(ds, r, s)[r].submissions) = Len(ds[r].submissions) + 1
                  /\ DetailsAfter(ds, r, s)[r].min = ds[r].min
<1> DEFINE old == ds[r]
           row == IF Len(s) >= old.max THEN NoDetails ELSE [old EXCEPT !.submissions = s]
           new == DetailsAfter(ds, r, s)
           ts == RoundsAfter(rs, ds, r, s)
<1>1. r \in Rounds /\ r \in Nat /\ r > 0 /\ n \in Nat /\ 0 \in Rounds /\ \A q \in Rounds : q \in Nat
    BY Bounds DEF Rounds
<1>2. /\ old \in DetailsType /\ old.submissions \in Seq(SubmissionValues) /\ old.max \in Nat /\ old.max > 0
      /\ old.min \in Nat /\ old.min <= old.max /\ Len(old.submissions) < old.max
      /\ old.payment \in Payments /\ Len(old.submissions) \in Nat
    BY <1>1, LenProperties DEF DetailsType, DetailsOK
<1>3. s \in Seq(SubmissionValues) /\ Len(s) = Len(old.submissions) + 1
    BY <1>2, SubmissionAdded
<1>4. new = [ds EXCEPT ![r] = row]
    BY DEF DetailsAfter
<1> HIDE DEF old
<1>5. /\ NoDetails \in DetailsType /\ NoDetails.max = 0 /\ NoDetails.submissions = <<>>
      /\ Len(NoDetails.submissions) = 0 /\ NoDetails.min = 0
    BY DEF NoDetails, DetailsType
<1>6. /\ row \in DetailsType
      /\ Len(row.submissions) <= Len(old.submissions) + 1
      /\ row.max > 0 => /\ Len(row.submissions) = Len(old.submissions) + 1
                        /\ row.min = old.min
                        /\ Len(row.submissions) < row.max /\ row.payment \in Payments
      /\ row.max = 0 => row.submissions = <<>>
      /\ row.min <= row.max
    <2>1. CASE Len(s) >= old.max
        <3>1. row = NoDetails
            BY <2>1
        <3> HIDE DEF row
        <3> QED
            BY <1>2, <1>5, <3>1
    <2>2. CASE ~(Len(s) >= old.max)
        <3>1. row = [old EXCEPT !.submissions = s]
            BY <2>2
        <3> HIDE DEF row
        <3>2. row \in DetailsType /\ row.submissions = s /\ row.max = old.max /\ row.min = old.min
              /\ row.payment = old.payment
            BY <1>2, <1>3, <3>1 DEF DetailsType
        <3> QED
            BY <1>2, <1>3, <2>2, <3>2
    <2> QED
        BY <2>1, <2>2
<1> HIDE DEF row, new
<1>7. new \in [Rounds -> DetailsType]
    BY <1>1, <1>4, <1>6
<1>8. new[r] = row /\ \A q \in Rounds \ {r} : new[q] = ds[q]
    BY <1>1, <1>4
<1>9. DetailsOK(new, n)
    <2> SUFFICES ASSUME NEW q \in Rounds
                 PROVE  /\ q > n => new[q].max = 0
                        /\ new[q].max = 0 => new[q].submissions = <<>>
                        /\ new[q].max > 0 => Len(new[q].submissions) < new[q].max /\ new[q].payment \in Payments
                        /\ new[q].min <= new[q].max
        BY DEF DetailsOK
    <2>1. CASE q = r
        <3>1. ~(q > n)
            BY <1>1, <2>1
        <3> QED
            BY <1>6, <1>8, <2>1, <3>1
    <2>2. CASE q # r
        BY <1>8, <2>2 DEF DetailsOK
    <2> QED
        BY <2>1, <2>2
<1>10. CASE ~(Len(s) >= ds[r].min)
    <2>1. ts = rs
        BY <1>10 DEF RoundsAfter
    <2> QED
        BY <1>6, <1>7, <1>8, <1>9, <1>10, <2>1 DEF new, ts, old
<1>11. CASE Len(s) >= ds[r].min
    <2> DEFINE a == Median(s)
    <2>1. a \in 0..Max(SubmissionValues)
        <3>1. Len(s) > 0
            BY <1>2, <1>3
        <3>2. s \in Seq(0..Max(SubmissionValues))
            <4>1. SubmissionValues \subseteq 0..Max(SubmissionValues)
                BY Bounds
            <4> QED
                BY <1>3, <4>1, SeqMonotonic
        <3> QED
            BY <3>1, <3>2, Bounds, MedianType
    <2> HIDE DEF a
    <2>2. ts = WithAnswer(rs, r, a, r)
        BY <1>11 DEF RoundsAfter, AnsweredRound, WithAnswer, a
    <2> HIDE DEF ts
    <2>3. /\ ts \in [Rounds -> RoundType]
          /\ ts[r].answer = a /\ ts[r].answeredInRound = r /\ ts[r].updated
          /\ \A q \in Rounds \ {r} : ts[q] = rs[q]
        BY <1>1, <2>1, <2>2, RoundReplaced
    <2>4. AnswersOK(ts, n)
        <3>1. ts[0].updated
            BY <1>1, <2>3 DEF AnswersOK
        <3>2. ASSUME NEW q \in Rounds
              PROVE  (q < n => ts[q].updated) /\ (q > n => ~ts[q].updated)
            BY <1>1, <2>3 DEF AnswersOK
        <3>3. ASSUME NEW q \in Rounds, ts[q].updated
              PROVE  ts[q].answeredInRound <= q /\ ts[q].answer = ts[ts[q].answeredInRound].answer
            <4>1. CASE q = r
                BY <1>1, <2>3, <4>1
            <4>2. CASE q # r
                <5> DEFINE k == rs[q].answeredInRound
                <5>1. ts[q] = rs[q] /\ rs[q].updated
                    BY <2>3, <3>3, <4>2
                <5>2. k <= q /\ k \in Nat /\ rs[q].answer = rs[k].answer
                    BY <5>1 DEF AnswersOK, RoundType
                <5>3. q <= n /\ q \in Nat
                    <6>1. ~(q > n)
                        BY <5>1 DEF AnswersOK
                    <6> QED
                        BY <1>1, <6>1
                <5>4. q < r
                    <6>1. CASE r = n
                        BY <1>1, <4>2, <5>3, <6>1
                    <6>2. CASE r + 1 = n /\ ~rs[n].updated
                        <7>1. q # n
                            BY <5>1, <6>2
                        <7> QED
                            BY <1>1, <4>2, <5>3, <6>2, <7>1
                    <6> QED
                        BY <6>1, <6>2
                <5>5. k \in Rounds \ {r}
                    <6> HIDE DEF k
                    <6>1. k < r /\ k <= q
                        BY <1>1, <5>2, <5>3, <5>4
                    <6>2. q \in 0..MaxRound /\ MaxRound \in Nat
                        BY Bounds DEF Rounds
                    <6> QED
                        BY <5>2, <6>1, <6>2 DEF Rounds
                <5>6. ts[k].answer = rs[k].answer
                    BY <2>3, <5>5
                <5> QED
                    BY <5>1, <5>2, <5>6
            <4> QED
                BY <4>1, <4>2
        <3>4. \A q \in Rounds : ~ts[q].updated => ts[q].answeredInRound = 0
            BY <2>3 DEF AnswersOK
        <3> QED
            BY <3>1, <3>2, <3>3, <3>4 DEF AnswersOK
    <2>5. \A q \in Rounds : rs[q].updated => ts[q].updated
        BY <2>3
    <2> QED
        BY <1>6, <1>7, <1>8, <1>9, <2>3, <2>4, <2>5 DEF new, ts, old
<1> QED
    BY <1>10, <1>11

-----------------------------------------------------------------------------
\* What is withdrawable, as a function.
Owed == [o \in Oracles |-> oracles[o].withdrawable]

\* The invariant holds of the aggregator as it is deployed.
LEMMA FluxInit ==
    AggregatorInit => FluxInv
<1> SUFFICES ASSUME AggregatorInit PROVE FluxInv
    OBVIOUS
<1>1. /\ FirstOracle \in Oracles /\ FirstAdmin \in Admins /\ IsFiniteSet(Oracles)
      /\ FirstPayment \in Payments /\ FirstTimeout \in Timeouts
      /\ FirstPayment \in Nat /\ FirstTimeout \in Nat
      /\ FirstLink \in Nat /\ MaxLink \in Nat /\ MaxRound \in Nat /\ FirstLink <= MaxLink
      /\ OldAge \in Nat /\ Max(SubmissionValues) \in Nat /\ Max(Payments) \in Nat
    BY FluxAssumption, Bounds
<1>2. Rounds = 0..MaxRound /\ 0 \in Rounds /\ RoundMax = MaxRound + 2 /\ \A r \in Rounds : r \in Nat
    BY <1>1 DEF Rounds, RoundMax
<1>3. NoDetails \in DetailsType /\ Len(NoDetails.submissions) = 0 /\ NoDetails.submissions = <<>>
      /\ NoDetails.max = 0 /\ NoDetails.min = 0
    BY DEF NoDetails, DetailsType
<1>4. \A o \in Oracles :
          /\ oracles[o] \in OracleType
          /\ oracles[o].withdrawable = 0
          /\ oracles[o].lastReportedRound = 0 /\ oracles[o].lastStartedRound = 0
          /\ oracles[o].startingRound \in {0, 1} /\ oracles[o].endingRound \in {0, RoundMax}
          /\ oracles[o].startingRound = 0 <=> o # FirstOracle
          /\ oracles[o].endingRound = RoundMax <=> o = FirstOracle
    BY <1>1, <1>2 DEF AggregatorInit, OracleType
<1>5. EnabledOracles = {FirstOracle} /\ Cardinality(EnabledOracles) = 1
    <2>1. EnabledOracles = {FirstOracle}
        BY <1>1, <1>4 DEF EnabledOracles, OracleEnabled
    <2> QED
        BY <2>1, FS_Singleton
<1>6. FluxTypes
    <2>1. oracles \in [Oracles -> OracleType]
        BY <1>4 DEF AggregatorInit
    <2>2. rounds \in [Rounds -> RoundType] /\ details \in [Rounds -> DetailsType]
        BY <1>1, <1>3 DEF AggregatorInit, RoundType
    <2>3. /\ reportingRoundId \in Rounds /\ latestRoundId \in 0..reportingRoundId /\ age \in 0..OldAge
          /\ requesters \in [Requesters -> [authorized : BOOLEAN, delay : Nat, lastStartedRound : Nat]]
          /\ recordedFunds \in [available : Nat, allocated : Nat] /\ linkBalance \in 0..MaxLink
        BY <1>1, <1>2 DEF AggregatorInit, NoRequester
    <2>4. futureRounds \in [payment : Payments, minSubmissions : Nat, maxSubmissions : Nat,
                            restartDelay : Nat, timeout : Timeouts]
        BY <1>1 DEF AggregatorInit
    <2> QED
        BY <2>1, <2>2, <2>3, <2>4 DEF FluxTypes
<1>7. DetailsInv
    <2>1. \A r \in Rounds : details[r] = NoDetails
        BY DEF AggregatorInit
    <2> QED
        BY <1>3, <2>1 DEF DetailsInv, DetailsOK
<1>8. AnswersInv
    <2>1. reportingRoundId = 0 /\ latestRoundId = 0
        BY DEF AggregatorInit
    <2>2. \A r \in Rounds : /\ rounds[r].answer = 0 /\ rounds[r].answeredInRound = 0
                            /\ rounds[r].updated <=> r = 0
        BY DEF AggregatorInit
    <2>3. \A r \in Rounds : ~(r < 0) /\ (r > 0 => r # 0)
        BY <1>2
    <2>4. AnswersOK(rounds, 0)
        BY <1>2, <2>2, <2>3 DEF AnswersOK
    <2> QED
        BY <1>2, <2>1, <2>2, <2>4 DEF AnswersInv
<1>9. OraclesInv
    BY <1>2, <1>4 DEF AggregatorInit, OraclesInv, OracleEnabled
<1>10. TermsInv
    BY <1>5 DEF AggregatorInit, TermsInv
<1>11. FinishInv
    BY DEF AggregatorInit, FinishInv
<1>12. FundsAddUp
    <2>1. Total(Owed, Oracles) = 0
        <3>1. \A o \in Oracles : Owed[o] = 0
            BY <1>4 DEF Owed
        <3> QED
            BY <1>1, <3>1, TotalOfZeros
    <2>2. recordedFunds.allocated = 0 /\ recordedFunds.available = linkBalance
        BY DEF AggregatorInit
    <2>3. recordedFunds.available + recordedFunds.allocated <= linkBalance
        BY <1>1, <2>2 DEF AggregatorInit
    <2> QED
        BY <2>1, <2>2, <2>3 DEF FundsAddUp, Owed
<1>13. OneSubmissionEach
    <2>1. 1..reportingRoundId = {}
        BY DEF AggregatorInit
    <2>2. \A o \in Oracles : oracles[o].withdrawable <= Max(Payments) * oracles[o].lastReportedRound
        BY <1>1, <1>4
    <2> QED
        BY <2>1, <2>2 DEF OneSubmissionEach
<1> QED
    BY <1>6, <1>7, <1>8, <1>9, <1>10, <1>11, <1>12, <1>13 DEF FluxInv

-----------------------------------------------------------------------------
\* Round 0 counts as answered, and a round without details has not started.
LEMMA SubmitWhere ==
    ASSUME FluxInv, NEW o \in Oracles, NEW r \in 1..MaxRound, ValidateOracleRound(o, r)
    PROVE  /\ NewRound(r) => Supersedable(reportingRoundId)
           /\ AcceptingSubmissions(r) => ~NewRound(r)
           /\ ~NewRound(r) => r \in 1..reportingRoundId
           /\ ~NewRound(r) =>
                  r = reportingRoundId \/ PreviousAndCurrentUnanswered(r)
<1> DEFINE n == reportingRoundId
<1>1. n \in Nat /\ n \in Rounds /\ r \in Nat /\ r > 0 /\ r \in Rounds /\ rounds[0].updated
    BY Bounds DEF FluxInv, FluxTypes, Rounds, AnswersInv, AnswersOK
<1>2. NewRound(r) => Supersedable(n)
    <2>1. CASE r = 1
        BY <1>1, <2>1 DEF NewRound, Supersedable
    <2>2. CASE r # 1
        <3>1. Supersedable(r - 1)
            BY <2>2 DEF ValidateOracleRound
        <3>2. NewRound(r) => r - 1 = n
            BY <1>1 DEF NewRound
        <3> QED
            BY <3>1, <3>2
    <2> QED
        BY <2>1, <2>2
<1>3. AcceptingSubmissions(r) => ~(r > n)
    BY <1>1 DEF AcceptingSubmissions, FluxInv, DetailsInv, DetailsOK
<1>4. NewRound(r) => r > n
    BY <1>1 DEF NewRound
<1>5. r = n \/ NewRound(r) \/ PreviousAndCurrentUnanswered(r)
    BY DEF ValidateOracleRound
<1>6. PreviousAndCurrentUnanswered(r) \/ r = n => r \in 1..n
    BY <1>1 DEF PreviousAndCurrentUnanswered
<1> QED
    BY <1>2, <1>3, <1>4, <1>5, <1>6

\* The tables submit works on, once it has started the round when that is the next one.
SubmitRounds(o, r) == IF StartsRound(o, r) THEN RoundsWithNew(r) ELSE rounds
SubmitDetails(o, r) == IF StartsRound(o, r) THEN DetailsWithNew(r) ELSE details

\* The tables of a submission once it has started its round, if it does: the round is open,
\* and the rounds before it and the details are as before the submission.
LEMMA SubmitStarts ==
    ASSUME FluxInv, NEW o \in Oracles, NEW r \in 1..MaxRound, NEW n \in Rounds,
           SubmitAccepted(o, r),
           n = IF StartsRound(o, r) THEN r ELSE reportingRoundId
    PROVE  /\ r \in 1..n /\ r \in Rounds
           /\ SubmitRounds(o, r) \in [Rounds -> RoundType] /\ AnswersOK(SubmitRounds(o, r), n)
           /\ SubmitDetails(o, r) \in [Rounds -> DetailsType] /\ DetailsOK(SubmitDetails(o, r), n)
           /\ SubmitRounds(o, r)[latestRoundId].updated
           /\ SubmitDetails(o, r)[r].max > 0
           /\ SubmitDetails(o, r)[r].payment \in Payments
           /\ recordedFunds.available >= SubmitDetails(o, r)[r].payment
           /\ r = n \/ (r + 1 = n /\ ~SubmitRounds(o, r)[n].updated)
           /\ StartsRound(o, r) =>
                  /\ n = reportingRoundId + 1
                  /\ SubmitDetails(o, r)[r].submissions = <<>>
                  /\ SubmitDetails(o, r)[r].min = futureRounds.minSubmissions
                  /\ \A q \in Rounds \ {r} :
                         SubmitDetails(o, r)[q].submissions \in {details[q].submissions, <<>>}
           /\ ~StartsRound(o, r) => SubmitDetails(o, r) = details
<1>1. ValidateOracleRound(o, r)
    BY DEF SubmitAccepted
<1>2. /\ reportingRoundId \in Nat /\ reportingRoundId \in Rounds /\ r \in Nat /\ r \in Rounds /\ r > 0
    BY Bounds DEF FluxInv, FluxTypes, Rounds
<1>3. CASE StartsRound(o, r)
    <2>1. NewRound(r) /\ Supersedable(reportingRoundId) /\ r = reportingRoundId + 1 /\ n = r
        BY <1>1, <1>3, SubmitWhere DEF StartsRound, NewRound
    <2>2. SubmitRounds(o, r) = RoundsWithNew(r) /\ SubmitDetails(o, r) = DetailsWithNew(r)
        BY <1>3 DEF SubmitRounds, SubmitDetails
    <2>3. futureRounds.maxSubmissions # 0 /\ recordedFunds.available >= futureRounds.payment
        BY <1>3 DEF SubmitAccepted
    <2>4. /\ futureRounds.maxSubmissions \in Nat /\ futureRounds.payment \in Payments
        BY DEF FluxInv, FluxTypes
    <2>5. /\ RoundsWithNew(r) \in [Rounds -> RoundType]
          /\ AnswersOK(RoundsWithNew(r), r)
          /\ RoundsWithNew(r)[latestRoundId].updated
          /\ DetailsWithNew(r) \in [Rounds -> DetailsType]
          /\ DetailsOK(DetailsWithNew(r), r)
          /\ DetailsWithNew(r)[r]
                 = [submissions |-> <<>>, max |-> futureRounds.maxSubmissions,
                    min |-> futureRounds.minSubmissions, timeout |-> futureRounds.timeout,
                    payment |-> futureRounds.payment]
          /\ \A q \in Rounds \ {r} :
                 DetailsWithNew(r)[q].submissions \in {details[q].submissions, <<>>}
        <3>1. FluxTypes /\ DetailsInv /\ AnswersInv /\ TermsInv
            BY DEF FluxInv
        <3> QED
            BY <1>2, <2>1, <3>1, RoundStarted
    <2>6. /\ DetailsWithNew(r)[r].submissions = <<>>
          /\ DetailsWithNew(r)[r].max = futureRounds.maxSubmissions
          /\ DetailsWithNew(r)[r].min = futureRounds.minSubmissions
          /\ DetailsWithNew(r)[r].payment = futureRounds.payment
        BY <2>5
    <2>7. r \in 1..n
        BY <1>2, <2>1
    <2>8. DetailsWithNew(r)[r].max > 0
        BY <2>3, <2>4, <2>6
    <2>9. /\ DetailsWithNew(r)[r].payment \in Payments
          /\ recordedFunds.available >= DetailsWithNew(r)[r].payment
        BY <2>3, <2>4, <2>6
    <2> QED
        BY <1>2, <1>3, <2>1, <2>2, <2>5, <2>6, <2>7, <2>8, <2>9
<1>4. CASE ~StartsRound(o, r)
    <2>1. n = reportingRoundId /\ SubmitRounds(o, r) = rounds /\ SubmitDetails(o, r) = details
        BY <1>4 DEF SubmitRounds, SubmitDetails
    <2>2. AcceptingSubmissions(r) /\ recordedFunds.available >= details[r].payment
        BY <1>4 DEF SubmitAccepted
    <2>3. /\ r \in 1..n /\ (r = n \/ (r + 1 = n /\ ~rounds[n].updated))
        BY <1>1, <2>1, <2>2, SubmitWhere DEF PreviousAndCurrentUnanswered
    <2>4. details[r].max > 0
        <3>1. details[r].max \in Nat
            BY <1>2 DEF FluxInv, FluxTypes, DetailsType
        <3> QED
            BY <2>2, <3>1 DEF AcceptingSubmissions
    <2>5. details[r].payment \in Payments
        BY <1>2, <2>4 DEF FluxInv, DetailsInv, DetailsOK
    <2>6. /\ rounds \in [Rounds -> RoundType] /\ AnswersOK(rounds, n)
          /\ details \in [Rounds -> DetailsType] /\ DetailsOK(details, n)
          /\ rounds[latestRoundId].updated
        BY <2>1 DEF FluxInv, FluxTypes, AnswersInv, DetailsInv
    <2> QED
        BY <1>2, <1>4, <2>1, <2>2, <2>3, <2>4, <2>5, <2>6
<1> QED
    BY <1>3, <1>4

\* The oracle that submitted has reported to the round, perhaps started it, and is owed a
\* payment more; the others are as they were.
WithReport(o, r, starts, payment) ==
    [oracles EXCEPT ![o].lastReportedRound = r,
                    ![o].lastStartedRound = IF starts THEN r ELSE @,
                    ![o].withdrawable = @ + payment]

\* A report changes the oracle that made it, and no other.
LEMMA SubmitOracles ==
    ASSUME FluxInv, NEW o \in Oracles, NEW r \in Rounds, NEW payment \in Nat, NEW starts \in BOOLEAN
    PROVE  /\ WithReport(o, r, starts, payment) \in [Oracles -> OracleType]
           /\ \A p \in Oracles \ {o} : WithReport(o, r, starts, payment)[p] = oracles[p]
           /\ WithReport(o, r, starts, payment)[o].lastReportedRound = r
           /\ WithReport(o, r, starts, payment)[o].lastStartedRound = IF starts THEN r ELSE oracles[o].lastStartedRound
           /\ WithReport(o, r, starts, payment)[o].withdrawable = oracles[o].withdrawable + payment
           /\ WithReport(o, r, starts, payment)[o].startingRound = oracles[o].startingRound
           /\ WithReport(o, r, starts, payment)[o].endingRound = oracles[o].endingRound
<1> DEFINE old == oracles[o]
           started == IF starts THEN r ELSE old.lastStartedRound
           owed == old.withdrawable + payment
           row == [old EXCEPT !.lastReportedRound = r, !.lastStartedRound = started,
                              !.withdrawable = owed]
<1>1. old \in OracleType /\ r \in Nat
    BY Bounds DEF FluxInv, FluxTypes
<1> DEFINE new == WithReport(o, r, starts, payment)
<1>2. new = [oracles EXCEPT ![o] = row]
    BY DEF WithReport
<1> HIDE DEF old, new
<1>3. started \in Nat /\ owed \in Nat
    BY <1>1 DEF OracleType
<1> HIDE DEF started, owed
<1>4. /\ row \in OracleType
      /\ row.lastReportedRound = r /\ row.lastStartedRound = started /\ row.withdrawable = owed
      /\ row.startingRound = old.startingRound /\ row.endingRound = old.endingRound
    BY <1>1, <1>3 DEF OracleType
<1> HIDE DEF row
<1>5. new \in [Oracles -> OracleType]
    BY <1>2, <1>4 DEF FluxInv, FluxTypes
<1>6. new[o] = row /\ \A p \in Oracles \ {o} : new[p] = oracles[p]
    BY <1>2 DEF FluxInv, FluxTypes
<1> QED
    BY <1>4, <1>5, <1>6 DEF old, new, started, owed

\* The tables after a submission.
LEMMA SubmitTables ==
    ASSUME FluxInv, NEW o \in Oracles, NEW r \in 1..MaxRound, NEW answer \in SubmissionValues,
           Submit(o, r, answer)
    PROVE  /\ reportingRoundId' \in Rounds /\ r \in 1..reportingRoundId' /\ r \in Rounds
           /\ age' \in 0..OldAge /\ latestRoundId' \in 0..reportingRoundId'
           /\ rounds' \in [Rounds -> RoundType] /\ details' \in [Rounds -> DetailsType]
           /\ DetailsInv' /\ AnswersInv'
           /\ latestRoundId' >= latestRoundId
           /\ \E payment \in Payments :
                  /\ recordedFunds.available >= payment
                  /\ recordedFunds' = PayOracle(recordedFunds, payment)
                  /\ oracles' = WithReport(o, r, StartsRound(o, r), payment)
           /\ StartsRound(o, r) =>
                  /\ reportingRoundId' = reportingRoundId + 1 /\ r = reportingRoundId'
                  /\ Len(details'[r].submissions) <= 1
                  /\ details'[r].max > 0 =>
                         /\ Len(details'[r].submissions) = 1
                         /\ details'[r].min = futureRounds.minSubmissions
                  /\ \A q \in Rounds \ {r} : Len(details'[q].submissions) <= Len(details[q].submissions)
           /\ ~StartsRound(o, r) =>
                  /\ reportingRoundId' = reportingRoundId
                  /\ r \in {reportingRoundId, reportingRoundId - 1}
                  /\ details[r].max > 0
                  /\ Len(details'[r].submissions) <= Len(details[r].submissions) + 1
                  /\ details'[r].max > 0 =>
                         /\ Len(details'[r].submissions) = Len(details[r].submissions) + 1
                         /\ details'[r].min = details[r].min
                  /\ \A q \in Rounds \ {r} : details'[q] = details[q]
<1> DEFINE n == reportingRoundId'
           ds == SubmitDetails(o, r)
           rs == SubmitRounds(o, r)
           s == WithSubmission(ds[r].submissions, answer)
<1>1. /\ SubmitAccepted(o, r)
      /\ n = IF StartsRound(o, r) THEN r ELSE reportingRoundId
      /\ age' = IF StartsRound(o, r) THEN 0 ELSE age
      /\ rounds' = RoundsAfter(rs, ds, r, s)
      /\ latestRoundId' = IF Len(s) >= ds[r].min THEN r ELSE latestRoundId
      /\ details' = DetailsAfter(ds, r, s)
      /\ oracles' = WithReport(o, r, StartsRound(o, r), ds[r].payment)
      /\ recordedFunds' = PayOracle(recordedFunds, ds[r].payment)
    BY DEF Submit, SubmitDetails, SubmitRounds, RoundsAfter, DetailsAfter, WithReport
<1>2. /\ reportingRoundId \in Nat /\ reportingRoundId \in Rounds /\ r \in Nat /\ r \in Rounds
      /\ MaxRound \in Nat /\ latestRoundId \in 0..reportingRoundId /\ latestRoundId \in Rounds
      /\ age \in 0..OldAge /\ OldAge \in Nat
    BY Bounds DEF FluxInv, FluxTypes, Rounds
<1>3. n \in Rounds /\ n \in Nat
    BY <1>1, <1>2
<1> HIDE DEF s, ds, rs, n
<1>4. /\ r \in 1..n
      /\ rs \in [Rounds -> RoundType] /\ AnswersOK(rs, n)
      /\ ds \in [Rounds -> DetailsType] /\ DetailsOK(ds, n)
      /\ rs[latestRoundId].updated
      /\ ds[r].max > 0
      /\ ds[r].payment \in Payments
      /\ recordedFunds.available >= ds[r].payment
      /\ r = n \/ (r + 1 = n /\ ~rs[n].updated)
      /\ StartsRound(o, r) =>
             /\ n = reportingRoundId + 1
             /\ ds[r].submissions = <<>>
             /\ ds[r].min = futureRounds.minSubmissions
             /\ \A q \in Rounds \ {r} : ds[q].submissions \in {details[q].submissions, <<>>}
      /\ ~StartsRound(o, r) => ds = details
    BY <1>1, <1>3, SubmitStarts, ZenonT(60) DEF ds, rs
<1>5. /\ rounds' \in [Rounds -> RoundType]
      /\ AnswersOK(rounds', n)
      /\ Len(s) >= ds[r].min => rounds'[r].updated
      /\ \A q \in Rounds : rs[q].updated => rounds'[q].updated
      /\ details' \in [Rounds -> DetailsType]
      /\ DetailsOK(details', n)
      /\ \A q \in Rounds \ {r} : details'[q] = ds[q]
      /\ Len(details'[r].submissions) <= Len(ds[r].submissions) + 1
      /\ details'[r].max > 0 =>
             /\ Len(details'[r].submissions) = Len(ds[r].submissions) + 1
             /\ details'[r].min = ds[r].min
    <2> DEFINE rsNew == RoundsAfter(rs, ds, r, s)
               dsNew == DetailsAfter(ds, r, s)
    <2>1. s = WithSubmission(ds[r].submissions, answer)
        BY DEF s
    <2>2. /\ n \in Rounds /\ r \in 1..n
          /\ rs \in [Rounds -> RoundType] /\ ds \in [Rounds -> DetailsType]
          /\ AnswersOK(rs, n) /\ DetailsOK(ds, n)
          /\ ds[r].max > 0
          /\ r = n \/ (r + 1 = n /\ ~rs[n].updated)
        BY <1>3, <1>4
    <2>3. /\ rsNew \in [Rounds -> RoundType]
          /\ AnswersOK(rsNew, n)
          /\ Len(s) >= ds[r].min => rsNew[r].updated
          /\ \A q \in Rounds : rs[q].updated => rsNew[q].updated
          /\ dsNew \in [Rounds -> DetailsType]
          /\ DetailsOK(dsNew, n)
          /\ \A q \in Rounds \ {r} : dsNew[q] = ds[q]
          /\ Len(dsNew[r].submissions) <= Len(ds[r].submissions) + 1
          /\ dsNew[r].max > 0 =>
                 /\ Len(dsNew[r].submissions) = Len(ds[r].submissions) + 1
                 /\ dsNew[r].min = ds[r].min
        BY <2>1, <2>2, SubmissionRecorded
    <2>4. rounds' = rsNew /\ details' = dsNew
        BY <1>1
    <2> HIDE DEF rsNew, dsNew
    <2> QED
        BY <2>3, <2>4
<1>6. AnswersInv'
    <2>1. rounds'[latestRoundId'].updated
        BY <1>1, <1>2, <1>4, <1>5
    <2> QED
        BY <1>5, <2>1 DEF AnswersInv, n
<1>7. DetailsInv'
    BY <1>5 DEF DetailsInv, n
<1>8. reportingRoundId <= n
    <2>1. StartsRound(o, r) => r = reportingRoundId + 1
        BY DEF StartsRound, NewRound
    <2> QED
        BY <1>1, <1>2, <2>1
<1>9. latestRoundId' \in 0..n /\ latestRoundId' >= latestRoundId
    <2>1. r \in 0..n /\ latestRoundId \in 0..n
        BY <1>2, <1>3, <1>4, <1>8
    <2>2. CASE Len(s) >= ds[r].min
        <3>1. latestRoundId' = r
            BY <1>1, <2>2
        <3>2. CASE r = n
            BY <2>1, <3>1, <3>2, <1>3
        <3>3. CASE r + 1 = n /\ ~rs[n].updated
            <4>1. latestRoundId # n
                BY <1>4, <3>3
            <4> QED
                BY <1>2, <1>3, <2>1, <3>1, <3>3, <4>1
        <3> QED
            BY <1>4, <3>2, <3>3
    <2>3. CASE ~(Len(s) >= ds[r].min)
        BY <1>1, <1>2, <2>1, <2>3
    <2> QED
        BY <2>2, <2>3
<1>10. age' \in 0..OldAge
    BY <1>1, <1>2
<1>11. \A q \in Rounds : Len(details[q].submissions) \in Nat
    <2>1. \A q \in Rounds : details[q].submissions \in Seq(SubmissionValues)
        BY DEF FluxInv, FluxTypes, DetailsType
    <2> QED
        BY <2>1, LenProperties
<1>12. ASSUME StartsRound(o, r)
       PROVE  /\ n = reportingRoundId + 1 /\ r = n
              /\ Len(details'[r].submissions) <= 1
              /\ details'[r].max > 0 =>
                     /\ Len(details'[r].submissions) = 1
                     /\ details'[r].min = futureRounds.minSubmissions
              /\ \A q \in Rounds \ {r} : Len(details'[q].submissions) <= Len(details[q].submissions)
    <2>1. Len(ds[r].submissions) = 0
        BY <1>4, <1>12
    <2>2. ASSUME NEW q \in Rounds \ {r}
          PROVE  Len(details'[q].submissions) <= Len(details[q].submissions)
        <3>1. details'[q].submissions \in {details[q].submissions, <<>>}
            BY <1>4, <1>5, <1>12
        <3>2. Len(<<>>) = 0
            OBVIOUS
        <3> QED
            BY <1>11, <3>1, <3>2
    <2> QED
        BY <1>1, <1>4, <1>5, <1>12, <2>1, <2>2
<1>13. ASSUME ~StartsRound(o, r)
       PROVE  /\ n = reportingRoundId
              /\ r \in {reportingRoundId, reportingRoundId - 1}
              /\ details[r].max > 0
              /\ Len(details'[r].submissions) <= Len(details[r].submissions) + 1
              /\ details'[r].max > 0 =>
                     /\ Len(details'[r].submissions) = Len(details[r].submissions) + 1
                     /\ details'[r].min = details[r].min
              /\ \A q \in Rounds \ {r} : details'[q] = details[q]
    <2>1. n = reportingRoundId /\ ds = details
        BY <1>1, <1>4, <1>13
    <2>2. r = n \/ r = n - 1
        BY <1>2, <1>3, <1>4
    <2> QED
        BY <1>4, <1>5, <2>1, <2>2
<1> QED
    BY <1>1, <1>2, <1>3, <1>4, <1>5, <1>6, <1>7, <1>9, <1>10, <1>12, <1>13 DEF n

\* Without one of its elements a set has one element fewer.
LEMMA OneRemoved ==
    ASSUME NEW S, IsFiniteSet(S), NEW x
    PROVE  /\ Cardinality(S \ {x}) \in Nat
           /\ Cardinality(S) <= Cardinality(S \ {x}) + 1
<1>1. Cardinality(S) \in Nat /\ IsFiniteSet(S \ {x})
    BY FS_CardinalityType, FS_RemoveElement
<1>2. Cardinality(S \ {x}) \in Nat
    BY <1>1, FS_CardinalityType
<1>3. Cardinality(S \ {x}) = IF x \in S THEN Cardinality(S) - 1 ELSE Cardinality(S)
    BY FS_RemoveElement
<1> QED
    BY <1>1, <1>2, <1>3

\* A payment more for a round more stays within a payment for every round.
LEMMA PaymentMore ==
    ASSUME NEW most \in Nat, NEW payment \in 0..most, NEW owed \in Nat,
           NEW k \in Nat, NEW r \in Nat, k < r, owed <= most * k
    PROVE  owed + payment <= most * r
<1>1. PICK d \in Nat : r = k + 1 + d
    <2>1. r - k - 1 \in Nat /\ r = k + 1 + (r - k - 1)
        OBVIOUS
    <2> QED
        BY <2>1
<1>2. most * r = most * k + most + most * d
    BY <1>1
<1>3. most * d \in Nat /\ most * k \in Nat
    OBVIOUS
<1> DEFINE a == most * k
           b == most * d
<1> HIDE DEF a, b
<1>4. most * r = a + most + b /\ a \in Nat /\ b \in Nat /\ owed <= a
    BY <1>2, <1>3 DEF a, b
<1> QED
    BY <1>4

\* submit keeps the invariant, whether it starts the round, answers it, closes it or does
\* none of that.
LEMMA SubmitKeepsInv ==
    ASSUME FluxInv, NEW o \in Oracles, NEW r \in 1..MaxRound, NEW answer \in SubmissionValues,
           Submit(o, r, answer)
    PROVE  FluxInv'
<1> DEFINE n == reportingRoundId
           starts == StartsRound(o, r)
           reported(q) == {p \in Oracles : oracles[p].lastReportedRound >= q}
<1>1. /\ n \in Nat /\ n \in Rounds /\ r \in Nat /\ r > 0 /\ r \in Rounds /\ MaxRound \in Nat
      /\ IsFiniteSet(Oracles) /\ Payments \subseteq Nat /\ Payments \subseteq 0..Max(Payments)
      /\ Max(Payments) \in Nat /\ starts \in BOOLEAN
      /\ \A q \in Rounds : q \in Nat
    BY Bounds DEF FluxInv, FluxTypes, Rounds, StartsRound, NewRound, Delayed
<1>2. /\ reportingRoundId' \in Rounds /\ r \in 1..reportingRoundId' /\ r \in Rounds
      /\ age' \in 0..OldAge /\ latestRoundId' \in 0..reportingRoundId'
      /\ rounds' \in [Rounds -> RoundType] /\ details' \in [Rounds -> DetailsType]
      /\ DetailsInv' /\ AnswersInv'
      /\ \E payment \in Payments :
             /\ recordedFunds.available >= payment
             /\ recordedFunds' = PayOracle(recordedFunds, payment)
             /\ oracles' = WithReport(o, r, StartsRound(o, r), payment)
    BY SubmitTables
<1>3. starts =>
          /\ reportingRoundId' = n + 1 /\ r = n + 1
          /\ Len(details'[r].submissions) <= 1
          /\ details'[r].max > 0 =>
                 /\ Len(details'[r].submissions) = 1
                 /\ details'[r].min = futureRounds.minSubmissions
          /\ \A q \in Rounds \ {r} : Len(details'[q].submissions) <= Len(details[q].submissions)
    BY SubmitTables
<1>4. ~starts =>
          /\ reportingRoundId' = n
          /\ r \in {n, n - 1}
          /\ details[r].max > 0
          /\ Len(details'[r].submissions) <= Len(details[r].submissions) + 1
          /\ details'[r].max > 0 =>
                 /\ Len(details'[r].submissions) = Len(details[r].submissions) + 1
                 /\ details'[r].min = details[r].min
          /\ \A q \in Rounds \ {r} : details'[q] = details[q]
    BY SubmitTables
<1>5. PICK payment \in Payments :
          /\ recordedFunds.available >= payment
          /\ recordedFunds' = PayOracle(recordedFunds, payment)
          /\ oracles' = WithReport(o, r, starts, payment)
    BY <1>2
<1>6. payment \in Nat /\ payment \in 0..Max(Payments)
    BY <1>1
<1>7. /\ oracles' \in [Oracles -> OracleType]
      /\ \A p \in Oracles \ {o} : oracles'[p] = oracles[p]
      /\ oracles'[o].lastReportedRound = r
      /\ oracles'[o].lastStartedRound = IF starts THEN r ELSE oracles[o].lastStartedRound
      /\ oracles'[o].withdrawable = oracles[o].withdrawable + payment
      /\ oracles'[o].startingRound = oracles[o].startingRound
      /\ oracles'[o].endingRound = oracles[o].endingRound
    <2> HIDE DEF starts
    <2> QED
        BY <1>1, <1>5, <1>6, SubmitOracles
<1>8. UNCHANGED <<requesters, futureRounds, linkBalance>>
    BY DEF Submit
<1>9. oracles[o].lastReportedRound < r /\ oracles[o].startingRound # 0
      /\ oracles[o].startingRound <= r /\ r <= oracles[o].endingRound
    BY DEF Submit, SubmitAccepted, ValidateOracleRound
<1>10. /\ \A p \in Oracles :
              /\ oracles[p].lastReportedRound \in Nat /\ oracles[p].lastStartedRound \in Nat
              /\ oracles[p].startingRound \in Nat /\ oracles[p].endingRound \in Nat
              /\ oracles[p].withdrawable \in Nat
              /\ oracles[p].startingRound <= n + 1
              /\ oracles[p].lastReportedRound <= n /\ oracles[p].lastStartedRound <= n
    BY <1>1 DEF FluxInv, FluxTypes, OracleType, OraclesInv, RoundMax
<1>11. reportingRoundId' \in {n, n + 1} /\ r <= reportingRoundId' /\ (starts <=> reportingRoundId' = n + 1)
    BY <1>1, <1>2, <1>3, <1>4
<1> HIDE DEF starts, n
<1>12. recordedFunds' \in [available : Nat, allocated : Nat]
       /\ recordedFunds'.available = recordedFunds.available - payment
       /\ recordedFunds'.allocated = recordedFunds.allocated + payment
    BY <1>5, <1>6 DEF PayOracle, FluxInv, FluxTypes
<1>13. FluxTypes'
    BY <1>2, <1>7, <1>8, <1>12 DEF FluxInv, FluxTypes
<1>14. \A p \in Oracles :
           /\ oracles'[p].startingRound = oracles[p].startingRound
           /\ oracles'[p].endingRound = oracles[p].endingRound
    BY <1>7
<1>15. EnabledOracles' = EnabledOracles
    BY <1>14 DEF EnabledOracles, OracleEnabled
<1>16. OraclesInv'
    <2>1. ASSUME NEW p \in Oracles
          PROVE  /\ oracles'[p].startingRound <= reportingRoundId' + 1
                 /\ oracles'[p].endingRound <= reportingRoundId' + 1 \/ oracles'[p].endingRound = RoundMax
                 /\ oracles'[p].endingRound = RoundMax => oracles'[p].startingRound # 0
                 /\ oracles'[p].lastReportedRound <= reportingRoundId'
                 /\ oracles'[p].lastStartedRound <= reportingRoundId'
        <3>1. /\ oracles[p].endingRound <= n + 1 \/ oracles[p].endingRound = RoundMax
              /\ oracles[p].endingRound = RoundMax => oracles[p].startingRound # 0
            BY DEF FluxInv, OraclesInv, OracleEnabled, n
        <3>2. /\ oracles[p].startingRound <= reportingRoundId' + 1
              /\ oracles[p].endingRound <= n + 1 => oracles[p].endingRound <= reportingRoundId' + 1
              /\ oracles[p].lastReportedRound <= reportingRoundId'
              /\ oracles[p].lastStartedRound <= reportingRoundId'
            BY <1>1, <1>10, <1>11
        <3>3. CASE p = o
            BY <1>7, <1>11, <3>1, <3>2, <3>3
        <3>4. CASE p # o
            BY <1>7, <3>1, <3>2, <3>4
        <3> QED
            BY <3>3, <3>4
    <2>2. ASSUME NEW p \in Oracles, NEW q \in Oracles,
                 oracles'[p].lastStartedRound = oracles'[q].lastStartedRound
          PROVE  p = q \/ oracles'[p].lastStartedRound = 0
        <3>1. \A x, y \in Oracles : oracles[x].lastStartedRound = oracles[y].lastStartedRound =>
                  x = y \/ oracles[x].lastStartedRound = 0
            BY DEF FluxInv, OraclesInv
        <3>2. CASE ~starts
            <4>1. \A x \in Oracles : oracles'[x].lastStartedRound = oracles[x].lastStartedRound
                BY <1>7, <3>2
            <4> QED
                BY <2>2, <3>1, <4>1
        <3>3. CASE starts
            <4>1. oracles'[o].lastStartedRound = n + 1
                BY <1>3, <1>7, <3>3
            <4>2. \A x \in Oracles \ {o} :
                      /\ oracles'[x].lastStartedRound = oracles[x].lastStartedRound
                      /\ oracles[x].lastStartedRound # n + 1
                <5>1. \A k \in Nat : k <= n => k # n + 1
                    BY <1>1
                <5> QED
                    BY <1>7, <1>10, <5>1
            <4> QED
                BY <2>2, <3>1, <4>1, <4>2
        <3> QED
            BY <3>2, <3>3
    <2> QED
        BY <2>1, <2>2 DEF OraclesInv, OracleEnabled
<1>17. TermsInv'
    BY <1>8, <1>15 DEF FluxInv, TermsInv
<1>18. IsFiniteSet(EnabledOracles) /\ Cardinality(EnabledOracles) \in Nat
    <2>1. EnabledOracles \in SUBSET Oracles
        BY DEF EnabledOracles
    <2> QED
        BY <1>1, <2>1, FS_Subset, FS_CardinalityType
<1>19. FundsAddUp'
    <2>1. Total(Owed', Oracles) = Total(Owed, Oracles) + (Owed'[o] - Owed[o])
        <3>1. \A p \in Oracles : Owed'[p] \in Int /\ Owed[p] \in Int
            BY <1>7, <1>10 DEF Owed, OracleType
        <3>2. \A p \in Oracles \ {o} : Owed'[p] = Owed[p]
            BY <1>7 DEF Owed
        <3> HIDE DEF Owed
        <3> QED
            BY <1>1, <3>1, <3>2, TotalChanges
    <2>2. Owed'[o] = Owed[o] + payment /\ Owed[o] \in Nat
        BY <1>7, <1>10 DEF Owed
    <2>3. recordedFunds.allocated = Total(Owed, Oracles) /\ recordedFunds.allocated \in Nat
          /\ recordedFunds.available \in Nat
          /\ recordedFunds.available + recordedFunds.allocated <= linkBalance
        BY DEF FluxInv, FluxTypes, FundsAddUp, Owed
    <2>4. Total(Owed', Oracles) = recordedFunds.allocated + payment
        BY <1>6, <2>1, <2>2, <2>3
    <2>5. recordedFunds'.available + recordedFunds'.allocated = recordedFunds.available + recordedFunds.allocated
        BY <1>6, <1>12, <2>3
    <2> QED
        BY <1>8, <1>12, <2>3, <2>4, <2>5 DEF FundsAddUp, Owed
<1>20. OneSubmissionEach'
    <2>1. ASSUME NEW p \in Oracles
          PROVE  oracles'[p].withdrawable <= Max(Payments) * oracles'[p].lastReportedRound
        <3>1. oracles[p].withdrawable <= Max(Payments) * oracles[p].lastReportedRound
            BY DEF FluxInv, OneSubmissionEach
        <3>2. CASE p = o
            <4> DEFINE most == Max(Payments)
                       owed == oracles[o].withdrawable
                       k == oracles[o].lastReportedRound
            <4>1. most \in Nat /\ payment \in 0..most /\ owed \in Nat /\ k \in Nat /\ k < r
                  /\ owed <= most * k
                BY <1>1, <1>6, <1>9, <1>10, <3>1, <3>2
            <4> HIDE DEF most, owed, k
            <4>2. owed + payment <= most * r
                BY <1>1, <4>1, PaymentMore
            <4> QED
                BY <1>7, <3>2, <4>2 DEF most, owed
        <3>3. CASE p # o
            BY <1>7, <3>1, <3>3
        <3> QED
            BY <3>2, <3>3
    <2>2. ASSUME NEW q \in 1..reportingRoundId'
          PROVE  Len(details'[q].submissions) <= Cardinality(reported(q)')
        <3>1. q \in Rounds /\ q \in Nat /\ q > 0
            BY <1>1, <1>2 DEF Rounds
        <3>2. IsFiniteSet(reported(q)) /\ IsFiniteSet(reported(q)')
              /\ Cardinality(reported(q)) \in Nat /\ Cardinality(reported(q)') \in Nat
            BY <1>1, FS_Subset, FS_CardinalityType
        <3>3. \A p \in Oracles : oracles'[p].lastReportedRound >= oracles[p].lastReportedRound
            BY <1>1, <1>7, <1>9, <1>10
        <3>4. reported(q) \subseteq reported(q)'
            <4>1. \A p \in Oracles : oracles[p].lastReportedRound >= q => oracles'[p].lastReportedRound >= q
                BY <1>1, <1>7, <1>10, <3>1, <3>3
            <4> QED
                BY <4>1
        <3>5. Cardinality(reported(q)) <= Cardinality(reported(q)')
            BY <3>2, <3>4, FS_Subset
        <3>6. Len(details[q].submissions) \in Nat /\ Len(details'[q].submissions) \in Nat
            BY <1>2, <3>1, LenProperties DEF FluxInv, FluxTypes, DetailsType
        <3>7. Len(details[q].submissions) <= Cardinality(reported(q))
            <4>1. CASE q <= n
                <5>1. q \in 1..n
                    BY <1>1, <3>1, <4>1
                <5> QED
                    BY <5>1 DEF FluxInv, OneSubmissionEach, n
            <4>2. CASE ~(q <= n)
                <5>1. q > n
                    BY <1>1, <3>1, <4>2
                <5>2. details[q].submissions = <<>>
                    BY <3>1, <5>1 DEF FluxInv, DetailsInv, DetailsOK, n
                <5>3. Len(details[q].submissions) = 0
                    BY <5>2
                <5> QED
                    BY <3>2, <5>3
            <4> QED
                BY <4>1, <4>2
        <3>8. CASE q # r
            <4>1. Len(details'[q].submissions) <= Len(details[q].submissions)
                BY <1>3, <1>4, <3>1, <3>6, <3>8
            <4> QED
                BY <3>2, <3>5, <3>6, <3>7, <4>1
        <3>9. CASE q = r
            <4>1. o \notin reported(q) /\ reported(q) \cup {o} \subseteq reported(q)'
                BY <1>1, <1>7, <1>9, <1>10, <3>4, <3>9
            <4>2. IsFiniteSet(reported(q) \cup {o})
                  /\ Cardinality(reported(q) \cup {o}) = Cardinality(reported(q)) + 1
                BY <3>2, <4>1, FS_AddElement
            <4>3. Cardinality(reported(q) \cup {o}) <= Cardinality(reported(q)')
                BY <3>2, <4>1, FS_Subset
            <4>4. Len(details'[q].submissions) <= Len(details[q].submissions) + 1
                BY <1>3, <1>4, <3>6, <3>9
            <4> HIDE DEF reported
            <4> QED
                BY <3>2, <3>6, <3>7, <4>2, <4>3, <4>4, SMTT(60)
        <3> QED
            BY <3>8, <3>9
    <2> QED
        BY <2>1, <2>2 DEF OneSubmissionEach
<1>21. FinishInv'
    <2> SUFFICES ASSUME details'[reportingRoundId'].max > 0
                 PROVE  Len(details'[reportingRoundId'].submissions) + Cardinality(MayStillAnswer')
                            >= details'[reportingRoundId'].min
        BY DEF FinishInv
    <2> DEFINE k == reportingRoundId'
    <2> SUFFICES Len(details'[k].submissions) + Cardinality(MayStillAnswer') >= details'[k].min
        OBVIOUS
    <2>1. IsFiniteSet(MayStillAnswer') /\ Cardinality(MayStillAnswer') \in Nat
        <3>1. MayStillAnswer' \in SUBSET Oracles
            BY DEF MayStillAnswer
        <3> QED
            BY <1>1, <3>1, FS_Subset, FS_CardinalityType
    <2>2. IsFiniteSet(MayStillAnswer) /\ Cardinality(MayStillAnswer) \in Nat
        <3>1. MayStillAnswer \in SUBSET Oracles
            BY DEF MayStillAnswer
        <3> QED
            BY <1>1, <3>1, FS_Subset, FS_CardinalityType
    <2>3. \A p \in Oracles : p \in MayStillAnswer' <=>
              /\ oracles[p].startingRound # 0 /\ oracles'[p].lastReportedRound < k
              /\ oracles[p].startingRound <= k + 1 /\ k <= oracles[p].endingRound
        BY <1>14 DEF MayStillAnswer
    <2>4. \A p \in Oracles : p \in MayStillAnswer <=>
              /\ oracles[p].startingRound # 0 /\ oracles[p].lastReportedRound < n
              /\ oracles[p].startingRound <= n + 1 /\ n <= oracles[p].endingRound
        BY DEF MayStillAnswer, n
    <2>5. k \in Nat /\ k \in Rounds /\ details'[k].min \in Nat /\ Len(details'[k].submissions) \in Nat
        <3>1. details'[k] \in DetailsType
            BY <1>2
        <3> QED
            BY <1>1, <1>2, <3>1, LenProperties DEF DetailsType
    <2>6. CASE starts
        <3>1. k = n + 1 /\ r = k /\ Len(details'[k].submissions) = 1
              /\ details'[k].min = futureRounds.minSubmissions
            BY <1>3, <2>6
        <3>2. EnabledOracles \ {o} \subseteq MayStillAnswer'
            <4> SUFFICES ASSUME NEW p \in EnabledOracles \ {o} PROVE p \in MayStillAnswer'
                OBVIOUS
            <4>1. p \in Oracles /\ oracles[p].endingRound = RoundMax
                BY DEF EnabledOracles, OracleEnabled
            <4>2. oracles[p].startingRound # 0
                BY <4>1 DEF FluxInv, OraclesInv, OracleEnabled
            <4>3. k <= RoundMax
                BY <1>1, <2>5 DEF Rounds, RoundMax
            <4>4. oracles'[p].lastReportedRound < k /\ oracles[p].startingRound <= k + 1
                BY <1>1, <1>7, <1>10, <3>1, <4>1
            <4> QED
                BY <2>3, <4>1, <4>2, <4>3, <4>4
        <3>3. Cardinality(EnabledOracles \ {o}) <= Cardinality(MayStillAnswer')
            BY <2>1, <3>2, FS_Subset
        <3>4. Cardinality(EnabledOracles \ {o}) \in Nat
              /\ Cardinality(EnabledOracles) <= Cardinality(EnabledOracles \ {o}) + 1
            BY <1>18, OneRemoved
        <3>5. /\ futureRounds.minSubmissions \in Nat /\ futureRounds.maxSubmissions \in Nat
              /\ futureRounds.minSubmissions <= futureRounds.maxSubmissions
              /\ futureRounds.maxSubmissions <= Cardinality(EnabledOracles)
            BY DEF FluxInv, FluxTypes, TermsInv
        <3> QED
            BY <1>18, <2>1, <3>1, <3>3, <3>4, <3>5
    <2>7. CASE ~starts
        <3>1. k = n
            BY <1>4, <2>7
        <3>2. /\ details[n].max > 0 /\ details'[n].min = details[n].min
              /\ r # n => details'[n] = details[n]
            BY <1>1, <1>4, <2>7, <3>1
        <3>3. Len(details[n].submissions) \in Nat /\ details[n].min \in Nat
            BY <1>1, LenProperties DEF FluxInv, FluxTypes, DetailsType
        <3>4. n > 0
            BY <1>1, <1>4, <2>7
        <3>5. Len(details[n].submissions) + Cardinality(MayStillAnswer) >= details[n].min
            BY <3>2, <3>4 DEF FluxInv, FinishInv, n
        <3>6. CASE r = n
            <4>1. MayStillAnswer \ {o} \subseteq MayStillAnswer'
                <5> SUFFICES ASSUME NEW p \in MayStillAnswer \ {o} PROVE p \in MayStillAnswer'
                    OBVIOUS
                <5>1. p \in Oracles
                    BY DEF MayStillAnswer
                <5> QED
                    BY <1>7, <2>3, <2>4, <3>1, <5>1
            <4>2. Cardinality(MayStillAnswer \ {o}) <= Cardinality(MayStillAnswer')
                BY <2>1, <4>1, FS_Subset
            <4>3. Cardinality(MayStillAnswer \ {o}) \in Nat
                  /\ Cardinality(MayStillAnswer) <= Cardinality(MayStillAnswer \ {o}) + 1
                BY <2>2, OneRemoved
            <4>4. Len(details'[k].submissions) = Len(details[n].submissions) + 1
                BY <1>4, <2>7, <3>1, <3>6
            <4>5. details'[k].min = details[n].min
                BY <3>1, <3>2
            <4> HIDE DEF k
            <4> QED
                BY <2>1, <2>2, <3>3, <3>5, <4>2, <4>3, <4>4, <4>5, SMTT(60)
        <3>7. CASE r # n
            <4>1. r = n - 1
                BY <1>4, <2>7, <3>7
            <4>2. MayStillAnswer \subseteq MayStillAnswer'
                <5> SUFFICES ASSUME NEW p \in MayStillAnswer PROVE p \in MayStillAnswer'
                    OBVIOUS
                <5>1. p \in Oracles
                    BY DEF MayStillAnswer
                <5>2. oracles'[p].lastReportedRound < n
                    BY <1>1, <1>7, <2>4, <4>1, <5>1
                <5> QED
                    BY <2>3, <2>4, <3>1, <5>1, <5>2
            <4>3. Cardinality(MayStillAnswer) <= Cardinality(MayStillAnswer')
                BY <2>1, <4>2, FS_Subset
            <4>4. details'[k] = details[n]
                BY <3>1, <3>2, <3>7
            <4> HIDE DEF k
            <4> QED
                BY <2>1, <2>2, <3>3, <3>5, <4>3, <4>4
        <3> QED
            BY <3>6, <3>7
    <2> QED
        BY <2>6, <2>7
<1> QED
    BY <1>2, <1>13, <1>16, <1>17, <1>19, <1>20, <1>21 DEF FluxInv

\* Those enabled may answer the next round; there are finitely many.
LEMMA EnabledCanAnswer ==
    ASSUME FluxInv
    PROVE  /\ IsFiniteSet(EnabledOracles) /\ Cardinality(EnabledOracles) \in Nat
           /\ \A o \in EnabledOracles :
                  /\ o \in Oracles /\ oracles[o].endingRound = RoundMax
                  /\ oracles[o].startingRound # 0 /\ oracles[o].startingRound \in Nat
                  /\ oracles[o].startingRound <= reportingRoundId + 1
                  /\ oracles[o].lastReportedRound \in Nat
                  /\ oracles[o].lastReportedRound <= reportingRoundId
<1>1. EnabledOracles \in SUBSET Oracles
    BY DEF EnabledOracles
<1>2. IsFiniteSet(EnabledOracles) /\ Cardinality(EnabledOracles) \in Nat
    BY <1>1, Bounds, FS_Subset, FS_CardinalityType
<1>3. ASSUME NEW o \in EnabledOracles
      PROVE  /\ o \in Oracles /\ oracles[o].endingRound = RoundMax
             /\ oracles[o].startingRound # 0 /\ oracles[o].startingRound \in Nat
             /\ oracles[o].startingRound <= reportingRoundId + 1
             /\ oracles[o].lastReportedRound \in Nat
             /\ oracles[o].lastReportedRound <= reportingRoundId
    <2>1. o \in Oracles /\ oracles[o].endingRound = RoundMax
        BY DEF EnabledOracles, OracleEnabled
    <2>2. oracles[o].startingRound \in Nat /\ oracles[o].lastReportedRound \in Nat
        BY <2>1, Bounds DEF FluxInv, FluxTypes, OracleType
    <2> QED
        BY <2>1, <2>2 DEF FluxInv, OraclesInv, OracleEnabled
<1> QED
    BY <1>2, <1>3

\* requestNewRound keeps the invariant: the round before may be closed with the answer of
\* one before that.
LEMMA RequestKeepsInv ==
    ASSUME FluxInv, NEW q \in Requesters, RequestNewRound(q)
    PROVE  FluxInv'
<1> DEFINE n == reportingRoundId
           r == n + 1
<1>1. n \in Nat /\ n \in Rounds /\ MaxRound \in Nat /\ r \in Nat /\ r > 0 /\ IsFiniteSet(Oracles)
      /\ OldAge \in Nat /\ \A k \in Rounds : k \in Nat
    BY Bounds DEF FluxInv, FluxTypes, Rounds
<1>2. r \in Rounds /\ Supersedable(n) /\ NewRound(r)
    BY <1>1 DEF RequestNewRound, Rounds, NewRound
<1>3. /\ reportingRoundId' = r /\ age' = 0
      /\ rounds' = RoundsWithNew(r) /\ details' = DetailsWithNew(r)
      /\ requesters' = [requesters EXCEPT ![q].lastStartedRound = r]
      /\ UNCHANGED <<latestRoundId, oracles, futureRounds, recordedFunds, linkBalance>>
    BY DEF RequestNewRound
<1> HIDE DEF n
<1>4. /\ RoundsWithNew(r) \in [Rounds -> RoundType]
      /\ AnswersOK(RoundsWithNew(r), r)
      /\ RoundsWithNew(r)[latestRoundId].updated
      /\ DetailsWithNew(r) \in [Rounds -> DetailsType]
      /\ DetailsOK(DetailsWithNew(r), r)
      /\ DetailsWithNew(r)[r]
             = [submissions |-> <<>>, max |-> futureRounds.maxSubmissions,
                min |-> futureRounds.minSubmissions, timeout |-> futureRounds.timeout,
                payment |-> futureRounds.payment]
      /\ \A k \in Rounds \ {r} : DetailsWithNew(r)[k].submissions \in {details[k].submissions, <<>>}
    <2> HIDE DEF r
    <2>1. FluxTypes /\ DetailsInv /\ AnswersInv /\ TermsInv
        BY DEF FluxInv
    <2> QED
        BY <1>2, <2>1, RoundStarted DEF n
<1> HIDE DEF r
<1>5. /\ Len(details'[r].submissions) = 0 /\ details'[r].min = futureRounds.minSubmissions
      /\ \A k \in Rounds \ {r} : details'[k].submissions \in {details[k].submissions, <<>>}
    <2>1. details'[r].submissions = <<>> /\ details'[r].min = futureRounds.minSubmissions
        BY <1>3, <1>4
    <2> QED
        BY <1>3, <1>4, <2>1
<1>6. FluxTypes'
    <2>1. requesters' \in [Requesters -> [authorized : BOOLEAN, delay : Nat, lastStartedRound : Nat]]
        <3>1. requesters \in [Requesters -> [authorized : BOOLEAN, delay : Nat, lastStartedRound : Nat]]
            BY DEF FluxInv, FluxTypes
        <3> QED
            BY <1>1, <1>3, <3>1 DEF r
    <2>2. latestRoundId \in 0..r
        BY <1>1 DEF FluxInv, FluxTypes, r, n
    <2>3. FluxTypes
        BY DEF FluxInv
    <2>4. reportingRoundId' \in Rounds /\ latestRoundId' \in 0..reportingRoundId'
        BY <1>2, <1>3, <2>2
    <2>5. age' \in 0..OldAge
        BY <1>1, <1>3
    <2>6. rounds' \in [Rounds -> RoundType] /\ details' \in [Rounds -> DetailsType]
        BY <1>3, <1>4
    <2> QED
        BY <1>3, <2>1, <2>3, <2>4, <2>5, <2>6 DEF FluxTypes
<1>7. DetailsInv' /\ AnswersInv'
    BY <1>3, <1>4 DEF DetailsInv, AnswersInv
<1>8. EnabledOracles' = EnabledOracles
    BY <1>3 DEF EnabledOracles, OracleEnabled
<1>9. TermsInv'
    BY <1>3, <1>8 DEF FluxInv, TermsInv
<1>10. \A o \in Oracles :
           /\ oracles[o].startingRound \in Nat /\ oracles[o].endingRound \in Nat
           /\ oracles[o].lastReportedRound \in Nat /\ oracles[o].lastStartedRound \in Nat
    BY <1>1 DEF FluxInv, FluxTypes, OracleType, RoundMax
<1>11. OraclesInv'
    <2>1. ASSUME NEW o \in Oracles
          PROVE  /\ oracles[o].startingRound <= r + 1
                 /\ oracles[o].endingRound <= r + 1 \/ OracleEnabled(o)
                 /\ OracleEnabled(o) => oracles[o].startingRound # 0
                 /\ oracles[o].lastReportedRound <= r /\ oracles[o].lastStartedRound <= r
        <3>1. /\ oracles[o].startingRound <= n + 1
              /\ oracles[o].endingRound <= n + 1 \/ OracleEnabled(o)
              /\ OracleEnabled(o) => oracles[o].startingRound # 0
              /\ oracles[o].lastReportedRound <= n /\ oracles[o].lastStartedRound <= n
            BY DEF FluxInv, OraclesInv, n
        <3> QED
            BY <1>1, <1>10, <3>1 DEF r
    <2>2. \A o, p \in Oracles :
              oracles[o].lastStartedRound = oracles[p].lastStartedRound =>
                  o = p \/ oracles[o].lastStartedRound = 0
        BY DEF FluxInv, OraclesInv
    <2> QED
        BY <1>3, <2>1, <2>2 DEF OraclesInv, OracleEnabled
<1>12. FundsAddUp'
    BY <1>3 DEF FluxInv, FundsAddUp
<1>13. FinishInv'
    <2>1. EnabledOracles \subseteq MayStillAnswer'
        <3> SUFFICES ASSUME NEW o \in EnabledOracles PROVE o \in MayStillAnswer'
            OBVIOUS
        <3>1. /\ o \in Oracles /\ oracles[o].endingRound = RoundMax /\ oracles[o].startingRound # 0
              /\ oracles[o].startingRound \in Nat /\ oracles[o].startingRound <= n + 1
              /\ oracles[o].lastReportedRound \in Nat /\ oracles[o].lastReportedRound <= n
            BY EnabledCanAnswer DEF n
        <3>2. r <= RoundMax /\ oracles[o].lastReportedRound < r /\ oracles[o].startingRound <= r + 1
            BY <1>1, <1>2, <3>1 DEF r, Rounds, RoundMax
        <3> QED
            BY <1>3, <3>1, <3>2 DEF MayStillAnswer
    <2>2. MayStillAnswer' \in SUBSET Oracles
        BY DEF MayStillAnswer
    <2>3. IsFiniteSet(MayStillAnswer') /\ Cardinality(MayStillAnswer') \in Nat
        BY <1>1, <2>2, FS_Subset, FS_CardinalityType
    <2>4. Cardinality(EnabledOracles) <= Cardinality(MayStillAnswer')
        BY <2>1, <2>3, FS_Subset
    <2>5. /\ futureRounds.minSubmissions \in Nat /\ futureRounds.maxSubmissions \in Nat
          /\ futureRounds.minSubmissions <= futureRounds.maxSubmissions
          /\ futureRounds.maxSubmissions <= Cardinality(EnabledOracles)
        BY DEF FluxInv, FluxTypes, TermsInv
    <2>6. Len(details'[r].submissions) + Cardinality(MayStillAnswer') >= details'[r].min
        BY <1>5, <2>3, <2>4, <2>5, EnabledCanAnswer
    <2> QED
        BY <1>3, <2>6 DEF FinishInv
<1>14. OneSubmissionEach'
    <2>1. ASSUME NEW k \in 1..r
          PROVE  Len(details'[k].submissions) <= Cardinality({o \in Oracles : oracles[o].lastReportedRound >= k})
        <3> DEFINE reported == {o \in Oracles : oracles[o].lastReportedRound >= k}
        <3>1. IsFiniteSet(reported) /\ Cardinality(reported) \in Nat
            BY <1>1, FS_Subset, FS_CardinalityType
        <3>2. CASE k = r
            <4> HIDE DEF reported
            <4> QED
                BY <1>5, <3>1, <3>2 DEF reported
        <3>3. CASE k # r
            <4>1. k \in 1..n /\ k \in Rounds \ {r}
                BY <1>1, <1>2, <3>3 DEF r, Rounds
            <4>2. Len(details[k].submissions) <= Cardinality(reported)
                BY <4>1 DEF FluxInv, OneSubmissionEach, n
            <4>3. details'[k].submissions = details[k].submissions \/ Len(details'[k].submissions) = 0
                <5>1. Len(<<>>) = 0
                    OBVIOUS
                <5> QED
                    BY <1>5, <4>1, <5>1
            <4> HIDE DEF reported
            <4>4. Len(details'[k].submissions) <= Cardinality(reported)
                BY <3>1, <4>2, <4>3
            <4> QED
                BY <4>4 DEF reported
        <3> QED
            BY <3>2, <3>3
    <2> QED
        BY <1>3, <2>1 DEF FluxInv, OneSubmissionEach
<1> QED
    BY <1>6, <1>7, <1>9, <1>11, <1>12, <1>13, <1>14 DEF FluxInv

\* What changeOracles makes of each oracle.
LEMMA OraclesChanged ==
    ASSUME FluxInv, NEW removed \in SUBSET Oracles, NEW added \in SUBSET Oracles,
           NEW admin \in Admins, NEW terms \in RoundTerms,
           ChangeOracles(removed, added, admin, terms)
    PROVE  /\ oracles' \in [Oracles -> OracleType]
           /\ \A o \in Oracles :
                  /\ oracles'[o].withdrawable = oracles[o].withdrawable
                  /\ oracles'[o].lastReportedRound = oracles[o].lastReportedRound
                  /\ oracles'[o].lastStartedRound = oracles[o].lastStartedRound
                  /\ o \in added =>
                         /\ oracles'[o].startingRound \in {reportingRoundId, reportingRoundId + 1}
                         /\ oracles'[o].startingRound # 0
                         /\ oracles'[o].endingRound = RoundMax
                  /\ o \in removed \ added =>
                         /\ oracles'[o].startingRound = oracles[o].startingRound
                         /\ oracles'[o].endingRound = reportingRoundId + 1
                  /\ o \notin removed \cup added => oracles'[o] = oracles[o]
<1> DEFINE n == reportingRoundId
           ended == [o \in Oracles |-> IF o \in removed THEN [oracles[o] EXCEPT !.endingRound = n + 1]
                                       ELSE oracles[o]]
           starts(o) == IF o \in removed THEN n + 1 ELSE StartingRound(o)
           row(o) == IF o \in added
                     THEN [ended[o] EXCEPT !.startingRound = starts(o), !.endingRound = RoundMax,
                                           !.admin = admin]
                     ELSE ended[o]
<1>1. n \in Nat /\ n \in 0..MaxRound /\ MaxRound \in Nat /\ RoundMax = MaxRound + 2
    BY Bounds DEF FluxInv, FluxTypes, Rounds, RoundMax
<1>2. oracles' = [o \in Oracles |-> row(o)]
    BY DEF ChangeOracles, EndingRound
<1> HIDE DEF n
<1>3. ASSUME NEW o \in Oracles
      PROVE  /\ row(o) \in OracleType
             /\ row(o).withdrawable = oracles[o].withdrawable
             /\ row(o).lastReportedRound = oracles[o].lastReportedRound
             /\ row(o).lastStartedRound = oracles[o].lastStartedRound
             /\ o \in added =>
                    /\ row(o).startingRound \in {n, n + 1} /\ row(o).startingRound # 0
                    /\ row(o).endingRound = RoundMax
             /\ o \in removed \ added =>
                    /\ row(o).startingRound = oracles[o].startingRound
                    /\ row(o).endingRound = n + 1
             /\ o \notin removed \cup added => row(o) = oracles[o]
    <2> DEFINE old == oracles[o]
               mid == ended[o]
               first == starts(o)
    <2>1. old \in OracleType
        BY DEF FluxInv, FluxTypes
    <2>2. mid = IF o \in removed THEN [old EXCEPT !.endingRound = n + 1] ELSE old
        OBVIOUS
    <2>3. first \in {n, n + 1} /\ first # 0
        BY <1>1 DEF StartingRound, n
    <2>4. row(o) = IF o \in added
                   THEN [mid EXCEPT !.startingRound = first, !.endingRound = RoundMax, !.admin = admin]
                   ELSE mid
        OBVIOUS
    <2> HIDE DEF old, mid, first, ended, row
    <2>5. n + 1 \in 0..RoundMax /\ first \in 0 .. MaxRound + 1 /\ RoundMax \in 0..RoundMax
        BY <1>1, <2>3
    <2>6. /\ mid \in OracleType
          /\ mid.withdrawable = old.withdrawable /\ mid.lastReportedRound = old.lastReportedRound
          /\ mid.lastStartedRound = old.lastStartedRound /\ mid.startingRound = old.startingRound
          /\ o \in removed => mid.endingRound = n + 1
        BY <2>1, <2>2, <2>5 DEF OracleType
    <2>7. CASE o \in added
        <3>1. row(o) = [mid EXCEPT !.startingRound = first, !.endingRound = RoundMax, !.admin = admin]
            BY <2>4, <2>7
        <3>2. /\ row(o) \in OracleType
              /\ row(o).withdrawable = mid.withdrawable /\ row(o).lastReportedRound = mid.lastReportedRound
              /\ row(o).lastStartedRound = mid.lastStartedRound
              /\ row(o).startingRound = first /\ row(o).endingRound = RoundMax
            BY <2>5, <2>6, <3>1 DEF OracleType
        <3> QED
            BY <2>3, <2>6, <2>7, <3>2 DEF old
    <2>8. CASE o \notin added
        <3>1. row(o) = mid
            BY <2>4, <2>8
        <3> QED
            BY <2>2, <2>6, <2>8, <3>1 DEF old
    <2> QED
        BY <2>7, <2>8
<1> HIDE DEF row
<1>4. \A o \in Oracles : oracles'[o] = row(o)
    BY <1>2
<1>5. oracles' \in [Oracles -> OracleType]
    BY <1>2, <1>3
<1> QED
    BY <1>3, <1>4, <1>5 DEF n

\* changeOracles keeps the invariant, whoever is removed, added, or both in one call.
LEMMA ChangeKeepsInv ==
    ASSUME FluxInv, NEW removed \in SUBSET Oracles, NEW added \in SUBSET Oracles,
           NEW admin \in Admins, NEW terms \in RoundTerms,
           ChangeOracles(removed, added, admin, terms)
    PROVE  FluxInv'
<1> DEFINE n == reportingRoundId
           new == WithTerms(terms, futureRounds.payment, futureRounds.timeout)
           enabled == (EnabledOracles \ removed) \cup added
<1>1. n \in Nat /\ n \in 0..MaxRound /\ MaxRound \in Nat /\ RoundMax = MaxRound + 2
      /\ IsFiniteSet(Oracles)
    BY Bounds DEF FluxInv, FluxTypes, Rounds, RoundMax
<1>2. /\ removed \subseteq EnabledOracles
      /\ RoundsPossible(new, Cardinality(enabled))
      /\ futureRounds' = new
      /\ UNCHANGED <<roundVars, requesters, recordedFunds, linkBalance>>
    BY DEF ChangeOracles
<1>3. UNCHANGED <<reportingRoundId, age, latestRoundId, rounds, details>>
    BY <1>2 DEF roundVars
<1>4. /\ oracles' \in [Oracles -> OracleType]
      /\ \A o \in Oracles :
             /\ oracles'[o].withdrawable = oracles[o].withdrawable
             /\ oracles'[o].lastReportedRound = oracles[o].lastReportedRound
             /\ oracles'[o].lastStartedRound = oracles[o].lastStartedRound
             /\ o \in added =>
                    /\ oracles'[o].startingRound \in {n, n + 1} /\ oracles'[o].startingRound # 0
                    /\ oracles'[o].endingRound = RoundMax
             /\ o \in removed \ added =>
                    /\ oracles'[o].startingRound = oracles[o].startingRound
                    /\ oracles'[o].endingRound = n + 1
             /\ o \notin removed \cup added => oracles'[o] = oracles[o]
    BY OraclesChanged
<1>5. /\ new \in [payment : Payments, minSubmissions : Nat, maxSubmissions : Nat,
                  restartDelay : Nat, timeout : Timeouts]
    BY FluxAssumption DEF WithTerms, FluxInv, FluxTypes
<1> HIDE DEF n, new
<1>6. FluxTypes'
    BY <1>2, <1>3, <1>4, <1>5 DEF FluxInv, FluxTypes
<1>7. DetailsInv' /\ AnswersInv'
    BY <1>3 DEF FluxInv, DetailsInv, AnswersInv
<1>8. n + 1 # RoundMax /\ n + 1 \in Nat /\ n <= n + 1
    BY <1>1
<1>9. EnabledOracles' = enabled
    <2>1. ASSUME NEW o \in Oracles
          PROVE  oracles'[o].endingRound = RoundMax <=> o \in enabled
        <3>1. o \in EnabledOracles <=> oracles[o].endingRound = RoundMax
            BY DEF EnabledOracles, OracleEnabled
        <3> HIDE DEF EnabledOracles
        <3>2. CASE o \in added
            BY <1>4, <3>2
        <3>3. CASE o \in removed \ added
            BY <1>4, <1>8, <3>3
        <3>4. CASE o \notin removed \cup added
            BY <1>4, <3>1, <3>4
        <3> QED
            BY <3>2, <3>3, <3>4
    <2>2. enabled \subseteq Oracles
        BY DEF EnabledOracles
    <2>3. EnabledOracles' = {o \in Oracles : oracles'[o].endingRound = RoundMax}
        BY DEF EnabledOracles, OracleEnabled
    <2> HIDE DEF enabled
    <2> QED
        BY <2>1, <2>2, <2>3
<1>10. TermsInv'
    <2>1. /\ new.minSubmissions <= new.maxSubmissions
          /\ new.maxSubmissions <= Cardinality(enabled)
          /\ Cardinality(enabled) = 0 \/ new.restartDelay < Cardinality(enabled)
        <3>1. IsFiniteSet(enabled)
            <4>1. enabled \in SUBSET Oracles
                BY DEF EnabledOracles
            <4> QED
                BY <1>1, <4>1, FS_Subset
        <3>2. Cardinality(enabled) \in Nat
            BY <3>1, FS_CardinalityType
        <3> DEFINE count == Cardinality(enabled)
        <3> HIDE DEF count
        <3>3. /\ new.maxSubmissions >= new.minSubmissions /\ count >= new.maxSubmissions
              /\ count = 0 \/ count > new.restartDelay
            BY <1>2 DEF RoundsPossible, count
        <3> QED
            BY <1>5, <3>2, <3>3 DEF count
    <2>2. Cardinality(enabled) = 0 => enabled = {}
        <3>1. enabled \in SUBSET Oracles
            BY DEF EnabledOracles
        <3> HIDE DEF enabled
        <3> QED
            BY <1>1, <3>1, FS_Subset, FS_EmptySet
    <2> HIDE DEF enabled
    <2> QED
        BY <1>2, <1>9, <2>1, <2>2 DEF TermsInv
<1>11. \A o \in Oracles :
           /\ oracles[o].startingRound <= n + 1
           /\ oracles[o].endingRound <= n + 1 \/ oracles[o].endingRound = RoundMax
           /\ oracles[o].endingRound = RoundMax => oracles[o].startingRound # 0
           /\ oracles[o].lastReportedRound <= n /\ oracles[o].lastStartedRound <= n
    BY DEF FluxInv, OraclesInv, OracleEnabled, n
<1>12. OraclesInv'
    <2>1. ASSUME NEW o \in Oracles
          PROVE  /\ oracles'[o].startingRound <= n + 1
                 /\ oracles'[o].endingRound <= n + 1 \/ oracles'[o].endingRound = RoundMax
                 /\ oracles'[o].endingRound = RoundMax => oracles'[o].startingRound # 0
                 /\ oracles'[o].lastReportedRound <= n /\ oracles'[o].lastStartedRound <= n
        <3>1. CASE o \in added
            BY <1>1, <1>4, <1>8, <1>11, <3>1
        <3>2. CASE o \in removed \ added
            BY <1>1, <1>4, <1>8, <1>11, <3>2
        <3>3. CASE o \notin removed \cup added
            BY <1>4, <1>11, <3>3
        <3> QED
            BY <3>1, <3>2, <3>3
    <2>2. \A o, p \in Oracles :
              oracles'[o].lastStartedRound = oracles'[p].lastStartedRound =>
                  o = p \/ oracles'[o].lastStartedRound = 0
        BY <1>4 DEF FluxInv, OraclesInv
    <2> QED
        BY <1>3, <2>1, <2>2 DEF OraclesInv, OracleEnabled, n
<1>13. FundsAddUp'
    <2>1. Total(Owed', Oracles) = Total(Owed, Oracles)
        <3>1. Owed' = Owed
            BY <1>4 DEF Owed
        <3> QED
            BY <3>1
    <2> QED
        BY <1>2, <2>1 DEF FluxInv, FundsAddUp, Owed
<1>14. OneSubmissionEach'
    <2>1. \A k \in 1..reportingRoundId :
              {o \in Oracles : oracles'[o].lastReportedRound >= k}
                  = {o \in Oracles : oracles[o].lastReportedRound >= k}
        BY <1>4
    <2> QED
        BY <1>3, <1>4, <2>1 DEF FluxInv, OneSubmissionEach
<1>15. FinishInv'
    <2>1. MayStillAnswer \subseteq MayStillAnswer'
        <3> SUFFICES ASSUME NEW o \in MayStillAnswer PROVE o \in MayStillAnswer'
            OBVIOUS
        <3>1. /\ o \in Oracles /\ oracles[o].startingRound # 0 /\ oracles[o].lastReportedRound < n
              /\ oracles[o].startingRound <= n + 1 /\ n <= oracles[o].endingRound
            BY DEF MayStillAnswer, n
        <3>2. n <= RoundMax
            BY <1>1
        <3>3. /\ oracles'[o].startingRound # 0 /\ oracles'[o].lastReportedRound < n
              /\ oracles'[o].startingRound <= n + 1 /\ n <= oracles'[o].endingRound
            <4>1. CASE o \in added
                BY <1>1, <1>4, <1>8, <3>1, <3>2, <4>1
            <4>2. CASE o \in removed \ added
                BY <1>4, <1>8, <3>1, <4>2
            <4>3. CASE o \notin removed \cup added
                BY <1>4, <3>1, <4>3
            <4> QED
                BY <4>1, <4>2, <4>3
        <3> QED
            BY <1>3, <3>1, <3>3 DEF MayStillAnswer, n
    <2>2. MayStillAnswer' \in SUBSET Oracles /\ MayStillAnswer \in SUBSET Oracles
        BY DEF MayStillAnswer
    <2>3. /\ IsFiniteSet(MayStillAnswer') /\ Cardinality(MayStillAnswer') \in Nat
          /\ Cardinality(MayStillAnswer) \in Nat
        BY <1>1, <2>2, FS_Subset, FS_CardinalityType
    <2>4. Cardinality(MayStillAnswer) <= Cardinality(MayStillAnswer')
        BY <2>1, <2>3, FS_Subset
    <2>5. n \in Rounds /\ Len(details[n].submissions) \in Nat /\ details[n].min \in Nat
        <3>1. n \in Rounds /\ details[n] \in DetailsType
            BY DEF FluxInv, FluxTypes, n
        <3> QED
            BY <3>1, LenProperties DEF DetailsType
    <2>6. n > 0 /\ details[n].max > 0 =>
              Len(details[n].submissions) + Cardinality(MayStillAnswer) >= details[n].min
        BY DEF FluxInv, FinishInv, n
    <2>7. n > 0 /\ details[n].max > 0 =>
              Len(details[n].submissions) + Cardinality(MayStillAnswer') >= details[n].min
        BY <2>3, <2>4, <2>5, <2>6
    <2> QED
        BY <1>3, <2>7 DEF FinishInv, n
<1> QED
    BY <1>6, <1>7, <1>10, <1>12, <1>13, <1>14, <1>15 DEF FluxInv

\* The terms of the next rounds change alone.
LEMMA TermsKeepInv ==
    ASSUME FluxInv, NEW terms \in RoundTerms, NEW payment \in Payments, NEW timeout \in Timeouts,
           UpdateFutureRounds(WithTerms(terms, payment, timeout))
    PROVE  FluxInv'
<1> DEFINE new == WithTerms(terms, payment, timeout)
           count == Cardinality(EnabledOracles)
<1>1. /\ RoundsPossible(new, count) /\ futureRounds' = new
      /\ UNCHANGED <<reportingRoundId, age, latestRoundId, rounds, details, oracles, requesters,
                     recordedFunds, linkBalance>>
    BY DEF UpdateFutureRounds, roundVars
<1>2. new \in [payment : Payments, minSubmissions : Nat, maxSubmissions : Nat,
               restartDelay : Nat, timeout : Timeouts]
    BY FluxAssumption DEF WithTerms
<1> HIDE DEF new
<1>3. FluxTypes' /\ DetailsInv' /\ AnswersInv' /\ OraclesInv'
    BY <1>1, <1>2 DEF FluxInv, FluxTypes, DetailsInv, AnswersInv, OraclesInv, OracleEnabled
<1>4. FinishInv' /\ FundsAddUp' /\ OneSubmissionEach'
    BY <1>1 DEF FluxInv, FinishInv, MayStillAnswer, FundsAddUp, OneSubmissionEach
<1>5. TermsInv'
    <2>1. EnabledOracles' = EnabledOracles
        BY <1>1 DEF EnabledOracles, OracleEnabled
    <2>2. /\ new.maxSubmissions >= new.minSubmissions /\ count >= new.maxSubmissions
          /\ count = 0 \/ count > new.restartDelay
        BY <1>1 DEF RoundsPossible
    <2>3. count \in Nat /\ (count = 0 => EnabledOracles = {})
        BY EnabledCanAnswer, FS_EmptySet
    <2> HIDE DEF count
    <2>4. /\ new.minSubmissions <= new.maxSubmissions /\ new.maxSubmissions <= count
          /\ EnabledOracles # {} => new.restartDelay < count
        BY <1>2, <2>2, <2>3
    <2> QED
        BY <1>1, <2>1, <2>4 DEF TermsInv, count
<1> QED
    BY <1>3, <1>4, <1>5 DEF FluxInv

\* LINK comes in or goes out, in a way that leaves enough for what is owed.
LEMMA FundsKeepInv ==
    ASSUME FluxInv,
           UNCHANGED <<roundVars, requesters, futureRounds>>,
           UNCHANGED oracles,
           linkBalance' \in 0..MaxLink,
           recordedFunds'.available \in Nat,
           recordedFunds' = [recordedFunds EXCEPT !.available = recordedFunds'.available],
           recordedFunds'.available + recordedFunds.allocated <= linkBalance'
    PROVE  FluxInv'
<1>1. UNCHANGED <<reportingRoundId, age, latestRoundId, rounds, details, oracles, requesters,
                  futureRounds>>
    BY DEF roundVars
<1>2. recordedFunds' \in [available : Nat, allocated : Nat]
      /\ recordedFunds'.allocated = recordedFunds.allocated
    <2> DEFINE a == recordedFunds'.available
    <2>1. recordedFunds' = [recordedFunds EXCEPT !.available = a] /\ a \in Nat
        OBVIOUS
    <2> HIDE DEF a
    <2> QED
        BY <2>1 DEF FluxInv, FluxTypes
<1>3. FluxTypes' /\ DetailsInv' /\ AnswersInv' /\ OraclesInv'
    BY <1>1, <1>2 DEF FluxInv, FluxTypes, DetailsInv, AnswersInv, OraclesInv, OracleEnabled
<1>4. FinishInv' /\ OneSubmissionEach' /\ TermsInv'
    BY <1>1 DEF FluxInv, FinishInv, MayStillAnswer, OneSubmissionEach, TermsInv, EnabledOracles,
                OracleEnabled
<1>5. FundsAddUp'
    BY <1>1, <1>2 DEF FluxInv, FundsAddUp
<1> QED
    BY <1>3, <1>4, <1>5 DEF FluxInv

\* LINK that comes and goes keeps the invariant, counted or not.
LEMMA LinkKeepsInv ==
    ASSUME FluxInv, NEW amount \in Nat,
           \/ LinkArrives(amount) \/ OnTokenTransfer(amount)
           \/ UpdateAvailableFunds \/ WithdrawFunds(amount)
    PROVE  FluxInv'
<1> DEFINE available == recordedFunds.available
           allocated == recordedFunds.allocated
<1>1. /\ amount \in Nat /\ MaxLink \in Nat /\ linkBalance \in 0..MaxLink
      /\ recordedFunds \in [available : Nat, allocated : Nat]
      /\ available \in Nat /\ allocated \in Nat
      /\ available + allocated <= linkBalance
    BY FluxAssumption DEF FluxInv, FluxTypes, FundsAddUp
<1> HIDE DEF available, allocated
<1>2. ASSUME NEW balance \in Nat, recordedFunds' = RecountedFunds(balance),
             balance >= allocated
      PROVE  /\ recordedFunds'.available = balance - allocated
             /\ recordedFunds'.available \in Nat
             /\ recordedFunds' = [recordedFunds EXCEPT !.available = recordedFunds'.available]
             /\ recordedFunds'.available + recordedFunds.allocated <= balance
    <2> DEFINE a == balance - allocated
    <2>1. recordedFunds' = [recordedFunds EXCEPT !.available = a]
        BY <1>2 DEF RecountedFunds, allocated
    <2>2. a \in Nat /\ a + allocated <= balance
        BY <1>1, <1>2
    <2> HIDE DEF a
    <2>3. recordedFunds'.available = a
        BY <1>1, <2>1
    <2> QED
        BY <2>1, <2>2, <2>3 DEF a, allocated
<1>3. CASE LinkArrives(amount)
    <2>1. /\ linkBalance' = linkBalance + amount /\ linkBalance + amount <= MaxLink
          /\ recordedFunds' = recordedFunds
          /\ UNCHANGED <<roundVars, requesters, futureRounds>> /\ UNCHANGED oracles
        BY <1>3 DEF LinkArrives
    <2>2. linkBalance' \in 0..MaxLink
        BY <1>1, <2>1
    <2>3. recordedFunds = [recordedFunds EXCEPT !.available = recordedFunds.available]
        BY <1>1
    <2>4. recordedFunds'.available \in Nat
          /\ recordedFunds'.available + recordedFunds.allocated <= linkBalance'
        BY <1>1, <2>1 DEF available, allocated
    <2> QED
        BY <2>1, <2>2, <2>3, <2>4, FundsKeepInv
<1>4. CASE OnTokenTransfer(amount)
    <2>1. /\ linkBalance' = linkBalance + amount /\ linkBalance + amount <= MaxLink
          /\ recordedFunds' = RecountedFunds(linkBalance + amount)
          /\ UNCHANGED <<roundVars, requesters, futureRounds>> /\ UNCHANGED oracles
        BY <1>4 DEF OnTokenTransfer
    <2>2. linkBalance + amount \in 0..MaxLink /\ linkBalance + amount \in Nat
          /\ linkBalance + amount >= allocated
        BY <1>1, <2>1
    <2> QED
        BY <1>2, <2>1, <2>2, FundsKeepInv
<1>5. CASE UpdateAvailableFunds
    <2>1. /\ linkBalance' = linkBalance
          /\ recordedFunds' = RecountedFunds(linkBalance)
          /\ UNCHANGED <<roundVars, requesters, futureRounds>> /\ UNCHANGED oracles
        BY <1>5 DEF UpdateAvailableFunds
    <2>2. linkBalance \in Nat /\ linkBalance >= allocated
        BY <1>1
    <2> QED
        BY <1>1, <1>2, <2>1, <2>2, FundsKeepInv
<1>6. CASE WithdrawFunds(amount)
    <2>1. /\ available - amount >= RequiredReserve(futureRounds.payment, Cardinality(EnabledOracles))
          /\ linkBalance' = linkBalance - amount
          /\ recordedFunds' = RecountedFunds(linkBalance - amount)
          /\ UNCHANGED <<roundVars, requesters, futureRounds>> /\ UNCHANGED oracles
        BY <1>6 DEF WithdrawFunds, available
    <2>2. RequiredReserve(futureRounds.payment, Cardinality(EnabledOracles)) \in Nat
        <3>1. Cardinality(EnabledOracles) \in Nat
            BY EnabledCanAnswer
        <3>2. futureRounds.payment \in Nat
            BY FluxAssumption DEF FluxInv, FluxTypes
        <3>3. \A x, y \in Nat : x * y * 2 \in Nat
            OBVIOUS
        <3> QED
            BY <3>1, <3>2, <3>3 DEF RequiredReserve
    <2>3. linkBalance - amount \in 0..MaxLink /\ linkBalance - amount \in Nat
          /\ linkBalance - amount >= allocated
        BY <1>1, <2>1, <2>2
    <2> QED
        BY <1>2, <2>1, <2>3, FundsKeepInv
<1> QED
    BY <1>3, <1>4, <1>5, <1>6

\* An oracle's money and admins have no part in the rounds.
LEMMA AccountsKeepRounds ==
    ASSUME FluxInv, UNCHANGED <<roundVars, requesters, futureRounds>>,
           oracles' \in [Oracles -> OracleType],
           \A o \in Oracles :
               /\ oracles'[o].startingRound = oracles[o].startingRound
               /\ oracles'[o].endingRound = oracles[o].endingRound
               /\ oracles'[o].lastReportedRound = oracles[o].lastReportedRound
               /\ oracles'[o].lastStartedRound = oracles[o].lastStartedRound,
           recordedFunds' \in [available : Nat, allocated : Nat], linkBalance' \in 0..MaxLink
    PROVE  FluxTypes' /\ DetailsInv' /\ AnswersInv' /\ OraclesInv' /\ TermsInv' /\ FinishInv'
<1>1. UNCHANGED <<reportingRoundId, age, latestRoundId, rounds, details, requesters, futureRounds>>
    BY DEF roundVars
<1>2. FluxTypes'
    BY <1>1 DEF FluxInv, FluxTypes
<1>3. DetailsInv' /\ AnswersInv'
    BY <1>1 DEF FluxInv, DetailsInv, AnswersInv
<1>4. OraclesInv'
    BY <1>1 DEF FluxInv, OraclesInv, OracleEnabled
<1>5. EnabledOracles' = EnabledOracles /\ MayStillAnswer' = MayStillAnswer
    BY <1>1 DEF EnabledOracles, OracleEnabled, MayStillAnswer
<1>6. TermsInv' /\ FinishInv'
    BY <1>1, <1>5 DEF FluxInv, TermsInv, FinishInv
<1> QED
    BY <1>2, <1>3, <1>4, <1>6

\* withdrawPayment keeps the invariant: what is paid was the oracle's, and is allocated no
\* more.
LEMMA PaymentKeepsInv ==
    ASSUME FluxInv, NEW o \in Oracles, NEW caller \in Admins, NEW amount \in LinkAmounts,
           WithdrawPayment(o, caller, amount)
    PROVE  FluxInv'
<1> DEFINE old == oracles[o]
           left == old.withdrawable - amount
           row == [old EXCEPT !.withdrawable = left]
<1>1. /\ amount \in Nat /\ IsFiniteSet(Oracles) /\ MaxLink \in Nat
      /\ linkBalance \in 0..MaxLink /\ recordedFunds \in [available : Nat, allocated : Nat]
      /\ Max(Payments) \in Nat
    BY FluxAssumption, Bounds DEF FluxInv, FluxTypes
<1>2. /\ old.withdrawable >= amount
      /\ oracles' = [oracles EXCEPT ![o] = row]
      /\ recordedFunds' = [recordedFunds EXCEPT !.allocated = recordedFunds.allocated - amount]
      /\ linkBalance' = linkBalance - amount
      /\ UNCHANGED <<roundVars, requesters, futureRounds>>
    BY DEF WithdrawPayment
<1>3. old \in OracleType /\ oracles \in [Oracles -> OracleType]
    BY DEF FluxInv, FluxTypes
<1> HIDE DEF old
<1>4. left \in Nat /\ old.withdrawable \in Nat /\ left <= old.withdrawable
    BY <1>1, <1>2, <1>3 DEF OracleType
<1> HIDE DEF left
<1>5. /\ row \in OracleType /\ row.withdrawable = left
      /\ row.startingRound = old.startingRound /\ row.endingRound = old.endingRound
      /\ row.lastReportedRound = old.lastReportedRound /\ row.lastStartedRound = old.lastStartedRound
    BY <1>3, <1>4 DEF OracleType
<1> HIDE DEF row
<1>6. /\ oracles' \in [Oracles -> OracleType]
      /\ oracles'[o] = row /\ \A p \in Oracles \ {o} : oracles'[p] = oracles[p]
    BY <1>2, <1>3, <1>5
<1>7. \A p \in Oracles :
          /\ oracles'[p].startingRound = oracles[p].startingRound
          /\ oracles'[p].endingRound = oracles[p].endingRound
          /\ oracles'[p].lastReportedRound = oracles[p].lastReportedRound
          /\ oracles'[p].lastStartedRound = oracles[p].lastStartedRound
    BY <1>5, <1>6 DEF old
<1>8. Total(Owed', Oracles) = Total(Owed, Oracles) - amount /\ Total(Owed', Oracles) \in Nat
    <2>1. \A p \in Oracles : Owed'[p] \in Nat /\ Owed[p] \in Nat
        BY <1>3, <1>6 DEF Owed, OracleType
    <2>2. \A p \in Oracles \ {o} : Owed'[p] = Owed[p]
        BY <1>6 DEF Owed
    <2>3. Owed'[o] = left /\ Owed[o] = old.withdrawable
        BY <1>5, <1>6 DEF Owed, old
    <2> HIDE DEF Owed
    <2>4. Total(Owed', Oracles) = Total(Owed, Oracles) + (Owed'[o] - Owed[o])
        <3>1. \A p \in Oracles : Owed[p] \in Int /\ Owed'[p] \in Int
            BY <2>1
        <3> QED
            BY <1>1, <2>2, <3>1, TotalChanges
    <2>5. Total(Owed', Oracles) \in Nat /\ Total(Owed, Oracles) \in Nat
        BY <1>1, <2>1, TotalOfNaturals
    <2> QED
        BY <1>1, <1>4, <2>3, <2>4, <2>5 DEF left
<1>9. recordedFunds.allocated = Total(Owed, Oracles)
      /\ recordedFunds.available + recordedFunds.allocated <= linkBalance
    BY DEF FluxInv, FundsAddUp, Owed
<1> DEFINE allocated == recordedFunds.allocated - amount
<1>10. allocated \in Nat /\ allocated = Total(Owed', Oracles)
    BY <1>1, <1>8, <1>9
<1>11. recordedFunds' = [recordedFunds EXCEPT !.allocated = allocated]
    BY <1>2
<1> HIDE DEF allocated
<1>12. /\ recordedFunds' \in [available : Nat, allocated : Nat]
       /\ recordedFunds'.allocated = allocated
       /\ recordedFunds'.available = recordedFunds.available
    BY <1>1, <1>10, <1>11
<1>13. linkBalance' \in 0..MaxLink
       /\ recordedFunds'.available + recordedFunds'.allocated <= linkBalance'
    BY <1>1, <1>2, <1>9, <1>10, <1>12 DEF allocated
<1>14. FluxTypes' /\ DetailsInv' /\ AnswersInv' /\ OraclesInv' /\ TermsInv' /\ FinishInv'
    BY <1>2, <1>6, <1>7, <1>12, <1>13, AccountsKeepRounds
<1>15. FundsAddUp'
    BY <1>10, <1>12, <1>13 DEF FundsAddUp, Owed
<1>16. OneSubmissionEach'
    <2>1. UNCHANGED <<reportingRoundId, details>>
        BY <1>2 DEF roundVars
    <2>2. \A p \in Oracles :
              oracles'[p].withdrawable <= Max(Payments) * oracles'[p].lastReportedRound
        <3> SUFFICES ASSUME NEW p \in Oracles
                     PROVE  oracles'[p].withdrawable <= Max(Payments) * oracles'[p].lastReportedRound
            OBVIOUS
        <3> DEFINE bound == Max(Payments) * oracles[p].lastReportedRound
        <3>1. oracles[p].withdrawable <= bound /\ oracles[p].withdrawable \in Nat /\ bound \in Nat
            <4>1. oracles[p].lastReportedRound \in Nat /\ oracles[p].withdrawable \in Nat
                BY <1>3 DEF OracleType
            <4>2. bound \in Nat
                BY <1>1, <4>1
            <4> QED
                BY <4>1, <4>2 DEF FluxInv, OneSubmissionEach
        <3>2. oracles'[p].withdrawable <= oracles[p].withdrawable /\ oracles'[p].withdrawable \in Nat
            <4>1. CASE p = o
                BY <1>4, <1>5, <1>6, <4>1 DEF old
            <4>2. CASE p # o
                BY <1>6, <3>1, <4>2
            <4> QED
                BY <4>1, <4>2
        <3>3. Max(Payments) * oracles'[p].lastReportedRound = bound
            BY <1>7
        <3> HIDE DEF bound
        <3> QED
            BY <3>1, <3>2, <3>3
    <2>3. \A k \in 1..reportingRoundId :
              {p \in Oracles : oracles'[p].lastReportedRound >= k}
                  = {p \in Oracles : oracles[p].lastReportedRound >= k}
        BY <1>7
    <2> QED
        BY <2>1, <2>2, <2>3 DEF FluxInv, OneSubmissionEach
<1> QED
    BY <1>14, <1>15, <1>16 DEF FluxInv

\* A change of admins keeps the invariant.
LEMMA AdminsKeepInv ==
    ASSUME FluxInv, NEW o \in Oracles, NEW caller \in Admins, NEW newAdmin \in Admins,
           TransferAdmin(o, caller, newAdmin) \/ AcceptAdmin(o, caller)
    PROVE  FluxInv'
<1> DEFINE old == oracles[o]
<1>1. /\ oracles \in [Oracles -> OracleType] /\ old \in OracleType
      /\ recordedFunds \in [available : Nat, allocated : Nat] /\ linkBalance \in 0..MaxLink
    BY DEF FluxInv, FluxTypes
<1>2. PICK row : /\ oracles' = [oracles EXCEPT ![o] = row]
                 /\ \/ row = [old EXCEPT !.pendingAdmin = newAdmin]
                    \/ row = [old EXCEPT !.pendingAdmin = NoAdmin, !.admin = caller]
    BY ZenonT(60) DEF TransferAdmin, AcceptAdmin
<1>3. UNCHANGED <<roundVars, requesters, futureRounds, recordedFunds, linkBalance>>
    BY DEF TransferAdmin, AcceptAdmin
<1> HIDE DEF old
<1>4. /\ row \in OracleType /\ row.withdrawable = old.withdrawable
      /\ row.startingRound = old.startingRound /\ row.endingRound = old.endingRound
      /\ row.lastReportedRound = old.lastReportedRound /\ row.lastStartedRound = old.lastStartedRound
    <2>1. CASE row = [old EXCEPT !.pendingAdmin = newAdmin]
        BY <1>1, <2>1 DEF OracleType
    <2>2. CASE row = [old EXCEPT !.pendingAdmin = NoAdmin, !.admin = caller]
        BY <1>1, <2>2 DEF OracleType
    <2> QED
        BY <1>2, <2>1, <2>2
<1>5. /\ oracles' \in [Oracles -> OracleType]
      /\ oracles'[o] = row /\ \A p \in Oracles \ {o} : oracles'[p] = oracles[p]
    BY <1>1, <1>2, <1>4
<1>6. \A p \in Oracles :
          /\ oracles'[p].startingRound = oracles[p].startingRound
          /\ oracles'[p].endingRound = oracles[p].endingRound
          /\ oracles'[p].lastReportedRound = oracles[p].lastReportedRound
          /\ oracles'[p].lastStartedRound = oracles[p].lastStartedRound
          /\ oracles'[p].withdrawable = oracles[p].withdrawable
    BY <1>4, <1>5 DEF old
<1>7. FluxTypes' /\ DetailsInv' /\ AnswersInv' /\ OraclesInv' /\ TermsInv' /\ FinishInv'
    BY <1>1, <1>3, <1>5, <1>6, AccountsKeepRounds
<1>8. FundsAddUp'
    <2>1. Owed' = Owed
        BY <1>6 DEF Owed
    <2> QED
        BY <1>3, <2>1 DEF FluxInv, FundsAddUp, Owed
<1>9. OneSubmissionEach'
    <2>1. UNCHANGED <<reportingRoundId, details>>
        BY <1>3 DEF roundVars
    <2>2. \A k \in 1..reportingRoundId :
              {p \in Oracles : oracles'[p].lastReportedRound >= k}
                  = {p \in Oracles : oracles[p].lastReportedRound >= k}
        BY <1>6
    <2> QED
        BY <1>6, <2>1, <2>2 DEF FluxInv, OneSubmissionEach
<1> QED
    BY <1>7, <1>8, <1>9 DEF FluxInv

\* Requesters and the age of the round do not touch the rest.
LEMMA RestKeepsInv ==
    ASSUME FluxInv,
           \/ Tick
           \/ \E q \in Requesters, authorized \in BOOLEAN, delay \in Delays :
                  SetRequesterPermissions(q, authorized, delay)
           \/ UNCHANGED aggregatorVars
    PROVE  FluxInv'
<1>1. UNCHANGED <<reportingRoundId, latestRoundId, rounds, details, oracles, futureRounds,
                  recordedFunds, linkBalance>>
    BY DEF Tick, SetRequesterPermissions, aggregatorVars, roundVars
<1>2. age' \in 0..OldAge
    <2>1. age \in 0..OldAge /\ OldAge \in Nat
        BY Bounds DEF FluxInv, FluxTypes
    <2>2. CASE Tick
        <3> DEFINE S == {age + 1, OldAge}
        <3>1. age' = Min(S) /\ S \subseteq 0 .. OldAge + 1 /\ S # {}
            BY <2>1, <2>2 DEF Tick
        <3>2. \E m \in S : \A x \in S : m <= x
            BY <2>1
        <3>3. Min(S) \in S /\ \A x \in S : Min(S) <= x
            BY <3>2 DEF Min
        <3>4. Min(S) <= OldAge
            BY <3>3
        <3> QED
            BY <2>1, <3>1, <3>3, <3>4
    <2>3. CASE ~Tick
        BY <2>1, <2>3 DEF SetRequesterPermissions, aggregatorVars, roundVars
    <2> QED
        BY <2>2, <2>3
<1>3. requesters' \in [Requesters -> [authorized : BOOLEAN, delay : Nat, lastStartedRound : Nat]]
    <2> DEFINE R == [authorized : BOOLEAN, delay : Nat, lastStartedRound : Nat]
    <2>1. requesters \in [Requesters -> R] /\ Delays \subseteq Nat
        BY FluxAssumption DEF FluxInv, FluxTypes
    <2>2. CASE Tick \/ UNCHANGED aggregatorVars
        BY <2>1, <2>2 DEF Tick, aggregatorVars
    <2>3. ASSUME NEW q \in Requesters, NEW authorized \in BOOLEAN, NEW delay \in Delays,
                 SetRequesterPermissions(q, authorized, delay)
          PROVE  requesters' \in [Requesters -> R]
        <3> DEFINE old == requesters[q]
                   row == IF authorized THEN [old EXCEPT !.authorized = TRUE, !.delay = delay]
                          ELSE NoRequester
        <3>1. requesters' = [requesters EXCEPT ![q] = row]
            BY <2>3 DEF SetRequesterPermissions
        <3>2. old \in R /\ NoRequester \in R /\ delay \in Nat
            BY <2>1 DEF NoRequester
        <3> HIDE DEF old
        <3>3. row \in R
            BY <3>2
        <3> HIDE DEF row, R
        <3> QED
            BY <2>1, <3>1, <3>3
    <2> QED
        BY <2>2, <2>3
<1>4. FluxTypes'
    BY <1>1, <1>2, <1>3 DEF FluxInv, FluxTypes
<1>5. DetailsInv' /\ AnswersInv' /\ OraclesInv'
    BY <1>1 DEF FluxInv, DetailsInv, AnswersInv, OraclesInv, OracleEnabled
<1>6. TermsInv' /\ FinishInv'
    BY <1>1 DEF FluxInv, TermsInv, EnabledOracles, OracleEnabled, FinishInv, MayStillAnswer
<1>7. FundsAddUp' /\ OneSubmissionEach'
    BY <1>1 DEF FluxInv, FundsAddUp, OneSubmissionEach
<1> QED
    BY <1>4, <1>5, <1>6, <1>7 DEF FluxInv

\* Every step keeps the invariant.
LEMMA FluxNext ==
    FluxInv /\ [AggregatorNext]_aggregatorVars => FluxInv'
<1> SUFFICES ASSUME FluxInv, [AggregatorNext]_aggregatorVars PROVE FluxInv'
    OBVIOUS
<1>0. LinkAmounts \subseteq Nat
    BY FluxAssumption
<1>1. CASE AnyoneNext
    <2>1. CASE \E q \in Requesters : RequestNewRound(q)
        BY <2>1, RequestKeepsInv
    <2>2. CASE \E amount \in LinkAmounts : LinkArrives(amount) \/ OnTokenTransfer(amount)
        BY <1>0, <2>2, LinkKeepsInv
    <2>3. CASE UpdateAvailableFunds
        <3>1. 0 \in Nat
            OBVIOUS
        <3> QED
            BY <2>3, <3>1, LinkKeepsInv
    <2>4. CASE Tick
        BY <2>4, RestKeepsInv
    <2> QED
        BY <1>1, <2>1, <2>2, <2>3, <2>4 DEF AnyoneNext
<1>2. CASE OracleNext
    <2> PICK o \in Oracles :
            \/ \E r \in 1..MaxRound, answer \in SubmissionValues : Submit(o, r, answer)
            \/ \E caller \in Admins, amount \in LinkAmounts : WithdrawPayment(o, caller, amount)
            \/ \E caller, newAdmin \in Admins : TransferAdmin(o, caller, newAdmin)
            \/ \E caller \in Admins : AcceptAdmin(o, caller)
        BY <1>2 DEF OracleNext
    <2>1. CASE \E r \in 1..MaxRound, answer \in SubmissionValues : Submit(o, r, answer)
        BY <2>1, SubmitKeepsInv
    <2>2. CASE \E caller \in Admins, amount \in LinkAmounts : WithdrawPayment(o, caller, amount)
        BY <2>2, PaymentKeepsInv
    <2>3. CASE \E caller, newAdmin \in Admins : TransferAdmin(o, caller, newAdmin)
        BY <2>3, AdminsKeepInv
    <2>4. CASE \E caller \in Admins : AcceptAdmin(o, caller)
        BY <2>4, AdminsKeepInv
    <2> QED
        BY <2>1, <2>2, <2>3, <2>4
<1>3. CASE OwnerNext
    <2>1. CASE \E removed, added \in SUBSET Oracles, admin \in Admins, terms \in RoundTerms :
                   ChangeOracles(removed, added, admin, terms)
        BY <2>1, ChangeKeepsInv
    <2>2. CASE \E terms \in RoundTerms, payment \in Payments, timeout \in Timeouts :
                   UpdateFutureRounds(WithTerms(terms, payment, timeout))
        BY <2>2, TermsKeepInv
    <2>3. CASE \E q \in Requesters, authorized \in BOOLEAN, delay \in Delays :
                   SetRequesterPermissions(q, authorized, delay)
        BY <2>3, RestKeepsInv
    <2>4. CASE \E amount \in LinkAmounts : WithdrawFunds(amount)
        BY <1>0, <2>4, LinkKeepsInv
    <2> QED
        BY <1>3, <2>1, <2>2, <2>3, <2>4 DEF OwnerNext
<1>4. CASE UNCHANGED aggregatorVars
    BY <1>4, RestKeepsInv
<1> QED
    BY <1>1, <1>2, <1>3, <1>4 DEF AggregatorNext

\* In every reachable state the tables of the rounds, the oracles, the terms and the funds
\* fit together.
THEOREM FluxInvariant == AggregatorSpec => []FluxInv
BY FluxInit, FluxNext, PTL DEF AggregatorSpec

\* The feed's variables stay in their types, its rounds in their bounds.
LEMMA FluxTypesFollow ==
    FluxInv => AggregatorTypeOK
<1> SUFFICES ASSUME FluxInv PROVE AggregatorTypeOK
    OBVIOUS
<1> DEFINE n == reportingRoundId
<1>1. /\ n \in Rounds /\ n \in Nat /\ latestRoundId \in 0..n /\ age \in 0..OldAge
      /\ rounds \in [Rounds -> RoundType] /\ details \in [Rounds -> DetailsType]
      /\ oracles \in [Oracles -> OracleType]
      /\ recordedFunds \in [available : Nat, allocated : Nat] /\ linkBalance \in 0..MaxLink
      /\ \A r \in Rounds : r \in Nat
    BY Bounds DEF FluxInv, FluxTypes
<1>2. ASSUME NEW r \in Rounds
      PROVE  /\ rounds[r].answer \in 0..Max(SubmissionValues)
             /\ rounds[r].answeredInRound \in 0..n
             /\ Len(details[r].submissions) \in 0..Max({details[r].max - 1, 0})
    <2>1. rounds[r].answer \in 0..Max(SubmissionValues) /\ rounds[r].answeredInRound \in Nat
        BY <1>1 DEF RoundType
    <2>2. rounds[r].answeredInRound <= n
        <3>1. CASE rounds[r].updated
            <4>1. ~(r > n) /\ rounds[r].answeredInRound <= r
                BY <3>1 DEF FluxInv, AnswersInv, AnswersOK
            <4> QED
                BY <1>1, <2>1, <4>1
        <3>2. CASE ~rounds[r].updated
            <4>1. rounds[r].answeredInRound = 0
                BY <3>2 DEF FluxInv, AnswersInv, AnswersOK
            <4> QED
                BY <1>1, <4>1
        <3> QED
            BY <3>1, <3>2
    <2>3. Len(details[r].submissions) \in 0..Max({details[r].max - 1, 0})
        <3> DEFINE most == details[r].max
                   S == {most - 1, 0}
                   length == Len(details[r].submissions)
        <3>1. most \in Nat /\ length \in Nat
            BY <1>1, LenProperties DEF DetailsType
        <3>2. /\ most = 0 => length = 0
              /\ most > 0 => length < most
            BY DEF FluxInv, DetailsInv, DetailsOK
        <3> HIDE DEF most, length
        <3>3. IsFiniteSet(S) /\ S \subseteq Int /\ S # {}
            <4>1. IsFiniteSet({0}) /\ S = {0} \cup {most - 1}
                BY FS_Singleton
            <4>2. IsFiniteSet({0} \cup {most - 1})
                BY <4>1, FS_AddElement
            <4>3. S \subseteq Int /\ S # {}
                BY <3>1
            <4> HIDE DEF S
            <4> QED
                BY <4>1, <4>2, <4>3, Zenon
        <3> HIDE DEF S
        <3>4. Max(S) \in S /\ \A x \in S : x <= Max(S)
            BY <3>3, MaxBounds
        <3>5. Max(S) \in Int /\ most - 1 <= Max(S) /\ 0 <= Max(S)
            BY <3>3, <3>4 DEF S
        <3>6. length \in 0..Max(S)
            BY <3>1, <3>2, <3>5
        <3> QED
            BY <3>6 DEF length, S, most
    <2> QED
        BY <2>1, <2>2, <2>3, <1>1
<1>3. ASSUME NEW o \in Oracles
      PROVE  /\ oracles[o].withdrawable \in Nat
             /\ oracles[o].startingRound \in 0..n + 1
             /\ oracles[o].endingRound \in 0..n + 1 \cup {RoundMax}
             /\ oracles[o].lastReportedRound \in 0..n
             /\ oracles[o].lastStartedRound \in 0..n
             /\ {oracles[o].admin, oracles[o].pendingAdmin} \subseteq Admins \cup {NoAdmin}
    <2>1. oracles[o] \in OracleType
        BY <1>1
    <2>2. /\ oracles[o].startingRound <= n + 1
          /\ oracles[o].endingRound <= n + 1 \/ oracles[o].endingRound = RoundMax
          /\ oracles[o].lastReportedRound <= n
          /\ oracles[o].lastStartedRound <= n
        BY DEF FluxInv, OraclesInv, OracleEnabled
    <2>3. /\ oracles[o].startingRound \in Nat /\ oracles[o].endingRound \in Nat
          /\ oracles[o].lastReportedRound \in Nat /\ oracles[o].lastStartedRound \in Nat
          /\ oracles[o].withdrawable \in Nat
          /\ oracles[o].admin \in Admins \cup {NoAdmin}
          /\ oracles[o].pendingAdmin \in Admins \cup {NoAdmin}
        BY <2>1, Bounds DEF OracleType, RoundMax
    <2> QED
        BY <1>1, <2>2, <2>3
<1>4. /\ futureRounds.payment \in Payments /\ futureRounds.timeout \in Timeouts
      /\ futureRounds.minSubmissions <= futureRounds.maxSubmissions
      /\ futureRounds.maxSubmissions <= Cardinality(EnabledOracles)
    BY DEF FluxInv, FluxTypes, TermsInv
<1> QED
    BY <1>1, <1>2, <1>3, <1>4 DEF AggregatorTypeOK

-----------------------------------------------------------------------------
\* If all the enabled oracles had to wait, they would have started as many of the last
\* rounds as there are enabled oracles, and the delay is shorter.
LEMMA NextRoundFollows ==
    FluxInv => NextRoundCanStart
<1> SUFFICES ASSUME FluxInv, Supersedable(reportingRoundId), EnabledOracles # {}
             PROVE  \E o \in EnabledOracles :
                        /\ ValidateOracleRound(o, reportingRoundId + 1)
                        /\ Delayed(o, reportingRoundId + 1)
    BY DEF NextRoundCanStart
<1> DEFINE n == reportingRoundId
           delay == futureRounds.restartDelay
           first == n + 1 - delay
           T == first..n
           started == [o \in EnabledOracles |-> oracles[o].lastStartedRound]
<1>1. /\ n \in Nat /\ n \in 0..MaxRound /\ delay \in Nat /\ RoundMax = MaxRound + 2 /\ MaxRound \in Nat
      /\ delay < Cardinality(EnabledOracles)
    BY Bounds DEF FluxInv, FluxTypes, TermsInv, Rounds, RoundMax
<1>2. /\ IsFiniteSet(EnabledOracles) /\ Cardinality(EnabledOracles) \in Nat
      /\ \A o \in EnabledOracles :
             /\ o \in Oracles /\ oracles[o].endingRound = RoundMax
             /\ oracles[o].startingRound # 0 /\ oracles[o].startingRound \in Nat
             /\ oracles[o].startingRound <= n + 1
             /\ oracles[o].lastReportedRound \in Nat
             /\ oracles[o].lastReportedRound <= n
    BY EnabledCanAnswer
<1>3. \A o \in EnabledOracles : oracles[o].lastStartedRound \in Nat /\ oracles[o].lastStartedRound <= n
    BY <1>2, Bounds DEF FluxInv, FluxTypes, OracleType, OraclesInv
<1> HIDE DEF n, delay
<1>4. \E o \in EnabledOracles :
          n + 1 > oracles[o].lastStartedRound + delay \/ oracles[o].lastStartedRound = 0
    <2> SUFFICES ASSUME \A o \in EnabledOracles :
                            /\ ~(n + 1 > oracles[o].lastStartedRound + delay)
                            /\ oracles[o].lastStartedRound # 0
                 PROVE  FALSE
        OBVIOUS
    <2>1. \A o \in EnabledOracles : started[o] \in T
        BY <1>1, <1>3
    <2>2. IsFiniteSet(T) /\ Cardinality(T) = delay
        <3>1. first \in Int /\ n \in Int
            BY <1>1
        <3>2. (IF first > n THEN 0 ELSE n - first + 1) = delay
            BY <1>1
        <3> HIDE DEF first
        <3>3. IsFiniteSet(T) /\ Cardinality(T) = IF first > n THEN 0 ELSE n - first + 1
            BY <3>1, FS_Interval
        <3> HIDE DEF T
        <3> QED
            BY <3>2, <3>3, Zenon
    <2>3. started \in [EnabledOracles -> T]
        BY <2>1
    <2> HIDE DEF T, started
    <2>4. \E o, p \in EnabledOracles : o # p /\ started[o] = started[p]
        BY <1>1, <1>2, <2>2, <2>3, FS_PigeonHole
    <2> PICK o, p \in EnabledOracles : o # p /\ started[o] = started[p]
        BY <2>4
    <2>5. oracles[o].lastStartedRound = oracles[p].lastStartedRound
        BY DEF started
    <2>6. oracles[o].lastStartedRound = 0
        BY <1>2, <2>5 DEF FluxInv, OraclesInv
    <2> QED
        BY <2>6
<1>5. ASSUME NEW o \in EnabledOracles PROVE ValidateOracleRound(o, n + 1)
    <2> DEFINE r == n + 1
    <2>1. /\ oracles[o].startingRound # 0 /\ oracles[o].startingRound <= r
          /\ r <= oracles[o].endingRound /\ oracles[o].lastReportedRound < r
        BY <1>1, <1>2
    <2>2. NewRound(r) /\ r - 1 = reportingRoundId
        BY <1>1 DEF NewRound, n
    <2> HIDE DEF r
    <2>3. ValidateOracleRound(o, r)
        BY <2>1, <2>2 DEF ValidateOracleRound
    <2> QED
        BY <2>3 DEF r
<1> QED
    BY <1>4, <1>5 DEF Delayed, n, delay

\* Those who may still answer the round may do so now, unless they joined during it.
LEMMA RoundFollows ==
    FluxInv => RoundCanFinish
<1> DEFINE n == reportingRoundId
           mayAnswer == {o \in Oracles : ValidateOracleRound(o, n)}
           joined == {o \in Oracles : oracles[o].startingRound = n + 1}
<1> SUFFICES ASSUME FluxInv, ~Supersedable(n), AcceptingSubmissions(n)
             PROVE  Len(details[n].submissions) + Cardinality(mayAnswer \cup joined) >= details[n].min
    BY DEF RoundCanFinish
<1>1. n \in Nat /\ n \in Rounds /\ IsFiniteSet(Oracles) /\ \A r \in Rounds : r \in Nat
    BY Bounds DEF FluxInv, FluxTypes
<1>2. details[n].max > 0 /\ Len(details[n].submissions) \in Nat /\ details[n].min \in Nat
    <2>1. details[n] \in DetailsType
        BY <1>1 DEF FluxInv, FluxTypes
    <2>2. details[n].max # 0
        BY DEF AcceptingSubmissions
    <2> QED
        BY <2>1, <2>2, LenProperties DEF DetailsType
<1>3. n > 0
    <2>1. rounds[0].updated /\ ~rounds[n].updated
        BY DEF FluxInv, AnswersInv, AnswersOK, Supersedable
    <2> QED
        BY <1>1, <2>1
<1>4. n = 1 \/ Supersedable(n - 1)
    <2>1. n - 1 \in Rounds /\ n - 1 < n
        BY <1>1, <1>3, Bounds DEF Rounds
    <2> QED
        BY <2>1 DEF FluxInv, AnswersInv, AnswersOK, Supersedable
<1>5. MayStillAnswer \subseteq mayAnswer \cup joined
    <2> SUFFICES ASSUME NEW o \in MayStillAnswer PROVE o \in mayAnswer \cup joined
        OBVIOUS
    <2>1. /\ o \in Oracles /\ oracles[o].startingRound # 0 /\ oracles[o].lastReportedRound < n
          /\ oracles[o].startingRound <= n + 1 /\ n <= oracles[o].endingRound
        BY DEF MayStillAnswer
    <2>2. oracles[o].startingRound \in Nat
        BY <2>1, Bounds DEF FluxInv, FluxTypes, OracleType
    <2>3. oracles[o].startingRound <= n \/ oracles[o].startingRound = n + 1
        BY <1>1, <2>1, <2>2
    <2> QED
        BY <1>4, <2>1, <2>3 DEF ValidateOracleRound
<1>6. IsFiniteSet(mayAnswer \cup joined) /\ mayAnswer \cup joined \in SUBSET Oracles
    <2>1. mayAnswer \cup joined \in SUBSET Oracles
        OBVIOUS
    <2> QED
        BY <1>1, <2>1, FS_Subset
<1> DEFINE all == mayAnswer \cup joined
<1> HIDE DEF mayAnswer, joined, all, n
<1>7. Cardinality(MayStillAnswer) <= Cardinality(all) /\ Cardinality(all) \in Nat
      /\ Cardinality(MayStillAnswer) \in Nat
    <2>1. IsFiniteSet(all) /\ MayStillAnswer \in SUBSET all
        BY <1>5, <1>6 DEF all
    <2> QED
        BY <2>1, FS_Subset, FS_CardinalityType
<1>8. Len(details[n].submissions) + Cardinality(MayStillAnswer) >= details[n].min
    BY <1>2, <1>3 DEF FluxInv, FinishInv, n
<1>9. Len(details[n].submissions) + Cardinality(all) >= details[n].min
    BY <1>2, <1>7, <1>8
<1> QED
    BY <1>9 DEF all

\* An oracle may answer a round that has started while it accepts submissions, and the
\* next round once it has waited.
LEMMA EligibilityFollows ==
    FluxInv => EligibilityMatchesSubmit
<1> SUFFICES ASSUME FluxInv, NEW o \in Oracles
             PROVE  /\ \A r \in 1..MaxRound :
                           LET terms == IF Started(r) THEN details[r] ELSE futureRounds
                           IN  recordedFunds.available >= terms.payment /\ futureRounds.maxSubmissions > 0 =>
                                   (EligibleForSpecificRound(o, r) <=> SubmitAccepted(o, r))
                    /\ SuggestionEligible(o) /\ SuggestedRound(o) \in Rounds =>
                           EligibleForSpecificRound(o, SuggestedRound(o))
    BY DEF EligibilityMatchesSubmit
<1> DEFINE n == reportingRoundId
<1>1. n \in Nat /\ n \in Rounds /\ n \in 0..MaxRound /\ futureRounds.maxSubmissions \in Nat
    BY Bounds DEF FluxInv, FluxTypes, Rounds
<1>2. ASSUME NEW r \in 1..MaxRound, futureRounds.maxSubmissions > 0,
             recordedFunds.available >= (IF Started(r) THEN details[r] ELSE futureRounds).payment
      PROVE  EligibleForSpecificRound(o, r) <=> SubmitAccepted(o, r)
    <2> SUFFICES ASSUME ValidateOracleRound(o, r)
                 PROVE  EligibleForSpecificRound(o, r) <=> SubmitAccepted(o, r)
        BY DEF EligibleForSpecificRound, SubmitAccepted
    <2>1. /\ AcceptingSubmissions(r) => ~NewRound(r)
          /\ ~NewRound(r) => r \in 1..n
        BY SubmitWhere
    <2>2. CASE Started(r)
        <3>1. ~NewRound(r)
            BY <1>1, <2>2 DEF Started, NewRound
        <3>2. recordedFunds.available >= details[r].payment
            BY <1>2, <2>2
        <3> QED
            BY <2>2, <3>1, <3>2 DEF EligibleForSpecificRound, SubmitAccepted, StartsRound
    <2>3. CASE ~Started(r)
        <3>1. NewRound(r) /\ ~AcceptingSubmissions(r)
            BY <2>1, <2>3 DEF Started
        <3>2. recordedFunds.available >= futureRounds.payment /\ futureRounds.maxSubmissions # 0
            BY <1>1, <1>2, <2>3
        <3> QED
            BY <2>3, <3>1, <3>2 DEF EligibleForSpecificRound, SubmitAccepted, StartsRound
    <2> QED
        BY <2>2, <2>3
<1>3. ASSUME SuggestionEligible(o), SuggestedRound(o) \in Rounds
      PROVE  EligibleForSpecificRound(o, SuggestedRound(o))
    <2> DEFINE r == SuggestedRound(o)
    <2>1. r \in {n, n + 1}
        BY DEF SuggestedRound
    <2>2. /\ ValidateOracleRound(o, r)
          /\ IF NewRound(r) THEN Delayed(o, r) ELSE AcceptingSubmissions(r)
        BY <1>3 DEF SuggestionEligible
    <2> HIDE DEF r
    <2>3. CASE r = n + 1
        <3>1. NewRound(r) /\ ~Started(r)
            BY <1>1, <2>3 DEF NewRound, Started
        <3> QED
            BY <2>2, <3>1 DEF EligibleForSpecificRound, r
    <2>4. CASE r = n
        <3>1. ~NewRound(r)
            BY <1>1, <2>4 DEF NewRound
        <3>2. oracles[o].startingRound \in Nat /\ oracles[o].startingRound # 0
              /\ oracles[o].startingRound <= r
            BY <2>2, Bounds DEF FluxInv, FluxTypes, OracleType, ValidateOracleRound
        <3>3. Started(r)
            BY <1>1, <2>4, <3>2 DEF Started
        <3> QED
            BY <2>2, <3>1, <3>3 DEF EligibleForSpecificRound, r
    <2> QED
        BY <2>1, <2>3, <2>4
<1> QED
    BY <1>2, <1>3

\* What the theorems below take from the invariant.
LEMMA FluxFollows ==
    FluxInv => /\ OneSubmissionEach /\ FundsAddUp /\ CarriedAnswers
               /\ RoundsGoOn
<1> SUFFICES ASSUME FluxInv
             PROVE  OneSubmissionEach /\ FundsAddUp /\ CarriedAnswers /\ RoundsGoOn
    OBVIOUS
<1>1. 1..reportingRoundId \subseteq Rounds
    BY Bounds DEF FluxInv, FluxTypes, Rounds
<1>2. CarriedAnswers
    BY <1>1 DEF FluxInv, AnswersInv, AnswersOK, CarriedAnswers
<1> QED
    BY <1>2, NextRoundFollows, RoundFollows DEF FluxInv, RoundsGoOn

\* The round of the latest answer comes after none that answered before: whatever round a
\* submission answers, the latest round was not a later one.
LEMMA LatestFollows ==
    FluxInv /\ [AggregatorNext]_aggregatorVars => [latestRoundId' >= latestRoundId]_aggregatorVars
<1> SUFFICES ASSUME FluxInv, [AggregatorNext]_aggregatorVars PROVE latestRoundId' >= latestRoundId
    OBVIOUS
<1>1. latestRoundId \in Int
    BY Bounds DEF FluxInv, FluxTypes
<1>2. CASE \E o \in Oracles, r \in 1..MaxRound, answer \in SubmissionValues : Submit(o, r, answer)
    BY <1>2, SubmitTables
<1>3. CASE ~\E o \in Oracles, r \in 1..MaxRound, answer \in SubmissionValues : Submit(o, r, answer)
    <2>1. latestRoundId' = latestRoundId
        BY <1>3 DEF AggregatorNext, AnyoneNext, OracleNext, OwnerNext, RequestNewRound, LinkArrives,
                    OnTokenTransfer, UpdateAvailableFunds, Tick, WithdrawPayment, TransferAdmin,
                    AcceptAdmin, ChangeOracles, UpdateFutureRounds, SetRequesterPermissions,
                    WithdrawFunds, aggregatorVars, roundVars
    <2> QED
        BY <1>1, <2>1, SMTT(60)
<1> QED
    BY <1>2, <1>3

\* The variables stay in their types, the owner's terms within what the oracles can do.
THEOREM FluxTypeCorrect == AggregatorSpec => []AggregatorTypeOK
BY FluxInvariant, FluxTypesFollow, PTL

\* No oracle has two submissions in a round, or is paid twice for one.
THEOREM OneSubmissionFromEach == AggregatorSpec => []OneSubmissionEach
BY FluxInvariant, FluxFollows, PTL

\* The LINK that is owed is there.
THEOREM FeedCanPay == AggregatorSpec => []FundsAddUp
BY FluxInvariant, FluxFollows, PTL

\* A carried answer is still that of the round it names.
THEOREM CarriedAnswersStand == AggregatorSpec => []CarriedAnswers
BY FluxInvariant, FluxFollows, PTL

\* Some oracle can always start the next round or finish the open one.
THEOREM FeedNeverStuck == AggregatorSpec => []RoundsGoOn
BY FluxInvariant, FluxFollows, PTL

\* The views for oracles agree with what submit accepts.
THEOREM ViewsAgreeWithSubmit == AggregatorSpec => []EligibilityMatchesSubmit
BY FluxInvariant, EligibilityFollows, PTL

\* The latest round only advances.
THEOREM LatestRoundAdvances == AggregatorSpec => LatestRoundNeverGoesBack
BY FluxInvariant, LatestFollows, PTL DEF AggregatorSpec, LatestRoundNeverGoesBack

-----------------------------------------------------------------------------
\* The adapter.

USE DEF Round, Submission

-----------------------------------------------------------------------------
\* Types.

\* The adapter is deployed with values of the right types.
LEMMA InitTypeOK == ASSUME Init PROVE TypeOK
  BY ConstantsAssumption DEF Init, AdapterInit, ChainInit, TypeOK

\* Every step of the adapter keeps its own variables typed.
LEMMA AdapterStepTypeOK ==
  ASSUME TypeOK, AdapterStep, UNCHANGED envVars PROVE TypeOK'
<1> USE ConstantsAssumption DEF TypeOK, envVars, lockVars, sourceVars, overrideVars
<1>1. ASSUME LockStep PROVE TypeOK'
  BY <1>1 DEF LockStep, SetDefaultLockPeriod, LockFor, Lock, EmergencyUnlock, LockUntil
<1>2. ASSUME OverrideStep PROVE TypeOK'
  BY <1>2 DEF OverrideStep, EmergencySetTvl, EmergencyUnsetTvl,
              EmergencySetAssetValue, EmergencyUnsetAssetValue
<1>3. ASSUME SourceStep PROVE TypeOK'
  BY <1>3, SMTT(60) DEF SourceStep, EmergencySetTvlSource, EmergencySetAssetSource,
              EmergencySetAssetSources, SetChainlinkStalePeriod
<1> QED BY <1>1, <1>2, <1>3 DEF AdapterStep

\* So does the environment.
LEMMA EnvStepTypeOK ==
  ASSUME TypeOK, EnvStep, UNCHANGED adapterVars PROVE TypeOK'
<1> USE ConstantsAssumption
    DEF TypeOK, adapterVars, lockVars, sourceVars, overrideVars
<1>1. ASSUME NewBlock PROVE TypeOK'
  BY <1>1 DEF NewBlock
<1>2. ASSUME NEW s \in Sources, NEW a \in Answers, AnswerUpdated(s, a),
             UNCHANGED <<block, timestamp, mAptSupply>>
      PROVE  TypeOK'
  BY <1>2 DEF AnswerUpdated
<1>3. ASSUME SupplyChanged PROVE TypeOK'
  BY <1>3 DEF SupplyChanged
<1> QED BY <1>1, <1>2, <1>3 DEF EnvStep

\* Every step keeps the types, the adapter's and the chain's.
LEMMA NextTypeOK == ASSUME TypeOK, [Next]_vars PROVE TypeOK'
<1>1. CASE UNCHANGED vars
  BY <1>1 DEF vars, envVars, adapterVars, lockVars, sourceVars, overrideVars, TypeOK
<1> QED BY <1>1, AdapterStepTypeOK, EnvStepTypeOK DEF Next

\* The variables always have the types that the functions of the contract rely
\* on: no lock or submission ends at a negative block, the heartbeat is positive.
THEOREM TypeCorrect == Spec => []TypeOK
  BY InitTypeOK, NextTypeOK, PTL DEF Spec

-----------------------------------------------------------------------------
\* Refinement: block numbers implement timers.

\* The adapter is deployed with no lock and no override: an open gate.
LEMMA InitGate == ASSUME Init PROVE Gate!Init
  BY ConstantsAssumption
  DEF Init, AdapterInit, ChainInit, Gate!Init, Left, SubmissionOf

\* A step that leaves block, locks and submissions alone is no step of the gate.
LEMMA GateStutter ==
  ASSUME UNCHANGED <<block, lockVars, overrideVars>> PROVE UNCHANGED Gate!gateVars
  BY DEF lockVars, overrideVars, Gate!gateVars, Left, SubmissionOf

\* A change of the lock or its default length is one of the gate's.
LEMMA LockStepGate ==
  ASSUME TypeOK, LockStep, UNCHANGED envVars PROVE [Gate!Next]_(Gate!gateVars)
<1> USE ConstantsAssumption DEF TypeOK, envVars, lockVars, sourceVars, overrideVars
<1>1. ASSUME NEW p \in Periods, SetDefaultLockPeriod(p) PROVE Gate!Retune
  BY <1>1 DEF SetDefaultLockPeriod, Gate!Retune, Left, SubmissionOf
<1>2. ASSUME NEW p \in Periods, LockFor(p)
      PROVE  Gate!Extend \/ UNCHANGED Gate!gateVars
  <2>1. lockEnd' = block + p /\ block + p > lockEnd
    BY <1>2 DEF LockFor, LockUntil, LockForAccepted
  <2>2. UNCHANGED <<block, defaultLockPeriod, submittedTvlValue, submittedAssetValues>>
    BY <1>2 DEF LockFor
  <2>3. CASE p = 0
    <3>1. Left(lockEnd)' = Left(lockEnd)
      BY <2>1, <2>2, <2>3 DEF Left
    <3> QED BY <2>2, <3>1 DEF Gate!gateVars, Left, SubmissionOf
  <2>4. CASE p > 0
    <3>1. Left(lockEnd)' \in Nat /\ Left(lockEnd)' > Left(lockEnd)
      BY <2>1, <2>2, <2>4 DEF Left
    <3> QED BY <2>2, <3>1 DEF Gate!Extend, Left, SubmissionOf
  <2> QED BY <2>3, <2>4
<1>3. ASSUME Lock PROVE Gate!Close
  BY <1>3 DEF Lock, LockUntil, Gate!Close, Left, SubmissionOf
<1>4. ASSUME EmergencyUnlock PROVE Gate!Open
  BY <1>4 DEF EmergencyUnlock, LockUntil, Gate!Open, Left, SubmissionOf
<1> QED BY <1>1, <1>2, <1>3, <1>4 DEF LockStep, Gate!Next

\* What the two kinds of override steps have in common: one reading r changes.
Readings == Assets \cup {Tvl}

OnlyChanges(r) ==
    /\ UNCHANGED <<block, lockVars>>
    /\ \A q \in Readings \ {r} : SubmissionOf(q)' = SubmissionOf(q)

\* An override of one value is a submission to the gate.
LEMMA SubmitGate ==
  ASSUME TypeOK, NEW r \in Readings, OnlyChanges(r), SubmissionOf(r)' \in Submission
  PROVE  Gate!Submit(r)
<1> DEFINE for(q) == Left(SubmissionOf(q).periodEnd)
           value(q) == SubmissionOf(q).value
<1>1. UNCHANGED <<Left(lockEnd), defaultLockPeriod>>
  BY DEF OnlyChanges, lockVars, Left
<1>2. for(r)' \in Nat /\ value(r)' \in Nat
  BY DEF OnlyChanges, Left, TypeOK
<1>3. \A q \in Readings \ {r} : for(q)' = for(q) /\ value(q)' = value(q)
  BY DEF OnlyChanges, Left
<1> HIDE DEF for, value
<1>4. /\ [q \in Readings |-> for(q)]'
            = [[q \in Readings |-> for(q)] EXCEPT ![r] = for(r)']
      /\ [q \in Readings |-> value(q)]'
            = [[q \in Readings |-> value(q)] EXCEPT ![r] = value(r)']
  BY <1>3
<1> QED BY <1>1, <1>2, <1>4 DEF Gate!Submit, for, value, Readings

\* An override that is unset ends at once.
LEMMA RetractGate ==
  ASSUME TypeOK, NEW r \in Readings, OnlyChanges(r),
         SubmissionOf(r)' = [value |-> SubmissionOf(r).value, periodEnd |-> block]
  PROVE  Gate!Retract(r)
<1> DEFINE for(q) == Left(SubmissionOf(q).periodEnd)
           value(q) == SubmissionOf(q).value
<1>1. UNCHANGED <<Left(lockEnd), defaultLockPeriod>>
  BY DEF OnlyChanges, lockVars, Left
<1>2. for(r)' = 0 /\ value(r)' = value(r)
  BY DEF OnlyChanges, Left, TypeOK
<1>3. \A q \in Readings \ {r} : for(q)' = for(q) /\ value(q)' = value(q)
  BY DEF OnlyChanges, Left
<1> HIDE DEF for, value
<1>4. /\ [q \in Readings |-> for(q)]'
            = [[q \in Readings |-> for(q)] EXCEPT ![r] = 0]
      /\ [q \in Readings |-> value(q)]' = [q \in Readings |-> value(q)]
  BY <1>2, <1>3
<1> QED BY <1>1, <1>4 DEF Gate!Retract, for, value, Readings

\* Every change of the overrides submits to the gate or retracts.
LEMMA OverrideStepGate ==
  ASSUME TypeOK, OverrideStep, UNCHANGED envVars PROVE [Gate!Next]_(Gate!gateVars)
<1> USE ConstantsAssumption
    DEF TypeOK, envVars, lockVars, sourceVars, overrideVars, SubmissionOf,
        Readings, OnlyChanges
<1>1. ASSUME EmergencyUnsetTvl PROVE Gate!Retract(Tvl)
  BY <1>1, RetractGate DEF EmergencyUnsetTvl
<1>2. ASSUME NEW v \in Values, NEW p \in Periods, EmergencySetTvl(v, p)
      PROVE  Gate!Submit(Tvl)
  BY <1>2, SubmitGate DEF EmergencySetTvl
<1>3. ASSUME NEW a \in Assets, EmergencyUnsetAssetValue(a) PROVE Gate!Retract(a)
  BY <1>3, RetractGate DEF EmergencyUnsetAssetValue
<1>4. ASSUME NEW a \in Assets, NEW v \in Values, NEW p \in Periods,
             EmergencySetAssetValue(a, v, p)
      PROVE  Gate!Submit(a)
  BY <1>4, SubmitGate DEF EmergencySetAssetValue
<1> QED BY <1>1, <1>2, <1>3, <1>4 DEF OverrideStep, Gate!Next

\* The sources and the heartbeat are nothing the gate knows.
LEMMA SourceStepGate ==
  ASSUME SourceStep, UNCHANGED envVars PROVE UNCHANGED Gate!gateVars
  BY GateStutter
  DEF SourceStep, EmergencySetTvlSource, EmergencySetAssetSource,
      EmergencySetAssetSources, SetChainlinkStalePeriod, envVars, lockVars,
      overrideVars

\* A block is a tick of the gate's timers; aggregator and supply are nothing it knows.
LEMMA EnvStepGate ==
  ASSUME TypeOK, EnvStep, UNCHANGED adapterVars PROVE [Gate!Next]_(Gate!gateVars)
<1> USE DEF adapterVars, lockVars, overrideVars
<1>1. ASSUME NewBlock PROVE Gate!Tick
  <2>1. block \in Nat /\ block' = block + 1
    BY <1>1, ConstantsAssumption DEF TypeOK, NewBlock
  <2>2. \A r \in Readings :
            /\ SubmissionOf(r)' = SubmissionOf(r)
            /\ SubmissionOf(r).periodEnd \in Nat
    BY DEF Readings, SubmissionOf, TypeOK
  <2>3. \A r \in Readings :
            Left(SubmissionOf(r).periodEnd)'
                = Gate!RunDown(Left(SubmissionOf(r).periodEnd))
    BY <2>1, <2>2 DEF Left, Gate!RunDown
  <2>4. Left(lockEnd)' = Gate!RunDown(Left(lockEnd))
    BY <2>1 DEF TypeOK, Left, Gate!RunDown
  <2> QED BY <2>2, <2>3, <2>4 DEF Gate!Tick, Readings
<1>2. ASSUME ~NewBlock PROVE UNCHANGED Gate!gateVars
  BY <1>2, GateStutter DEF EnvStep, SupplyChanged
<1> QED BY <1>1, <1>2 DEF Gate!Next

\* Every step of the adapter is a step of the gate or leaves it alone.
LEMMA NextGate ==
  ASSUME TypeOK, [Next]_vars PROVE [Gate!Next]_(Gate!gateVars)
<1>1. CASE UNCHANGED vars
  BY <1>1, GateStutter DEF vars, envVars, adapterVars
<1>2. CASE AdapterStep /\ UNCHANGED envVars
  BY <1>2, LockStepGate, OverrideStepGate, SourceStepGate DEF AdapterStep
<1>3. CASE EnvStep /\ UNCHANGED adapterVars
  BY <1>3, EnvStepGate
<1> QED BY <1>1, <1>2, <1>3 DEF Next

\* The adapter implements the gate: locks and submissions run down one block at
\* a time, lockFor only ever lengthens what is left of a lock, and an override
\* that expired or was unset stays off until the next submission.
THEOREM AdapterImplementsGate == Spec => ImplementsGate
<1>1. Init => Gate!Init
  BY InitGate
<1>2. TypeOK /\ [Next]_vars => [Gate!Next]_(Gate!gateVars)
  BY NextGate
<1> QED BY <1>1, <1>2, TypeCorrect, PTL DEF Spec, ImplementsGate, Gate!Spec
=============================================================================
