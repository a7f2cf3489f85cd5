--------------------------- MODULE FluxAggregator ---------------------------
(***************************************************************************)
(* contracts/oracle/FluxAggregator.sol: oracles submit a value for a       *)
(* round; from a minimum of submissions on, the round's answer is their    *)
(* median.  A round nobody finished in time is closed with the answer of   *)
(* the round before it.  The owner changes oracles, counts, payments and   *)
(* timeout while rounds are open; submissions are paid in LINK.            *)
(*                                                                         *)
(* Time is the age of the reporting round, since no other round can time   *)
(* out: those before it are updated.  The latest submission of each        *)
(* oracle, the validator and the order of the oracles are left out.        *)
(***************************************************************************)
EXTENDS Sums, SequencesExt

CONSTANTS
    Oracles,
    FirstOracle,      \* the oracle the deployment adds
    Admins,           \* who may take an oracle's payment
    FirstAdmin,       \* its admin
    NoAdmin,          \* the zero address
    Requesters,
    SubmissionValues, \* between minSubmissionValue and maxSubmissionValue
    Payments,         \* LINK for a submission
    FirstPayment,
    Timeouts,
    FirstTimeout,
    RoundTerms,       \* numbers of submissions and restart delays the owner chooses from
    Delays,           \* rounds a requester must wait
    LinkAmounts,      \* amounts of LINK sent and withdrawn
    FirstLink,        \* LINK the deployment pays in
    MaxLink,          \* bound: LINK held
    MaxRound          \* bound: rounds started

ASSUME FluxAssumption ==
    /\ FirstOracle \in Oracles /\ FirstAdmin \in Admins /\ NoAdmin \notin Admins
    /\ FirstPayment \in Payments /\ FirstTimeout \in Timeouts /\ SubmissionValues # {}
    /\ \A S \in {Oracles, SubmissionValues, Payments, Timeouts} : IsFiniteSet(S)
    /\ SubmissionValues \cup Payments \cup Timeouts \cup Delays \cup LinkAmounts \subseteq Nat
    /\ RoundTerms \subseteq [minSubmissions : Nat, maxSubmissions : Nat, restartDelay : Nat]
    /\ {FirstLink, MaxLink, MaxRound} \subseteq Nat
    /\ FirstLink >= 2 * FirstPayment /\ FirstLink <= MaxLink

VARIABLES
    reportingRoundId,   \* the last round started
    age,                \* of the reporting round
    latestRoundId,      \* the last round that got an answer of its own
    rounds,
    details,            \* what is kept of a round while it accepts submissions
    oracles,
    requesters,
    futureRounds,       \* the parameters of the next round
    recordedFunds,
    linkBalance

aggregatorVars == <<reportingRoundId, age, latestRoundId, rounds, details, oracles, requesters,
          futureRounds, recordedFunds, linkBalance>>

roundVars == <<reportingRoundId, age, latestRoundId, rounds, details>>

Rounds == 0..MaxRound
RoundMax == MaxRound + 2      \* ROUND_MAX, beyond any round
OldAge == Max(Timeouts) + 1   \* every timeout has passed

NoDetails == [submissions |-> <<>>, max |-> 0, min |-> 0, timeout |-> 0, payment |-> 0]
NoRequester == [authorized |-> FALSE, delay |-> 0, lastStartedRound |-> 0]

-----------------------------------------------------------------------------
OracleEnabled(o) == oracles[o].endingRound = RoundMax
EnabledOracles == {o \in Oracles : OracleEnabled(o)}

\* startedAt is set when a round becomes the reporting round.
Started(r) == r \in 1..reportingRoundId

TimedOut(r) ==
    /\ Started(r) /\ r = reportingRoundId
    /\ details[r].timeout > 0
    /\ age > details[r].timeout

Supersedable(r) == rounds[r].updated \/ TimedOut(r)

AcceptingSubmissions(r) == details[r].max # 0

NewRound(r) == r = reportingRoundId + 1

PreviousAndCurrentUnanswered(r) ==
    r + 1 = reportingRoundId /\ ~rounds[reportingRoundId].updated

\* Mutant: an oracle may not start a round in the delay after any of its rounds, the
\* first included.
DelayedStrictly(o, r) == r > oracles[o].lastStartedRound + futureRounds.restartDelay

Delayed(o, r) ==
    \/ r > oracles[o].lastStartedRound + futureRounds.restartDelay
    \/ oracles[o].lastStartedRound = 0

\* Mutant: an oracle may answer a round again.
ValidateOracleRoundAgain(o, r) ==
    /\ oracles[o].startingRound # 0
    /\ oracles[o].startingRound <= r
    /\ r <= oracles[o].endingRound
    /\ \/ r = reportingRoundId
       \/ NewRound(r)
       \/ PreviousAndCurrentUnanswered(r)
    /\ r = 1 \/ Supersedable(r - 1)

\* Mutant: the round before the reporting round may always still be answered.
ValidateOracleRoundLate(o, r) ==
    /\ oracles[o].startingRound # 0
    /\ oracles[o].startingRound <= r
    /\ r <= oracles[o].endingRound
    /\ oracles[o].lastReportedRound < r
    /\ r \in reportingRoundId - 1 .. reportingRoundId + 1
    /\ r = 1 \/ Supersedable(r - 1)

ValidateOracleRound(o, r) ==
    /\ oracles[o].startingRound # 0
    /\ oracles[o].startingRound <= r
    /\ r <= oracles[o].endingRound
    /\ oracles[o].lastReportedRound < r
    /\ \/ r = reportingRoundId
       \/ NewRound(r)
       \/ PreviousAndCurrentUnanswered(r)
    /\ r = 1 \/ Supersedable(r - 1)

RequiredReserve(payment, oracleCount) == payment * oracleCount * 2

Median(sorted) ==
    LET half == Len(sorted) \div 2
    IN  IF Len(sorted) % 2 = 1 THEN sorted[half + 1]
        ELSE (sorted[half] + sorted[half + 1]) \div 2

WithSubmission(sorted, answer) ==
    LET below == Cardinality({i \in DOMAIN sorted : sorted[i] < answer})
    IN  InsertAt(sorted, below + 1, answer)

-----------------------------------------------------------------------------
\* oracleRoundState for a round named by the oracle.
EligibleForSpecificRound(o, r) ==
    /\ ValidateOracleRound(o, r)
    /\ IF Started(r) THEN AcceptingSubmissions(r) ELSE Delayed(o, r)

\* oracleRoundState for round 0: the round an oracle had better answer.
SuggestedRound(o) ==
    IF /\ Supersedable(reportingRoundId)
       /\ \/ oracles[o].lastReportedRound = reportingRoundId
          \/ ~AcceptingSubmissions(reportingRoundId)
    THEN reportingRoundId + 1
    ELSE reportingRoundId

SuggestionEligible(o) ==
    /\ ValidateOracleRound(o, SuggestedRound(o))
    /\ IF NewRound(SuggestedRound(o)) THEN Delayed(o, SuggestedRound(o))
       ELSE AcceptingSubmissions(SuggestedRound(o))

-----------------------------------------------------------------------------
\* Mutant: the round that timed out keeps the answer it had.
CarriedRoundKeepsAnswer(rs, r) ==
    [rs EXCEPT ![r].answeredInRound = rs[r - 1].answeredInRound,
               ![r].updated = TRUE]

\* updateTimedOutRoundInfo, for a round that timed out.
CarriedRound(rs, r) ==
    [rs EXCEPT ![r].answer = rs[r - 1].answer,
               ![r].answeredInRound = rs[r - 1].answeredInRound,
               ![r].updated = TRUE]

\* initializeNewRound: the two tables once round r, the next one, is started.
RoundsWithNew(r) ==
    IF TimedOut(r - 1) THEN CarriedRound(rounds, r - 1) ELSE rounds

DetailsWithNew(r) ==
    [q \in Rounds |->
        IF q = r THEN [submissions |-> <<>>,
                       max |-> futureRounds.maxSubmissions,
                       min |-> futureRounds.minSubmissions,
                       timeout |-> futureRounds.timeout,
                       payment |-> futureRounds.payment]
        ELSE IF q = r - 1 /\ TimedOut(q) THEN NoDetails ELSE details[q]]

\* updateRoundAnswer on round r, which has the given submissions.
AnsweredRound(rs, r, submissions) ==
    [rs EXCEPT ![r].answer = Median(submissions),
               ![r].answeredInRound = r,
               ![r].updated = TRUE]

PayOracle(funds, payment) ==
    [available |-> funds.available - payment, allocated |-> funds.allocated + payment]

\* updateAvailableFunds, at a balance of LINK.
RecountedFunds(balance) == [recordedFunds EXCEPT !.available = balance - recordedFunds.allocated]

-----------------------------------------------------------------------------
\* The state deployAggregator (utils/helpers/aggregator.js) leaves: LINK paid in and one
\* oracle, whose answers each make a round.
AggregatorInit ==
    /\ reportingRoundId = 0
    /\ latestRoundId = 0
    /\ rounds = [r \in Rounds |-> [answer |-> 0, updated |-> r = 0, answeredInRound |-> 0]]
    /\ age = 0
    /\ details = [r \in Rounds |-> NoDetails]
    /\ oracles = [o \in Oracles |->
           [withdrawable |-> 0,
            startingRound |-> IF o = FirstOracle THEN 1 ELSE 0,
            endingRound |-> IF o = FirstOracle THEN RoundMax ELSE 0,
            lastReportedRound |-> 0,
            lastStartedRound |-> 0,
            admin |-> IF o = FirstOracle THEN FirstAdmin ELSE NoAdmin,
            pendingAdmin |-> NoAdmin]]
    /\ requesters = [q \in Requesters |-> NoRequester]
    /\ futureRounds = [payment |-> FirstPayment, minSubmissions |-> 1, maxSubmissions |-> 1,
                       restartDelay |-> 0, timeout |-> FirstTimeout]
    /\ recordedFunds = [available |-> FirstLink, allocated |-> 0]
    /\ linkBalance = FirstLink

\* Mutant: no oracle waits.
StartsRoundAtOnce(o, r) == NewRound(r)

\* oracleInitializeNewRound: an oracle that must wait starts no round, and submit goes on.
StartsRound(o, r) == NewRound(r) /\ Delayed(o, r)

\* What submit requires, from the checks before the round is started to the payment.
SubmitAccepted(o, r) ==
    /\ ValidateOracleRound(o, r)
    /\ IF StartsRound(o, r)
       THEN futureRounds.maxSubmissions # 0 /\ recordedFunds.available >= futureRounds.payment
       ELSE AcceptingSubmissions(r) /\ recordedFunds.available >= details[r].payment

Submit(o, r, answer) ==
    LET starts == StartsRound(o, r)
        ds == IF starts THEN DetailsWithNew(r) ELSE details
        rs == IF starts THEN RoundsWithNew(r) ELSE rounds
        submissions == WithSubmission(ds[r].submissions, answer)
        answered == Len(submissions) >= ds[r].min
    IN  /\ SubmitAccepted(o, r)
        /\ reportingRoundId' = IF starts THEN r ELSE reportingRoundId
        /\ age' = IF starts THEN 0 ELSE age
        /\ rounds' = IF answered THEN AnsweredRound(rs, r, submissions) ELSE rs
        /\ latestRoundId' = IF answered THEN r ELSE latestRoundId
        /\ details' = [ds EXCEPT ![r] = IF Len(submissions) >= @.max THEN NoDetails
                                        ELSE [@ EXCEPT !.submissions = submissions]]
        /\ oracles' = [oracles EXCEPT ![o].lastReportedRound = r,
                                      ![o].lastStartedRound = IF starts THEN r ELSE @,
                                      ![o].withdrawable = @ + ds[r].payment]
        /\ recordedFunds' = PayOracle(recordedFunds, ds[r].payment)
        /\ UNCHANGED <<requesters, futureRounds, linkBalance>>

RequestNewRound(q) ==
    LET r == reportingRoundId + 1
    IN  /\ requesters[q].authorized
        /\ Supersedable(reportingRoundId)
        /\ r <= MaxRound
        /\ \/ r > requesters[q].lastStartedRound + requesters[q].delay
           \/ requesters[q].lastStartedRound = 0
        /\ reportingRoundId' = r
        /\ age' = 0
        /\ rounds' = RoundsWithNew(r)
        /\ details' = DetailsWithNew(r)
        /\ requesters' = [requesters EXCEPT ![q].lastStartedRound = r]
        /\ UNCHANGED <<latestRoundId, oracles, futureRounds, recordedFunds, linkBalance>>

-----------------------------------------------------------------------------
WithTerms(terms, payment, timeout) ==
    [payment |-> payment, minSubmissions |-> terms.minSubmissions,
     maxSubmissions |-> terms.maxSubmissions, restartDelay |-> terms.restartDelay,
     timeout |-> timeout]

\* Mutant: as many submissions as the owner likes.
RoundsPossibleForAny(new, oracleCount) ==
    /\ new.maxSubmissions >= new.minSubmissions
    /\ oracleCount = 0 \/ oracleCount > new.restartDelay
    /\ recordedFunds.available >= RequiredReserve(new.payment, oracleCount)
    /\ oracleCount > 0 => new.minSubmissions > 0

\* updateFutureRounds, called by itself and at the end of changeOracles.
RoundsPossible(new, oracleCount) ==
    /\ new.maxSubmissions >= new.minSubmissions
    /\ oracleCount >= new.maxSubmissions
    /\ oracleCount = 0 \/ oracleCount > new.restartDelay
    /\ recordedFunds.available >= RequiredReserve(new.payment, oracleCount)
    /\ oracleCount > 0 => new.minSubmissions > 0

UpdateFutureRounds(new) ==
    /\ RoundsPossible(new, Cardinality(EnabledOracles))
    /\ futureRounds' = new
    /\ UNCHANGED <<roundVars, oracles, requesters, recordedFunds, linkBalance>>

\* Mutant: a removed oracle may not finish the open round.
EndingRoundAtOnce == Max({reportingRoundId - 1, 0})

\* A removed oracle may still answer the open round and the next.
EndingRound == reportingRoundId + 1

\* getStartingRound
StartingRound(o) ==
    IF reportingRoundId # 0 /\ reportingRoundId = oracles[o].endingRound
    THEN reportingRoundId ELSE reportingRoundId + 1

\* changeOracles: the removals, the additions, then the parameters; payment and timeout
\* stay.
ChangeOracles(removed, added, admin, terms) ==
    LET new == WithTerms(terms, futureRounds.payment, futureRounds.timeout)
        left == EnabledOracles \ removed
        ended == [o \in Oracles |-> IF o \in removed THEN [oracles[o] EXCEPT !.endingRound = EndingRound]
                                    ELSE oracles[o]]
        starts(o) == IF o \in removed THEN reportingRoundId + 1 ELSE StartingRound(o)
    IN  /\ removed \subseteq EnabledOracles
        /\ added \cap left = {}
        /\ \A o \in added : oracles[o].admin \in {NoAdmin, admin}
        /\ RoundsPossible(new, Cardinality(left \cup added))
        /\ oracles' = [o \in Oracles |->
               IF o \in added
               THEN [ended[o] EXCEPT !.startingRound = starts(o), !.endingRound = RoundMax,
                                     !.admin = admin]
               ELSE ended[o]]
        /\ futureRounds' = new
        /\ UNCHANGED <<roundVars, requesters, recordedFunds, linkBalance>>

SetRequesterPermissions(q, authorized, delay) ==
    /\ requesters[q].authorized # authorized
    /\ requesters' = [requesters EXCEPT ![q] =
           IF authorized THEN [@ EXCEPT !.authorized = TRUE, !.delay = delay] ELSE NoRequester]
    /\ UNCHANGED <<roundVars, oracles, futureRounds, recordedFunds, linkBalance>>

-----------------------------------------------------------------------------
\* LINK sent with transfer, which the aggregator does not notice.
LinkArrives(amount) ==
    /\ linkBalance + amount <= MaxLink
    /\ linkBalance' = linkBalance + amount
    /\ UNCHANGED <<roundVars, oracles, requesters, futureRounds, recordedFunds>>

\* LINK sent with transferAndCall, which calls onTokenTransfer.
OnTokenTransfer(amount) ==
    /\ linkBalance + amount <= MaxLink
    /\ linkBalance' = linkBalance + amount
    /\ recordedFunds' = RecountedFunds(linkBalance + amount)
    /\ UNCHANGED <<roundVars, oracles, requesters, futureRounds>>

UpdateAvailableFunds ==
    /\ recordedFunds' = RecountedFunds(linkBalance)
    /\ UNCHANGED <<roundVars, oracles, requesters, futureRounds, linkBalance>>

\* Mutant: the payment stays allocated.
WithdrawPaymentUncounted(o, caller, amount) ==
    /\ oracles[o].admin = caller
    /\ oracles[o].withdrawable >= amount
    /\ oracles' = [oracles EXCEPT ![o].withdrawable = @ - amount]
    /\ linkBalance' = linkBalance - amount
    /\ UNCHANGED <<roundVars, requesters, futureRounds, recordedFunds>>

WithdrawPayment(o, caller, amount) ==
    /\ oracles[o].admin = caller
    /\ oracles[o].withdrawable >= amount
    /\ oracles' = [oracles EXCEPT ![o].withdrawable = @ - amount]
    /\ recordedFunds' = [recordedFunds EXCEPT !.allocated = @ - amount]
    /\ linkBalance' = linkBalance - amount
    /\ UNCHANGED <<roundVars, requesters, futureRounds>>

WithdrawFunds(amount) ==
    /\ recordedFunds.available - amount >=
           RequiredReserve(futureRounds.payment, Cardinality(EnabledOracles))
    /\ linkBalance' = linkBalance - amount
    /\ recordedFunds' = RecountedFunds(linkBalance - amount)
    /\ UNCHANGED <<roundVars, oracles, requesters, futureRounds>>

TransferAdmin(o, caller, newAdmin) ==
    /\ oracles[o].admin = caller
    /\ oracles' = [oracles EXCEPT ![o].pendingAdmin = newAdmin]
    /\ UNCHANGED <<roundVars, requesters, futureRounds, recordedFunds, linkBalance>>

AcceptAdmin(o, caller) ==
    /\ oracles[o].pendingAdmin = caller
    /\ oracles' = [oracles EXCEPT ![o].pendingAdmin = NoAdmin, ![o].admin = caller]
    /\ UNCHANGED <<roundVars, requesters, futureRounds, recordedFunds, linkBalance>>

\* Time passes; an age no timeout distinguishes stays.
Tick ==
    /\ reportingRoundId > 0
    /\ age' = Min({age + 1, OldAge})
    /\ UNCHANGED <<reportingRoundId, latestRoundId, rounds, details, oracles, requesters,
                   futureRounds, recordedFunds, linkBalance>>

-----------------------------------------------------------------------------
AnyoneNext ==
    \/ \E q \in Requesters : RequestNewRound(q)
    \/ \E amount \in LinkAmounts : LinkArrives(amount) \/ OnTokenTransfer(amount)
    \/ UpdateAvailableFunds
    \/ Tick

OracleNext ==
    \E o \in Oracles :
        \/ \E r \in 1..MaxRound, answer \in SubmissionValues : Submit(o, r, answer)
        \/ \E caller \in Admins, amount \in LinkAmounts : WithdrawPayment(o, caller, amount)
        \/ \E caller, newAdmin \in Admins : TransferAdmin(o, caller, newAdmin)
        \/ \E caller \in Admins : AcceptAdmin(o, caller)

OwnerNext ==
    \/ \E removed, added \in SUBSET Oracles, admin \in Admins, terms \in RoundTerms :
           ChangeOracles(removed, added, admin, terms)
    \/ \E terms \in RoundTerms, payment \in Payments, timeout \in Timeouts :
           UpdateFutureRounds(WithTerms(terms, payment, timeout))
    \/ \E q \in Requesters, authorized \in BOOLEAN, delay \in Delays :
           SetRequesterPermissions(q, authorized, delay)
    \/ \E amount \in LinkAmounts : WithdrawFunds(amount)

AggregatorNext == AnyoneNext \/ OracleNext \/ OwnerNext

AggregatorSpec == AggregatorInit /\ [][AggregatorNext]_aggregatorVars

-----------------------------------------------------------------------------
AggregatorTypeOK ==
    /\ reportingRoundId \in Rounds
    /\ age \in 0..OldAge
    /\ latestRoundId \in 0..reportingRoundId
    /\ \A r \in Rounds :
           /\ rounds[r].answer \in 0..Max(SubmissionValues)
           /\ rounds[r].answeredInRound \in 0..reportingRoundId
           /\ details[r] # NoDetails => Len(details[r].submissions) \in 0..Max({details[r].max - 1, 0})
    /\ \A o \in Oracles :
           /\ oracles[o].withdrawable \in Nat
           /\ oracles[o].startingRound \in 0..reportingRoundId + 1
           /\ oracles[o].endingRound \in 0..reportingRoundId + 1 \cup {RoundMax}
           /\ oracles[o].lastReportedRound \in 0..reportingRoundId
           /\ oracles[o].lastStartedRound \in 0..reportingRoundId
           /\ {oracles[o].admin, oracles[o].pendingAdmin} \subseteq Admins \cup {NoAdmin}
    /\ futureRounds.payment \in Payments /\ futureRounds.timeout \in Timeouts
    /\ futureRounds.minSubmissions <= futureRounds.maxSubmissions
    /\ futureRounds.maxSubmissions <= Cardinality(EnabledOracles)
    /\ recordedFunds \in [available : Nat, allocated : Nat]
    /\ linkBalance \in 0..MaxLink

\* A round has at most one submission of an oracle, and pays each at most once, whatever
\* joined and left meanwhile: the submissions a round still keeps are those of oracles
\* that have reported to it or later, and nobody has earned more than a payment for
\* every round up to the last it reported to.
OneSubmissionEach ==
    /\ \A r \in 1..reportingRoundId :
           Len(details[r].submissions)
               <= Cardinality({o \in Oracles : oracles[o].lastReportedRound >= r})
    /\ \A o \in Oracles :
           oracles[o].withdrawable <= Max(Payments) * oracles[o].lastReportedRound

\* What the oracles may withdraw is what is allocated, and the LINK is there to pay it,
\* whatever the owner took out and in whichever way LINK came in.
FundsAddUp ==
    /\ recordedFunds.allocated = Total([o \in Oracles |-> oracles[o].withdrawable], Oracles)
    /\ recordedFunds.available + recordedFunds.allocated <= linkBalance

\* The answer of a round that was given one of an earlier round is still the answer of
\* the round it names: late submissions have not changed that one since.
CarriedAnswers ==
    \A r \in 1..reportingRoundId : rounds[r].updated =>
        /\ rounds[r].answeredInRound <= r
        /\ rounds[r].answer = rounds[rounds[r].answeredInRound].answer

\* Once the reporting round can be superseded some oracle can start the next: the
\* restart delay never makes all of them wait, whoever started the last rounds and
\* whichever oracles were exchanged.
NextRoundCanStart ==
    /\ Supersedable(reportingRoundId)
    /\ EnabledOracles # {}
    => \E o \in EnabledOracles :
           /\ ValidateOracleRound(o, reportingRoundId + 1)
           /\ Delayed(o, reportingRoundId + 1)

\* A round that was started with oracles to answer it can reach its minimum although
\* the owner removed some of them: those who may still answer suffice.  An oracle
\* removed and added again during the round is the exception: it has to wait for the
\* next, and without a timeout its answer would be missed for ever.
RoundCanFinish ==
    LET r == reportingRoundId
        mayAnswer == {o \in Oracles : ValidateOracleRound(o, r)}
        joined == {o \in Oracles : oracles[o].startingRound = r + 1}
    IN  ~Supersedable(r) /\ AcceptingSubmissions(r) =>
            Len(details[r].submissions) + Cardinality(mayAnswer \cup joined) >= details[r].min

\* The feed never gets stuck.
RoundsGoOn == NextRoundCanStart /\ RoundCanFinish

\* The views an oracle's node decides by agree with submit: a round it is told it may
\* answer accepts its submission, a round it is refused does not (funds permitting),
\* and a suggested round is one it is eligible for.
EligibilityMatchesSubmit ==
    \A o \in Oracles :
        /\ \A r \in 1..MaxRound :
               LET terms == IF Started(r) THEN details[r] ELSE futureRounds
               IN  recordedFunds.available >= terms.payment /\ futureRounds.maxSubmissions > 0 =>
                       (EligibleForSpecificRound(o, r) <=> SubmitAccepted(o, r))
        /\ SuggestionEligible(o) /\ SuggestedRound(o) \in Rounds =>
               EligibleForSpecificRound(o, SuggestedRound(o))

\* The latest round never moves backwards, although the round before the reporting one
\* still takes answers.
LatestRoundNeverGoesBack == [][latestRoundId' >= latestRoundId]_aggregatorVars

\* latestAnswer: "get the most recently reported answer".  The latest round holds its own
\* answer, not an older one.
LatestAnswerIsItsOwn ==
    latestRoundId > 0 => rounds[latestRoundId].answeredInRound = latestRoundId
=============================================================================
