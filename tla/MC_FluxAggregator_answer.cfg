\* A round that was answered, then timed out short of its maximum of submissions.
SPECIFICATION MCSpec
CONSTANTS
    Oracles = {o1, o2, o3}
    FirstOracle = o1
    Admins = {admin1, admin2}
    FirstAdmin = admin1
    NoAdmin = NoAdmin
    Requesters = {requester}
    SubmissionValues = {1, 2}
    Payments = {0, 1}
    FirstPayment = 0
    Timeouts = {0, 1}
    FirstTimeout = 1
    RoundTerms <- MCRoundTerms
    Delays = {1}
    LinkAmounts = {1, 2}
    FirstLink = 4
    MaxLink = 6
    MaxRound = 3
INVARIANT LatestAnswerIsItsOwn
