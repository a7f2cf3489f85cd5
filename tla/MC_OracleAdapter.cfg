\* Locks, overrides, heartbeats and rounds over several blocks of one feed.
SPECIFICATION Spec
CONSTANTS
    Assets = {a1}
    Tvl = Tvl
    Sources = {s1}
    NoSource = NoSource
    Answers <- MCAnswers
    Values = {7}
    Periods = {0, 1, 2}
    StalePeriods = {0, 1}
    Supplies = {0, 1}
    BlockGaps = {1, 2}
    MaxBlock = 3
INVARIANT TypeOK
PROPERTY ImplementsGate
