\* A node reads the ids while allocations and tokens come and go; deployment scripts.
SPECIFICATION MCSpec
CONSTANTS
    erc20 = erc20
    threePool = threePool
    frax = frax
    frax2 = frax2
    Addresses = {erc20, threePool, frax, frax2}
    Names <- MCNames
    NameOf <- MCNameOf
    NoAddress = NoAddress
    Runs = {frax, frax2}
    Initial <- MCInitial
    Needed = "curve-3pool"
    NoName = NoName
    Erc20Allocation = erc20
    NumberOfTokens <- MCNumberOfTokens
    Tokens = {t1, t2, t3}
    MaxTokens = 3
INVARIANTS TypeOK SetMatchesLookup ReadingComplete RegisteredWereCreated
PROPERTY RunsEnd
