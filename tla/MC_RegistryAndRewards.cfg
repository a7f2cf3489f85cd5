\* Registry batches, the six deployment steps while the registry changes, and claims in
\* any order on a token with locks.
SPECIFICATION MCSpec
CONSTANTS
    Ids <- MCIds
    Registrable <- MCRegistrable
    ZeroAddress = "none"
    MaxBatch = 2
    FewIds = {"adminSafe", "lpSafe", "mApt", "lpAccount"}
    stranger = stranger
    Strangers = {stranger}
    ChangedIds = {"adminSafe", "mApt", "lpAccount"}
    ChangedPermits = {"adminModule"}
    Accounts = {distributor, alice, locker}
    Treasury = distributor
    InitialSupply = 2
    Lockers = {locker}
    Amounts = {1, 2}
    LockEnds = {0, 2}
    MaxTimestamp = 3
    Distributor = distributor
    Wallets = {alice}
    Signers = {signer1}
    FirstSigner = signer1
    NoSigner = NoSigner
    MaxNonce = 1
    MaxIssued = 2
INVARIANTS PaidInOrder LockedWithinBalance ListMatchesMapping RolesWithinDeployment
