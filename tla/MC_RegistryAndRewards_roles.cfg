\* The mAPT registered anew by the owner between the first and the second step.
SPECIFICATION MCSpec
CONSTANTS
    Ids <- MCIds
    Registrable <- MCRegistrable
    ZeroAddress = "none"
    MaxBatch = 2
    FewIds = {"adminSafe", "lpSafe", "mApt", "lpAccount"}
    stranger = stranger
    Strangers = {stranger}
    ChangedIds = {"adminSafe", "mApt"}
    ChangedPermits = {"adminModule"}
    Accounts = {distributor, alice, locker}
    Treasury = distributor
    InitialSupply = 2
    Lockers = {locker}
    Amounts = {1, 2}
    LockEnds = {0, 2}
    MaxTimestamp = 3
    Distributor = distributor
    Wallets = {alice}
    Signers = {signer1}
    FirstSigner = signer1
    NoSigner = NoSigner
    MaxNonce = 1
    MaxIssued = 0
INVARIANT EveryRoleWithinDeployment
