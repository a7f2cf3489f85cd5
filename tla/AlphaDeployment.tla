--------------------------- MODULE AlphaDeployment ---------------------------
(***************************************************************************)
(* contracts/deploy/AlphaDeployment.sol: the system is deployed in six     *)
(* steps.  Each creates contracts, whose constructors look up in the       *)
(* address registry whom to give a role, and registers them through the    *)
(* Emergency Safe.  Between two steps the registry's owner may register    *)
(* and delete what it likes, so that each step checks the entries it       *)
(* relies on.                                                              *)
(*                                                                         *)
(* A step fails as a whole.  A contract is named by the id it is           *)
(* registered under, which is also its address: each is created once.      *)
(* The factories, that the owner may exchange, are left out.               *)
(***************************************************************************)
EXTENDS AddressRegistryV2

CONSTANTS
    Strangers,      \* addresses that are not of this deployment
    ChangedIds,     \* ids the registry's owner changes between steps
    ChangedPermits  \* permits that come and go between steps

VARIABLES
    step,
    roles,                  \* by contract: the Safes and the contracts it gave roles to
    permits                 \* what the Safes own and let the deployment do

alphaVars == <<addressVars, step, roles, permits>>

Safes == {"emergencySafe", "adminSafe", "lpSafe"}
LastStep == 5

\* What each step checks in the registry and creates.
Checks == [k \in 0..LastStep |->
    CASE k = 3 -> {"mApt"}
      [] k = 4 -> {"mApt", "lpAccount", "tvlManager", "erc20Allocation"}
      [] k = 5 -> {"mApt"}
      [] OTHER -> {}]

Creates == [k \in 0..LastStep |->
    CASE k = 0 -> <<>>
      [] k = 1 -> <<"mApt">>
      [] k = 2 -> <<"tvlManager", "erc20Allocation">>
      [] k = 3 -> <<"lpAccount">>
      [] k = 4 -> <<"oracleAdapter">>
      [] k = 5 -> <<"daiDemoPool", "usdcDemoPool", "usdtDemoPool">>]

Contracts == UNION {{Creates[k][i] : i \in DOMAIN Creates[k]} : k \in 0..LastStep}

\* The ids whose addresses a contract's constructor gives the contract role.
RolesFor == [c \in Contracts |->
    CASE c \in {"erc20Allocation", "lpAccount"} -> {"mApt"}
      [] c = "oracleAdapter" -> {"mApt", "tvlManager", "lpAccount", "erc20Allocation"}
      [] OTHER -> {}]

DeploymentIds == Safes \cup Contracts

\* The registry takes other ids and addresses besides.
ASSUME AlphaDeploymentAssumption ==
    /\ DeploymentIds \cup ChangedIds \subseteq Ids
    /\ DeploymentIds \cup ChangedIds \cup Strangers \subseteq Registrable

NoRoles == [safes |-> {}, contracts |-> {}]
Created(c) == roles[c] # NoRoles

-----------------------------------------------------------------------------
\* Mutant: looks at the Emergency Safe only.
SafesRegisteredButAdmin == idToAddress["emergencySafe"] = "emergencySafe"

\* checkSafeRegistrations: the Safes are those the constructor found.
SafesRegistered == \A s \in Safes : idToAddress[s] = s

\* Mutant: compares the first id only.
DependenciesRegisteredFirst(ids) == "mApt" \in ids => idToAddress["mApt"] = "mApt"

DependenciesRegistered(ids) == \A id \in ids : Created(id) /\ idToAddress[id] = id

\* checkOwnerships: the Emergency Safe owns the registry and the pools' proxy admin.
\* A Safe that has not enabled the deployment as its module refuses what it asks for.
AllPermits == {"ownsRegistry", "ownsPoolProxyAdmin", "emergencyModule", "adminModule"}

PermitsNeeded(k) == {"ownsRegistry", "emergencyModule"}
    \cup (IF k = 0 THEN {"ownsPoolProxyAdmin"} ELSE {})
    \cup (IF k = 4 THEN {"adminModule"} ELSE {})

\* The constructors: a missing id reverts.
RolesOf(c) ==
    [safes |-> {idToAddress[s] : s \in Safes},
     contracts |-> {idToAddress[id] : id \in RolesFor[c]}]

AlphaInit ==
    /\ idList = <<"emergencySafe", "adminSafe", "lpSafe">>
    /\ idToAddress = [id \in Ids |-> IF id \in Safes THEN id ELSE ZeroAddress]
    /\ step = 0
    /\ roles = [c \in Contracts |-> NoRoles]
    /\ permits = AllPermits

Deploy(k) ==
    LET new == {Creates[k][i] : i \in DOMAIN Creates[k]}
        entries == [i \in DOMAIN Creates[k] |-> <<Creates[k][i], Creates[k][i]>>]
    IN  /\ step = k
        /\ SafesRegistered
        /\ DependenciesRegistered(Checks[k])
        /\ PermitsNeeded(k) \subseteq permits
        /\ \A c \in new : \A id \in RolesFor[c] : HasAddress(id)
        /\ roles' = [c \in Contracts |-> IF c \in new THEN RolesOf(c) ELSE roles[c]]
        /\ step' = k + 1
        /\ RegisterMultipleAddresses(entries)
        /\ UNCHANGED permits

-----------------------------------------------------------------------------
OwnerRegisters(id, address) ==
    /\ RegisterMultipleAddresses(<<<<id, address>>>>)
    /\ UNCHANGED <<step, roles, permits>>

\* DeploymentIds can be deleted once the registry is upgraded, which is step 0.
OwnerDeletes(id) ==
    /\ step > 0
    /\ DeleteAddress(id)
    /\ UNCHANGED <<step, roles, permits>>

PermitChanges(permit) ==
    /\ permits' = IF permit \in permits THEN permits \ {permit} ELSE permits \cup {permit}
    /\ UNCHANGED <<addressVars, step, roles>>

AlphaNext ==
    \/ \E k \in 0..LastStep : Deploy(k)
    \/ \E id \in ChangedIds :
        \/ \E address \in {id} \cup Strangers : OwnerRegisters(id, address)
        \/ OwnerDeletes(id)
    \/ \E permit \in ChangedPermits : PermitChanges(permit)

AlphaSpec == AlphaInit /\ [][AlphaNext]_alphaVars

-----------------------------------------------------------------------------
WithinDeployment(c) ==
    Created(c) =>
        /\ roles[c].safes = Safes
        /\ roles[c].contracts = RolesFor[c]

\* However the registry changed between the steps and back, each contract gave its
\* roles to the Safes of this deployment and to the contracts deployed for them: the
\* checks of a step cover all that its constructors look up.  The ERC20 allocation is
\* the exception, see EveryRoleWithinDeployment.
RolesWithinDeployment == \A c \in Contracts \ {"erc20Allocation"} : WithinDeployment(c)

\* AlphaDeployment.sol:251 says of step 2 that it "Does not register any roles for
\* contracts", and it checks no id but those of the Safes.  Then no contract, those of
\* step 2 included, gives a role to an address that is not of this deployment.
EveryRoleWithinDeployment == \A c \in Contracts : WithinDeployment(c)
=============================================================================
