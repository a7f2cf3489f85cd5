------------------------ MODULE MC_RegistryAndRewards ------------------------
(***************************************************************************)
(* Small instances of AddressRegistryV2 (batches of a few ids), of         *)
(* AlphaDeployment (the same registry under one deployment) and of         *)
(* RewardDistributor (claims paid in the token) for TLC.  A behaviour is   *)
(* one of them, chosen at the start, while the others stay as they were.   *)
(***************************************************************************)
EXTENDS AlphaDeployment, RewardDistributor, TLC

CONSTANTS
    stranger,        \* an address that is not of the deployment
    FewIds           \* ids registered in batches

VARIABLE running

deploymentVars == <<step, roles, permits>>

MCIds == DeploymentIds
MCRegistrable == DeploymentIds \cup Strangers

FewBatches == UNION {[1..n -> FewIds \X {stranger, "mApt", ZeroAddress}] : n \in 0..MaxBatch}

NoDeployment ==
    /\ step = 0
    /\ roles = [c \in Contracts |-> NoRoles]
    /\ permits = {}

MCInit ==
    /\ DistributorInit
    /\ \/ running \in {"batches", "rewards"} /\ AddressesInit /\ NoDeployment
       \/ running = "deployment" /\ AlphaInit

BatchesNext ==
    \/ \E batch \in FewBatches : RegisterMultipleAddresses(batch)
    \/ \E id \in FewIds : DeleteAddress(id)

MCNext ==
    /\ \/ running = "batches" /\ BatchesNext /\ UNCHANGED <<deploymentVars, distributorVars>>
       \/ running = "deployment" /\ AlphaNext /\ UNCHANGED distributorVars
       \/ running = "rewards" /\ DistributorNext /\ UNCHANGED <<addressVars, deploymentVars>>
    /\ UNCHANGED running

MCSpec == MCInit /\ [][MCNext]_<<running, addressVars, deploymentVars, distributorVars>>
=============================================================================
