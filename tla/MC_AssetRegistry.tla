-------------------------- MODULE MC_AssetRegistry --------------------------
(***************************************************************************)
(* Small instances for TLC of AssetRegistry, the registry that Chainlink   *)
(* nodes read, and of PeripheryDeployment, the scripts by which            *)
(* allocations get into it.  A behaviour is one of either, chosen at the   *)
(* start.                                                                  *)
(*                                                                         *)
(* The registry has the ERC20 allocation and three others, two of which    *)
(* carry the same name.  The scripts run twice for that name, and each run *)
(* looks up the allocation of the Curve 3pool first.                       *)
(***************************************************************************)
EXTENDS PeripheryDeployment, AssetRegistry, TLC

CONSTANTS erc20, threePool, frax, frax2

VARIABLE running

MCNameOf == [a \in Addresses |->
    CASE a = erc20 -> "erc20Allocation"
      [] a = threePool -> "curve-3pool"
      [] OTHER -> "curve-frax"]
MCNames == {"erc20Allocation", "curve-3pool", "curve-frax"}
MCInitial == <<erc20, threePool>>
MCNumberOfTokens == [a \in Addresses \ {erc20} |-> IF a = threePool THEN 1 ELSE 2]

\* The contracts the scripts would create are there and their runs over.
RunsOver ==
    /\ at = [r \in Runs |-> <<"registered">>]
    /\ proposals = [r \in Runs |-> [create |-> "succeeded", register |-> "none"]]

NoReading ==
    /\ tokenAddresses = <<>>
    /\ reading = FALSE /\ pending = <<>> /\ counted = <<>>
    /\ atStart = {} /\ removed = FALSE

MCInit ==
    \/ running = "nodes" /\ RegistryInit /\ RunsOver
    \/ running = "scripts" /\ Init /\ NoReading

MCNext ==
    \/ running = "nodes" /\ RegistryNext /\ UNCHANGED <<running, at, proposals>>
    \/ running = "scripts" /\ Next /\ UNCHANGED <<running, tokenVars, nodeVars, removed>>

MCSpec == MCInit /\ [][MCNext]_<<running, vars, registryVars>> /\ Fairness
=============================================================================
