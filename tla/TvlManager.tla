----------------------------- MODULE TvlManager ----------------------------
(***************************************************************************)
(* contracts/tvl/TvlManager.sol and contracts/tvl/Erc20Allocation.sol: the *)
(* registry of what counts towards the TVL.  An asset allocation makes one *)
(* strategy's position count; the ERC20 allocation makes a list of plain   *)
(* token balances of the LP Account count.  The Chainlink nodes sum        *)
(* exactly what is registered, so every change of the registry locks the   *)
(* oracle adapter, which the composing module does.                        *)
(*                                                                         *)
(* The ERC20 allocation is itself registered, at deployment, and           *)
(* removeAssetAllocation refuses its name: it is always there.             *)
(***************************************************************************)

CONSTANTS
    Allocations,    \* the asset allocations deployed, by name
    Tokens          \* the ERC20 tokens the LP Account may hold

VARIABLES
    allocations,    \* allocations registered with the TVL manager
    erc20Tokens     \* tokens registered with the ERC20 allocation

registryVars == <<allocations, erc20Tokens>>

RegistryInit ==
    /\ allocations = {}
    /\ erc20Tokens = {}

IsAssetAllocationRegistered(names) == names \subseteq allocations

IsErc20TokenRegistered(tokens) == tokens \subseteq erc20Tokens

\* NamedAddressSet refuses duplicates and unknown names.
RegisterAssetAllocation(name) ==
    /\ name \notin allocations
    /\ allocations' = allocations \cup {name}
    /\ UNCHANGED erc20Tokens

RemoveAssetAllocation(name) ==
    /\ name \in allocations
    /\ allocations' = allocations \ {name}
    /\ UNCHANGED erc20Tokens

\* The ERC20 allocation accepts both twice.
RegisterErc20Token(token) ==
    /\ erc20Tokens' = erc20Tokens \cup {token}
    /\ UNCHANGED allocations

RemoveErc20Token(token) ==
    /\ erc20Tokens' = erc20Tokens \ {token}
    /\ UNCHANGED allocations

\* MetaPoolTokenV2._registerPoolUnderlyers, at the end of its transactions.
RegisterPoolUnderlyers(underlyers) ==
    /\ erc20Tokens' = erc20Tokens \cup underlyers
    /\ UNCHANGED allocations

-----------------------------------------------------------------------------
RegistryStep ==
    \/ \E a \in Allocations : RegisterAssetAllocation(a) \/ RemoveAssetAllocation(a)
    \/ \E t \in Tokens : RegisterErc20Token(t) \/ RemoveErc20Token(t)
=============================================================================
