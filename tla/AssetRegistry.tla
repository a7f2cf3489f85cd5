--------------------------- MODULE AssetRegistry ---------------------------
(***************************************************************************)
(* contracts/tvl/TvlManager.sol and Erc20Allocation.sol as the Chainlink   *)
(* nodes see them.  A node asks for the ids of all positions, each made of *)
(* an allocation's address and the index of one of its tokens, and then    *)
(* for the balance of one id after the other; the admin may register and   *)
(* remove allocations and tokens between any two of these calls.           *)
(*                                                                         *)
(* An allocation keeps its address wherever it stands in the list, but a   *)
(* token of the ERC20 allocation is its place in a list that removal       *)
(* reorders.  The nodes are off-chain and modelled from getAssetAllocationIds *)
(* and balanceOf; a call that reverts makes a node give up.                *)
(***************************************************************************)
EXTENDS NamedAddressSet

CONSTANTS
    Erc20Allocation,   \* the allocation whose tokens are registered one by one
    NumberOfTokens,    \* of each other allocation
    Tokens,
    MaxTokens          \* type(uint8).max; an allocation with as many reverts

ASSUME AssetRegistryAssumption ==
    /\ Erc20Allocation \in Addresses
    /\ NumberOfTokens \in [Addresses \ {Erc20Allocation} -> Nat]
    /\ MaxTokens \in Nat

VARIABLES
    tokenAddresses,    \* the ERC20 allocation's list
    reading,           \* a node is between its first and its last call
    pending,           \* ids it has still to ask for
    counted,           \* positions whose balances it has added up
    atStart,           \* history: positions registered when it asked for the ids
    removed            \* history: something was removed since

tokenVars == <<tokenAddresses>>
nodeVars == <<reading, pending, counted, atStart>>
registryVars == <<namedSetVars, tokenVars, nodeVars, removed>>

-----------------------------------------------------------------------------
TokenCount(a) ==
    IF a = Erc20Allocation THEN Len(tokenAddresses) ELSE NumberOfTokens[a]

\* Mutant: the loop ends one token early.
IdsOfButLast(a) == [i \in 1..(TokenCount(a) - 1) |-> <<a, i>>]

IdsOf(a) == [i \in 1..TokenCount(a) |-> <<a, i>>]

\* Mutant: the last index would not fit.
IdsReadableAtLimit == \A i \in DOMAIN namedAddresses :
                          TokenCount(namedAddresses[i]) <= MaxTokens

\* TOO_MANY_TOKENS
IdsReadable == \A i \in DOMAIN namedAddresses :
                   TokenCount(namedAddresses[i]) < MaxTokens

GetAssetAllocationIds ==
    FlattenSeq([i \in DOMAIN namedAddresses |-> IdsOf(namedAddresses[i])])

\* Mutant: refuses the last token.
IdAcceptedButLast(id) == IsListed(id[1]) /\ id[2] < TokenCount(id[1])

\* _getAssetAllocation reverts unless this holds.
IdAccepted(id) == IsListed(id[1]) /\ id[2] <= TokenCount(id[1])

\* What an accepted id stands for.
Position(id) ==
    IF id[1] = Erc20Allocation THEN <<Erc20Allocation, tokenAddresses[id[2]]>>
                               ELSE id

\* Every position that is registered: for the properties.
Positions ==
    UNION {{a} \X (IF a = Erc20Allocation THEN ToSet(tokenAddresses)
                                          ELSE 1..NumberOfTokens[a]) :
           a \in ToSet(namedAddresses)}

-----------------------------------------------------------------------------
\* The admin.  Every one of these locks the oracle adapter.

RegisterAssetAllocation(a) ==
    AddNamed(a) /\ UNCHANGED <<tokenVars, nodeVars, removed>>

RemoveAssetAllocation(name) ==
    /\ name # NameOf[Erc20Allocation]
    /\ RemoveNamed(name)
    /\ removed' = TRUE
    /\ UNCHANGED <<tokenVars, nodeVars>>

RegisterErc20Token(token) ==
    /\ tokenAddresses' = AddOnce(tokenAddresses, token)
    /\ UNCHANGED <<namedSetVars, nodeVars, removed>>

RemoveErc20Token(token) ==
    /\ tokenAddresses' = SwapAndPop(tokenAddresses, token)
    /\ removed' = (removed \/ token \in ToSet(tokenAddresses))
    /\ UNCHANGED <<namedSetVars, nodeVars>>

-----------------------------------------------------------------------------
\* A node.

StartReading ==
    /\ ~reading
    /\ IdsReadable
    /\ reading' = TRUE
    /\ pending' = GetAssetAllocationIds
    /\ counted' = <<>>
    /\ atStart' = Positions
    /\ removed' = FALSE
    /\ UNCHANGED <<namedSetVars, tokenVars>>

ReadBalance ==
    /\ reading /\ pending # <<>>
    /\ IdAccepted(Head(pending))
    /\ counted' = Append(counted, Position(Head(pending)))
    /\ pending' = Tail(pending)
    /\ UNCHANGED <<namedSetVars, tokenVars, reading, atStart, removed>>

\* All balances added up, or one of them refused.
StopReading ==
    /\ reading
    /\ pending # <<>> => ~IdAccepted(Head(pending))
    /\ reading' = FALSE
    /\ UNCHANGED <<namedSetVars, tokenVars, pending, counted, atStart, removed>>

-----------------------------------------------------------------------------
RegistryInit ==
    /\ NamedSetInit
    /\ tokenAddresses = <<>>
    /\ reading = FALSE
    /\ pending = <<>> /\ counted = <<>>
    /\ atStart = {}
    /\ removed = FALSE

AdminStep ==
    \/ \E a \in Addresses : RegisterAssetAllocation(a)
    \/ \E n \in Names : RemoveAssetAllocation(n)
    \/ \E t \in Tokens : RegisterErc20Token(t) \/ RemoveErc20Token(t)

NodeStep == StartReading \/ ReadBalance \/ StopReading

RegistryNext == AdminStep \/ NodeStep

RegistrySpec == RegistryInit /\ [][RegistryNext]_registryVars

-----------------------------------------------------------------------------
\* The values the variables take; an index a node holds is below the limit of a
\* byte, so no id is cut off.
TypeOK ==
    /\ namedAddresses \in Seq(Addresses)
    /\ nameLookup \in [Names -> Addresses \cup {NoAddress}]
    /\ tokenAddresses \in Seq(Tokens)
    /\ reading \in BOOLEAN
    /\ pending \in Seq(Addresses \X (1..(MaxTokens - 1)))
    /\ IsFiniteSet(atStart)
    /\ removed \in BOOLEAN

\* Only a removal can make a node count a position twice, miss one or give up.  While
\* nothing is removed no id it holds is refused, and a node that got through counted
\* every position that was registered when it started, each of them once, although
\* others were registered in the meantime.
ReadingComplete ==
    ~removed =>
        /\ reading => \A i \in DOMAIN pending : IdAccepted(pending[i])
        /\ pending = <<>> => IsInjective(counted) /\ ToSet(counted) = atStart
=============================================================================
