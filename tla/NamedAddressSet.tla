-------------------------- MODULE NamedAddressSet --------------------------
(***************************************************************************)
(* contracts/libraries/NamedAddressSet.sol: contracts kept in a list and   *)
(* looked up by the constant name each of them carries.  The list is       *)
(* OpenZeppelin's EnumerableSet, which fills the place of a removed        *)
(* element with the last one.                                              *)
(***************************************************************************)
EXTENDS Naturals, SequencesExt

CONSTANTS
    Addresses,   \* contracts with a name
    Names,
    NameOf,      \* NAME of each contract; two may carry the same
    NoAddress    \* the zero address

ASSUME NamedAddressSetAssumption ==
    /\ NameOf \in [Addresses -> Names]
    /\ NoAddress \notin Addresses

VARIABLES
    namedAddresses,   \* the list
    nameLookup

namedSetVars == <<namedAddresses, nameLookup>>

\* EnumerableSet.remove
SwapAndPop(list, x) ==
    IF x \in ToSet(list)
    THEN SubSeq([i \in DOMAIN list |-> IF list[i] = x THEN Last(list) ELSE list[i]],
                1, Len(list) - 1)
    ELSE list

\* EnumerableSet.add
AddOnce(list, x) == IF x \in ToSet(list) THEN list ELSE Append(list, x)

NamedSetInit ==
    /\ namedAddresses = <<>>
    /\ nameLookup = [n \in Names |-> NoAddress]

IsListed(a) == a \in ToSet(namedAddresses)

\* Mutant: a name in use is not refused.
NameFreeAnyway(name) == name \in Names

NameFree(name) == nameLookup[name] = NoAddress

AddNamed(a) ==
    /\ ~IsListed(a)
    /\ NameFree(NameOf[a])
    /\ namedAddresses' = AddOnce(namedAddresses, a)
    /\ nameLookup' = [nameLookup EXCEPT ![NameOf[a]] = a]

RemoveNamed(name) ==
    /\ nameLookup[name] # NoAddress
    /\ namedAddresses' = SwapAndPop(namedAddresses, nameLookup[name])
    /\ nameLookup' = [nameLookup EXCEPT ![name] = NoAddress]

-----------------------------------------------------------------------------
\* List and lookup agree, whatever was added and removed: each listed contract is
\* found under its name, and nothing else is.
SetMatchesLookup ==
    /\ IsInjective(namedAddresses)
    /\ \A n \in Names : nameLookup[n] # NoAddress =>
           NameOf[nameLookup[n]] = n /\ IsListed(nameLookup[n])
    /\ \A i \in DOMAIN namedAddresses :
           nameLookup[NameOf[namedAddresses[i]]] = namedAddresses[i]
=============================================================================
