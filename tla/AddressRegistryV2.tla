-------------------------- MODULE AddressRegistryV2 --------------------------
(***************************************************************************)
(* contracts/registry/AddressRegistryV2.sol: where every contract finds    *)
(* the others.  An id has its address in a mapping, and the ids that have  *)
(* one are listed; the two change together, one id or many at a time.  The *)
(* named getters (daiPoolAddress, mAptAddress, ...) are GetAddress of one  *)
(* id each.                                                                *)
(***************************************************************************)
EXTENDS Naturals, SequencesExt

CONSTANTS
    Ids,
    Registrable,   \* addresses
    ZeroAddress,   \* which the owner may try to register as well
    MaxBatch       \* bound: ids in one call

ASSUME AddressRegistryAssumption == ZeroAddress \notin Registrable

VARIABLES
    idList,
    idToAddress

addressVars == <<idList, idToAddress>>

Batches == UNION {[1..n -> Ids \X (Registrable \cup {ZeroAddress})] : n \in 0..MaxBatch}

-----------------------------------------------------------------------------
HasAddress(id) == idToAddress[id] # ZeroAddress

\* Mutant: lists an id whenever it is registered.
ListAlways(list, addresses, id) == Append(list, id)

ListNew(list, addresses, id) ==
    IF addresses[id] = ZeroAddress THEN Append(list, id) ELSE list

RegisterEntry(registry, entry) ==
    [list |-> ListNew(registry.list, registry.addresses, entry[1]),
     addresses |-> [registry.addresses EXCEPT ![entry[1]] = entry[2]]]

RegisterAll(batch) ==
    FoldLeft(RegisterEntry, [list |-> idList, addresses |-> idToAddress], batch)

WithoutId(list, id) ==
    SubSeq([i \in DOMAIN list |-> IF list[i] = id THEN Last(list) ELSE list[i]],
           1, Len(list) - 1)

-----------------------------------------------------------------------------
AddressesInit ==
    /\ idList = <<>>
    /\ idToAddress = [id \in Ids |-> ZeroAddress]

\* registerMultipleAddresses, and registerAddress as a batch of one.
RegisterMultipleAddresses(batch) ==
    /\ \A i \in DOMAIN batch : batch[i][2] # ZeroAddress
    /\ idList' = RegisterAll(batch).list
    /\ idToAddress' = RegisterAll(batch).addresses

\* An id that is not listed is passed over silently.
DeleteAddress(id) ==
    /\ id \in ToSet(idList)
    /\ idList' = WithoutId(idList, id)
    /\ idToAddress' = [idToAddress EXCEPT ![id] = ZeroAddress]

AddressesNext ==
    \/ \E batch \in Batches : RegisterMultipleAddresses(batch)
    \/ \E id \in Ids : DeleteAddress(id)

AddressesSpec == AddressesInit /\ [][AddressesNext]_addressVars

-----------------------------------------------------------------------------
\* List and mapping agree whatever was registered and deleted, twice in one call or
\* once more later: exactly the ids that have an address are listed, each once.  An id
\* with an address that is not listed could never be deleted, since deleteAddress
\* looks for it in the list.
ListMatchesMapping ==
    /\ idList \in Seq(Ids)
    /\ idToAddress \in [Ids -> Registrable \cup {ZeroAddress}]
    /\ IsInjective(idList)
    /\ ToSet(idList) = {id \in Ids : HasAddress(id)}
=============================================================================
