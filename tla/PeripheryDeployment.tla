------------------------- MODULE PeripheryDeployment -------------------------
(***************************************************************************)
(* scripts/periphery/zap_deploy.js, swap_deploy.js, allocation_deploy.js   *)
(* and utils/helpers/safe.js: a run of a script proposes to the Admin Safe *)
(* a transaction that creates a contract, waits for its receipt, proposes  *)
(* one that registers the contract, waits for its receipt and verifies the *)
(* contract on Etherscan.                                                  *)
(*                                                                         *)
(* The Safe's owners execute or discard what is proposed, in any order.    *)
(* An executed transaction may fail, in which case it has a receipt all    *)
(* the same.  The Safe's service and the nodes do not always answer, the   *)
(* operator may not go on, and a run may be interrupted anywhere; another  *)
(* run then creates another contract of the same name.  A run and the      *)
(* contract it creates have the same name here.                            *)
(***************************************************************************)
EXTENDS NamedAddressSet

CONSTANTS
    Runs,        \* of scripts, one after or beside the other
    Initial,     \* contracts registered beforehand
    Needed,      \* the name that the allocation script looks up; NoName in the others
    NoName

ASSUME PeripheryAssumption ==
    /\ Runs \subseteq Addresses
    /\ Initial \in Seq(Addresses \ Runs)
    /\ \A i, j \in DOMAIN Initial : NameOf[Initial[i]] = NameOf[Initial[j]] => i = j
    /\ Needed \in Names \cup {NoName} /\ NoName \notin Names

VARIABLES
    at,          \* where each run is
    proposals    \* what became of each run's two transactions

vars == <<namedSetVars, at, proposals>>

Stages == {"create", "register"}
Over == {<<"registered">>, <<"error">>}     \* exit codes 0 and 1

-----------------------------------------------------------------------------
Goes(r, place) == at' = [at EXCEPT ![r] = place]

Becomes(r, stage, status) == proposals' = [proposals EXCEPT ![r][stage] = status]

Init ==
    /\ namedAddresses = Initial
    /\ nameLookup = [n \in Names |->
           IF \E i \in DOMAIN Initial : NameOf[Initial[i]] = n
           THEN CHOOSE a \in ToSet(Initial) : NameOf[a] = n
           ELSE NoAddress]
    /\ at = [r \in Runs |-> <<"create", "propose">>]
    /\ proposals = [r \in Runs |-> [s \in Stages |-> "none"]]

-----------------------------------------------------------------------------
\* The script.

NeededIsThere == Needed # NoName => nameLookup[Needed] # NoAddress

Propose(r, stage) ==
    /\ at[r] = <<stage, "propose">>
    /\ stage = "create" => NeededIsThere
    /\ Becomes(r, stage, "proposed")
    /\ Goes(r, <<stage, "prompt">>)
    /\ UNCHANGED namedSetVars

MissNeeded(r) ==
    /\ at[r] = <<"create", "propose">>
    /\ ~NeededIsThere
    /\ Goes(r, <<"error">>)
    /\ UNCHANGED <<namedSetVars, proposals>>

\* The operator goes on, or not: then there is no receipt, in which the script looks
\* for the address of what it created, but for nothing once it has registered it.
Answer(r, stage, yes) ==
    /\ at[r] = <<stage, "prompt">>
    /\ Goes(r, CASE yes -> <<stage, "details">>
                 [] ~yes /\ stage = "create" -> <<"error">>
                 [] OTHER -> <<"verify">>)
    /\ UNCHANGED <<namedSetVars, proposals>>

\* Mutant: takes a transaction that failed for one still to come.
ExecutedWell(r, stage) == proposals[r][stage] = "succeeded"

Executed(r, stage) == proposals[r][stage] \in {"succeeded", "failed"}

\* Asks again and again; a call that fails is logged and made again.
GetDetails(r, stage) ==
    /\ at[r] = <<stage, "details">>
    /\ Executed(r, stage)
    /\ Goes(r, <<stage, "receipt">>)
    /\ UNCHANGED <<namedSetVars, proposals>>

\* Mutant: any receipt will do.
AddressFoundAnyway(r) == TRUE

\* The receipt has the event of a creation, unless the creation failed.
AddressFound(r) == proposals[r]["create"] = "succeeded"

GetReceipt(r, stage) ==
    /\ at[r] = <<stage, "receipt">>
    /\ Goes(r, CASE stage = "register" -> <<"verify">>
                 [] stage = "create" /\ AddressFound(r) -> <<"register", "propose">>
                 [] OTHER -> <<"error">>)
    /\ UNCHANGED <<namedSetVars, proposals>>

Verify(r) ==
    /\ at[r] = <<"verify">>
    /\ Goes(r, <<"registered">>)
    /\ UNCHANGED <<namedSetVars, proposals>>

\* Interrupted, or a call threw, as the verification does for a contract known already.
Abort(r) ==
    /\ at[r] \notin Over
    /\ Goes(r, <<"error">>)
    /\ UNCHANGED <<namedSetVars, proposals>>

-----------------------------------------------------------------------------
\* The Safe and its owners.

Create(r) ==
    /\ proposals[r]["create"] = "proposed"
    /\ \E status \in {"succeeded", "failed"} : Becomes(r, "create", status)
    /\ UNCHANGED <<namedSetVars, at>>

Register(r) ==
    /\ proposals[r]["register"] = "proposed"
    /\ \/ AddNamed(r) /\ Becomes(r, "register", "succeeded")
       \/ UNCHANGED namedSetVars /\ Becomes(r, "register", "failed")
    /\ UNCHANGED at

Execute(r) == Create(r) \/ Register(r)

Discard(r, stage) ==
    /\ proposals[r][stage] = "proposed"
    /\ Becomes(r, stage, "discarded")
    /\ UNCHANGED <<namedSetVars, at>>

RemoveByName(name) ==
    /\ RemoveNamed(name)
    /\ UNCHANGED <<at, proposals>>

-----------------------------------------------------------------------------
AllOver ==
    /\ \A r \in Runs : at[r] \in Over
    /\ UNCHANGED vars

ScriptStep(r) ==
    \/ \E stage \in Stages : Propose(r, stage) \/ GetDetails(r, stage) \/ GetReceipt(r, stage)
    \/ \E stage \in Stages, yes \in BOOLEAN : Answer(r, stage, yes)
    \/ MissNeeded(r) \/ Verify(r)

Next ==
    \/ \E r \in Runs : ScriptStep(r) \/ Abort(r) \/ Execute(r)
    \/ \E r \in Runs, stage \in Stages : Discard(r, stage)
    \/ \E name \in Names : RemoveByName(name)
    \/ AllOver

\* The operator answers, the service and the nodes do so in the end, and the owners get
\* round to a proposal, which they need not execute.
Fairness ==
    \A r \in Runs : /\ WF_vars(ScriptStep(r))
                    /\ WF_vars(Execute(r) \/ \E stage \in Stages : Discard(r, stage))

Spec == Init /\ [][Next]_vars /\ Fairness

-----------------------------------------------------------------------------
\* What is registered was created before: no run proposes to register a contract
\* whose creation failed, was discarded or is still to come, wherever runs are
\* interrupted and whatever the owners execute or discard first.
RegisteredWereCreated ==
    \A r \in Runs : IsListed(r) \/ proposals[r]["register"] # "none" =>
                     proposals[r]["create"] = "succeeded"

Discarded(r) == \E stage \in Stages : proposals[r][stage] = "discarded"

\* A run ends unless the Safe's owners discard what it waits for: a transaction that
\* fails ends it just as one that succeeds.
RunsEnd == \A r \in Runs : <>(at[r] \in Over \/ Discarded(r))
=============================================================================
