---------------------- MODULE Deployment_proofs ----------------------
(***************************************************************************)
(* What is registered, for any addresses, names, tokens and deployments:   *)
(* the library's list and its lookup agree; whatever runs of the scripts   *)
(* are interrupted and made again, nothing is listed whose creation did    *)
(* not succeed; a node that asks for the ids and then for each balance     *)
(* counts every position once unless one was removed in between; the       *)
(* address registry's list is its mapping; a deployment ends with the      *)
(* roles and permits that its steps grant and no other.                    *)
(*                                                                         *)
(* The library's lemmas come first: the others cite them.                  *)
(***************************************************************************)
EXTENDS PeripheryDeployment, AssetRegistry, AlphaDeployment, Sums_proofs

-----------------------------------------------------------------------------
\* The library of named addresses, for any contracts and names: removal by swap-and-pop
\* takes out one element and no other, and every operation keeps list and lookup in
\* agreement.

\* SetMatchesLookup with the types it needs.
SetInv ==
    /\ namedAddresses \in Seq(Addresses)
    /\ nameLookup \in [Names -> Addresses \cup {NoAddress}]
    /\ SetMatchesLookup

-----------------------------------------------------------------------------
\* EnumerableSet.remove: the list has no duplicates before and after, and has lost
\* exactly the element removed.
LEMMA SwapAndPopRemoves ==
    ASSUME NEW S, NEW list \in Seq(S), NEW x \in ToSet(list), IsInjective(list)
    PROVE  /\ SwapAndPop(list, x) \in Seq(S)
           /\ IsInjective(SwapAndPop(list, x))
           /\ ToSet(SwapAndPop(list, x)) = ToSet(list) \ {x}
<1> DEFINE n == Len(list)
           moved == [i \in 1..n |-> IF list[i] = x THEN list[n] ELSE list[i]]
           rest == SubSeq(moved, 1, n - 1)
<1>1. DOMAIN list = 1..n /\ n \in Nat
    OBVIOUS
<1>2. PICK k \in 1..n : list[k] = x
    BY <1>1 DEF ToSet
<1>3. \A i, j \in 1..n : list[i] = list[j] => i = j
    BY <1>1 DEF IsInjective
<1>4. moved \in Seq(S) /\ Len(moved) = n
    BY <1>1, <1>2
<1>5. SwapAndPop(list, x) = rest
    BY <1>1 DEF SwapAndPop, Last
<1>6. rest \in Seq(S) /\ Len(rest) = n - 1
    BY <1>1, <1>2, <1>4
<1>7. DOMAIN rest = 1..(n - 1)
    BY <1>1, <1>2, <1>6
<1>8. \A i \in 1..(n - 1) : rest[i] = IF i = k THEN list[n] ELSE list[i]
    <2>1. \A i \in 1..(n - 1) : rest[i] = moved[i]
        BY <1>1, <1>2, <1>4
    <2> QED
        BY <1>1, <1>2, <1>3, <2>1
<1> HIDE DEF n, rest, moved
<1>9. IsInjective(rest)
    <2>1. ASSUME NEW i \in 1..(n - 1), NEW j \in 1..(n - 1), rest[i] = rest[j]
          PROVE  i = j
        BY <1>1, <1>3, <1>8, <2>1
    <2> QED
        BY <1>7, <2>1 DEF IsInjective
<1>10. ToSet(rest) = ToSet(list) \ {x}
    <2>1. ASSUME NEW i \in 1..(n - 1)
          PROVE  rest[i] \in ToSet(list) \ {x}
        <3>1. CASE i = k
            <4>1. n \in 1..n /\ n # k
                BY <1>1, <3>1
            <4>2. rest[i] = list[n]
                BY <1>8, <3>1
            <4>3. list[n] # x
                BY <1>2, <1>3, <4>1
            <4> QED
                BY <1>1, <4>1, <4>2, <4>3 DEF ToSet
        <3>2. CASE i # k
            <4>1. i \in 1..n
                BY <1>1
            <4>2. rest[i] = list[i]
                BY <1>8, <3>2
            <4>3. list[i] # x
                BY <1>2, <1>3, <3>2, <4>1
            <4> QED
                BY <1>1, <4>1, <4>2, <4>3 DEF ToSet
        <3> QED
            BY <3>1, <3>2
    <2>2. ASSUME NEW y \in ToSet(list) \ {x}
          PROVE  y \in ToSet(rest)
        <3>1. PICK i \in 1..n : list[i] = y
            BY <1>1 DEF ToSet
        <3>2. i # k
            BY <1>2, <3>1
        <3>3. CASE i = n
            <4>1. k \in 1..(n - 1)
                BY <1>1, <3>2, <3>3
            <4>2. rest[k] = y
                BY <1>8, <3>1, <3>3, <4>1
            <4> QED
                BY <1>7, <4>1, <4>2 DEF ToSet
        <3>4. CASE i # n
            <4>1. i \in 1..(n - 1)
                BY <1>1, <3>4
            <4>2. rest[i] = y
                BY <1>8, <3>1, <3>2, <4>1
            <4> QED
                BY <1>7, <4>1, <4>2 DEF ToSet
        <3> QED
            BY <3>3, <3>4
    <2>3. ToSet(rest) \subseteq ToSet(list) \ {x}
        BY <1>7, <2>1 DEF ToSet
    <2> QED
        BY <2>2, <2>3
<1> QED
    BY <1>5, <1>6, <1>9, <1>10

\* An element appended to a list without it is the only new one.
LEMMA AppendAdds ==
    ASSUME NEW S, NEW list \in Seq(S), NEW x \in S, x \notin ToSet(list), IsInjective(list)
    PROVE  /\ Append(list, x) \in Seq(S)
           /\ IsInjective(Append(list, x))
           /\ ToSet(Append(list, x)) = ToSet(list) \cup {x}
<1> DEFINE n == Len(list)
           more == Append(list, x)
<1>1. /\ n \in Nat /\ DOMAIN list = 1..n
      /\ more \in Seq(S) /\ DOMAIN more = 1..(n + 1)
    OBVIOUS
<1>2. /\ more[n + 1] = x
      /\ \A i \in 1..n : more[i] = list[i] /\ list[i] # x
    BY <1>1 DEF ToSet
<1> HIDE DEF more
<1>3. \A i, j \in 1..n : list[i] = list[j] => i = j
    BY <1>1 DEF IsInjective
<1>4. IsInjective(more)
    BY <1>1, <1>2, <1>3 DEF IsInjective
<1>5. ToSet(more) = ToSet(list) \cup {x}
    <2>1. ToSet(more) \subseteq ToSet(list) \cup {x}
        BY <1>1, <1>2 DEF ToSet
    <2>2. x \in ToSet(more)
        BY <1>1, <1>2 DEF ToSet
    <2>3. ToSet(list) \subseteq ToSet(more)
        BY <1>1, <1>2 DEF ToSet
    <2> QED
        BY <2>1, <2>2, <2>3
<1> QED
    BY <1>1, <1>4, <1>5 DEF more

-----------------------------------------------------------------------------
\* _add keeps list and lookup in agreement and lists one contract more.
LEMMA AddKeepsSet ==
    ASSUME SetInv, NEW a \in Addresses, AddNamed(a)
    PROVE  /\ SetInv'
           /\ ToSet(namedAddresses') = ToSet(namedAddresses) \cup {a}
<1>1. NameOf[a] \in Names /\ a # NoAddress
    BY NamedAddressSetAssumption
<1>2. /\ namedAddresses' = Append(namedAddresses, a)
      /\ a \notin ToSet(namedAddresses)
    BY DEF AddNamed, AddOnce, IsListed
<1>3. /\ namedAddresses' \in Seq(Addresses)
      /\ IsInjective(namedAddresses')
      /\ ToSet(namedAddresses') = ToSet(namedAddresses) \cup {a}
    BY <1>2, AppendAdds DEF SetInv, SetMatchesLookup
<1>4. /\ nameLookup' \in [Names -> Addresses \cup {NoAddress}]
      /\ nameLookup'[NameOf[a]] = a
      /\ \A n \in Names : n # NameOf[a] => nameLookup'[n] = nameLookup[n]
    BY <1>1 DEF AddNamed, SetInv
<1>5. ASSUME NEW n \in Names, nameLookup'[n] # NoAddress
      PROVE  NameOf[nameLookup'[n]] = n /\ IsListed(nameLookup[n])'
    <2>1. CASE n = NameOf[a]
        BY <1>3, <1>4, <2>1 DEF IsListed
    <2>2. CASE n # NameOf[a]
        <3>1. nameLookup'[n] = nameLookup[n]
            BY <1>4, <2>2
        <3>2. NameOf[nameLookup[n]] = n /\ nameLookup[n] \in ToSet(namedAddresses)
            BY <1>5, <3>1 DEF SetInv, SetMatchesLookup, IsListed
        <3> QED
            BY <1>3, <3>1, <3>2 DEF IsListed
    <2> QED
        BY <2>1, <2>2
<1>6. ASSUME NEW b \in ToSet(namedAddresses')
      PROVE  nameLookup'[NameOf[b]] = b
    <2>1. CASE b = a
        BY <1>4, <2>1
    <2>2. CASE b # a
        <3>1. b \in ToSet(namedAddresses)
            BY <1>3, <2>2
        <3>2. nameLookup[NameOf[b]] = b /\ b \in Addresses
            BY <3>1 DEF SetInv, SetMatchesLookup, ToSet
        <3>3. NameOf[b] # NameOf[a]
            BY <3>2, NamedAddressSetAssumption DEF AddNamed, NameFree
        <3>4. NameOf[b] \in Names
            BY <3>2, NamedAddressSetAssumption
        <3> QED
            BY <1>4, <3>2, <3>3, <3>4
    <2> QED
        BY <2>1, <2>2
<1>7. SetMatchesLookup'
    BY <1>3, <1>5, <1>6 DEF SetMatchesLookup, ToSet
<1> QED
    BY <1>3, <1>4, <1>7 DEF SetInv

\* _remove keeps list and lookup in agreement and lists one contract less: the one
\* that is found under the name, and not the one that is moved to its place.
LEMMA RemoveKeepsSet ==
    ASSUME SetInv, NEW name \in Names, RemoveNamed(name)
    PROVE  /\ SetInv'
           /\ ToSet(namedAddresses') = ToSet(namedAddresses) \ {nameLookup[name]}
<1> DEFINE gone == nameLookup[name]
<1>1. /\ gone \in ToSet(namedAddresses)
      /\ NameOf[gone] = name
    BY DEF RemoveNamed, SetInv, SetMatchesLookup, IsListed
<1>2. namedAddresses' = SwapAndPop(namedAddresses, gone)
    BY DEF RemoveNamed
<1>3. /\ namedAddresses' \in Seq(Addresses)
      /\ IsInjective(namedAddresses')
      /\ ToSet(namedAddresses') = ToSet(namedAddresses) \ {gone}
    BY <1>1, <1>2, SwapAndPopRemoves DEF SetInv, SetMatchesLookup
<1>4. /\ nameLookup' \in [Names -> Addresses \cup {NoAddress}]
      /\ nameLookup'[name] = NoAddress
      /\ \A n \in Names : n # name => nameLookup'[n] = nameLookup[n]
    BY DEF RemoveNamed, SetInv
<1>5. ASSUME NEW n \in Names, nameLookup'[n] # NoAddress
      PROVE  NameOf[nameLookup'[n]] = n /\ IsListed(nameLookup[n])'
    <2>1. n # name /\ nameLookup'[n] = nameLookup[n]
        BY <1>4, <1>5
    <2>2. NameOf[nameLookup[n]] = n /\ nameLookup[n] \in ToSet(namedAddresses)
        BY <1>5, <2>1 DEF SetInv, SetMatchesLookup, IsListed
    <2>3. nameLookup[n] # gone
        BY <1>1, <2>1, <2>2
    <2> QED
        BY <1>3, <2>1, <2>2, <2>3 DEF IsListed
<1>6. ASSUME NEW b \in ToSet(namedAddresses')
      PROVE  nameLookup'[NameOf[b]] = b
    <2>1. b \in ToSet(namedAddresses) /\ b # gone
        BY <1>3
    <2>2. nameLookup[NameOf[b]] = b /\ b \in Addresses
        BY <2>1 DEF SetInv, SetMatchesLookup, ToSet
    <2>3. NameOf[b] # name /\ NameOf[b] \in Names
        BY <2>1, <2>2, NamedAddressSetAssumption
    <2> QED
        BY <1>4, <2>2, <2>3
<1>7. SetMatchesLookup'
    BY <1>3, <1>5, <1>6 DEF SetMatchesLookup, ToSet
<1> QED
    BY <1>3, <1>4, <1>7 DEF SetInv

\* Neither does anything else.
LEMMA StutterKeepsSet ==
    ASSUME SetInv, UNCHANGED namedSetVars
    PROVE  SetInv'
BY DEF SetInv, SetMatchesLookup, IsListed, IsInjective, ToSet, namedSetVars

-----------------------------------------------------------------------------
\* The scripts.

Phases == {"propose", "prompt", "details", "receipt"}
Places == (Stages \X Phases) \cup {<<"verify">>, <<"registered">>, <<"error">>}
Statuses == {"none", "proposed", "succeeded", "failed", "discarded"}

\* Places before and after the proposal to register; the end in an error is neither.
BeforeRegistering == ({"create"} \X Phases) \cup {<<"register", "propose">>}
WithAddress == ({"register"} \X Phases) \cup {<<"verify">>, <<"registered">>}

ScriptTypes ==
    /\ at \in [Runs -> Places]
    /\ proposals \in [Runs -> [Stages -> Statuses]]

\* A run that has the address of a contract has created it, and only such a run
\* proposes to register, and only what is proposed gets registered.
RunInv(r) ==
    /\ at[r] = <<"create", "propose">> => proposals[r]["create"] = "none"
    /\ at[r] \in BeforeRegistering => proposals[r]["register"] = "none"
    /\ at[r] \in WithAddress => proposals[r]["create"] = "succeeded"
    /\ proposals[r]["register"] # "none" => proposals[r]["create"] = "succeeded"
    /\ IsListed(r) => proposals[r]["register"] = "succeeded"

ScriptInv == SetInv /\ ScriptTypes /\ \A r \in Runs : RunInv(r)

-----------------------------------------------------------------------------
\* A run that moves leaves the others where they are.
LEMMA GoesMovesOne ==
    ASSUME ScriptTypes, NEW r \in Runs, NEW place \in Places, Goes(r, place)
    PROVE  /\ at' \in [Runs -> Places]
           /\ at'[r] = place
           /\ \A v \in Runs \ {r} : at'[v] = at[v]
BY DEF ScriptTypes, Goes

\* A transaction that changes its status leaves the others as they are.
LEMMA BecomesChangesOne ==
    ASSUME ScriptTypes, NEW r \in Runs, NEW stage \in Stages, NEW status \in Statuses,
           Becomes(r, stage, status)
    PROVE  /\ proposals' \in [Runs -> [Stages -> Statuses]]
           /\ proposals'[r][stage] = status
           /\ \A s \in Stages \ {stage} : proposals'[r][s] = proposals[r][s]
           /\ \A v \in Runs \ {r} : proposals'[v] = proposals[v]
BY DEF ScriptTypes, Becomes

\* A run keeps its invariant while it stays where it is, with the same transactions,
\* unless it becomes listed.
LEMMA StillRunInv ==
    ASSUME NEW r \in Runs, RunInv(r), at'[r] = at[r], proposals'[r] = proposals[r],
           IsListed(r)' => IsListed(r)
    PROVE  RunInv(r)'
BY DEF RunInv

\* A step that only moves a run, to a place that its transactions allow.
LEMMA MoveKeepsInv ==
    ASSUME ScriptInv, NEW r \in Runs, NEW place \in Places, Goes(r, place),
           UNCHANGED <<namedSetVars, proposals>>,
           place # <<"create", "propose">>,
           place \in BeforeRegistering => proposals[r]["register"] = "none",
           place \in WithAddress => proposals[r]["create"] = "succeeded"
    PROVE  ScriptInv'
<1>1. /\ at' \in [Runs -> Places]
      /\ at'[r] = place
      /\ \A v \in Runs \ {r} : at'[v] = at[v]
    BY GoesMovesOne DEF ScriptInv
<1>2. SetInv'
    BY StutterKeepsSet DEF ScriptInv
<1>3. ScriptTypes'
    BY <1>1 DEF ScriptInv, ScriptTypes
<1>4. \A v \in Runs : IsListed(v)' => IsListed(v)
    BY DEF IsListed, namedSetVars
<1>5. ASSUME NEW v \in Runs
      PROVE  RunInv(v)'
    <2>1. CASE v = r
        BY <1>1, <1>4, <2>1 DEF ScriptInv, RunInv
    <2>2. CASE v # r
        BY <1>1, <1>4, <2>2, StillRunInv DEF ScriptInv
    <2> QED
        BY <2>1, <2>2
<1> QED
    BY <1>2, <1>3, <1>5 DEF ScriptInv

\* A step that only changes a transaction that was proposed and is not executed well.
LEMMA StatusKeepsInv ==
    ASSUME ScriptInv, NEW r \in Runs, NEW stage \in Stages, NEW status \in Statuses \ {"none"},
           proposals[r][stage] = "proposed", Becomes(r, stage, status),
           UNCHANGED <<namedSetVars, at>>
    PROVE  ScriptInv'
<1>1. /\ proposals' \in [Runs -> [Stages -> Statuses]]
      /\ proposals'[r][stage] = status
      /\ \A s \in Stages \ {stage} : proposals'[r][s] = proposals[r][s]
      /\ \A v \in Runs \ {r} : proposals'[v] = proposals[v]
    BY BecomesChangesOne DEF ScriptInv
<1>2. SetInv'
    BY StutterKeepsSet DEF ScriptInv
<1>3. ScriptTypes'
    BY <1>1 DEF ScriptInv, ScriptTypes
<1>4. \A v \in Runs : IsListed(v)' => IsListed(v)
    BY DEF IsListed, namedSetVars
<1>5. RunInv(r)'
    <2>1. RunInv(r) /\ at'[r] = at[r]
        BY DEF ScriptInv
    <2>2. CASE stage = "create"
        <3>1. proposals'[r]["register"] = proposals[r]["register"] /\ proposals'[r]["create"] = status
            BY <1>1, <2>2 DEF Stages
        <3> QED
            BY <1>4, <2>1, <2>2, <3>1 DEF RunInv
    <2>3. CASE stage = "register"
        <3>1. proposals'[r]["create"] = proposals[r]["create"] /\ proposals'[r]["register"] = status
            BY <1>1, <2>3 DEF Stages
        <3> QED
            BY <1>4, <2>1, <2>3, <3>1 DEF RunInv
    <2> QED
        BY <2>2, <2>3 DEF Stages
<1>6. \A v \in Runs \ {r} : RunInv(v)'
    BY <1>1, <1>4, StillRunInv DEF ScriptInv
<1> QED
    BY <1>2, <1>3, <1>5, <1>6 DEF ScriptInv

-----------------------------------------------------------------------------
\* A proposal is the first of its kind, and one to register has the address.
LEMMA ProposeKeepsInv ==
    ASSUME ScriptInv, NEW r \in Runs, NEW stage \in Stages, Propose(r, stage)
    PROVE  ScriptInv'
<1> DEFINE place == <<stage, "prompt">>
<1>1. place \in Places /\ Goes(r, place) /\ Becomes(r, stage, "proposed")
    BY DEF Propose, Places, Phases
<1>2. "proposed" \in Statuses
    BY DEF Statuses
<1>3. /\ at' \in [Runs -> Places]
      /\ at'[r] = place
      /\ \A v \in Runs \ {r} : at'[v] = at[v]
    BY <1>1, GoesMovesOne DEF ScriptInv
<1>4. /\ proposals' \in [Runs -> [Stages -> Statuses]]
      /\ proposals'[r][stage] = "proposed"
      /\ \A s \in Stages \ {stage} : proposals'[r][s] = proposals[r][s]
      /\ \A v \in Runs \ {r} : proposals'[v] = proposals[v]
    BY <1>1, <1>2, BecomesChangesOne DEF ScriptInv
<1>5. SetInv'
    BY StutterKeepsSet DEF ScriptInv, Propose
<1>6. \A v \in Runs : IsListed(v)' => IsListed(v)
    BY DEF IsListed, namedSetVars, Propose
<1>7. RunInv(r) /\ at[r] = <<stage, "propose">>
    BY DEF ScriptInv, Propose
<1>8. RunInv(r)'
    <2>1. CASE stage = "create"
        <3>1. /\ proposals'[r]["register"] = proposals[r]["register"]
              /\ at'[r] \notin WithAddress /\ at'[r] # <<"create", "propose">>
            BY <1>3, <1>4, <2>1 DEF Stages, WithAddress
        <3>2. proposals[r]["register"] = "none"
            BY <1>7, <2>1 DEF RunInv, BeforeRegistering, Phases
        <3> QED
            BY <1>6, <1>7, <3>1, <3>2 DEF RunInv
    <2>2. CASE stage = "register"
        <3>1. /\ proposals'[r]["create"] = proposals[r]["create"]
              /\ at'[r] \notin BeforeRegistering /\ at'[r] # <<"create", "propose">>
            BY <1>3, <1>4, <2>2 DEF Stages, BeforeRegistering
        <3>2. /\ proposals[r]["create"] = "succeeded"
              /\ proposals[r]["register"] = "none"
            BY <1>7, <2>2 DEF RunInv, WithAddress, BeforeRegistering, Phases
        <3>3. ~IsListed(r)
            BY <1>7, <3>2 DEF RunInv
        <3> QED
            BY <1>6, <3>1, <3>2, <3>3 DEF RunInv
    <2> QED
        BY <2>1, <2>2 DEF Stages
<1>9. \A v \in Runs \ {r} : RunInv(v)'
    BY <1>3, <1>4, <1>6, StillRunInv DEF ScriptInv
<1> QED
    BY <1>3, <1>4, <1>5, <1>8, <1>9 DEF ScriptInv, ScriptTypes

\* The steps of a script.
LEMMA ScriptStepKeepsInv ==
    ASSUME ScriptInv, NEW r \in Runs, ScriptStep(r) \/ Abort(r)
    PROVE  ScriptInv'
<1>1. RunInv(r)
    BY DEF ScriptInv
<1>2. CASE \E stage \in Stages : Propose(r, stage)
    BY <1>2, ProposeKeepsInv
<1>3. CASE MissNeeded(r) \/ Abort(r)
    <2>1. Goes(r, <<"error">>) /\ UNCHANGED <<namedSetVars, proposals>>
        BY <1>3 DEF MissNeeded, Abort
    <2>2. /\ <<"error">> \in Places /\ <<"error">> # <<"create", "propose">>
          /\ <<"error">> \notin BeforeRegistering /\ <<"error">> \notin WithAddress
        BY DEF Places, BeforeRegistering, WithAddress
    <2> QED
        BY <2>1, <2>2, MoveKeepsInv
<1>4. CASE Verify(r)
    <2>1. proposals[r]["create"] = "succeeded"
        BY <1>1, <1>4 DEF Verify, RunInv, WithAddress
    <2>2. /\ <<"registered">> \in Places /\ <<"registered">> # <<"create", "propose">>
          /\ <<"registered">> \notin BeforeRegistering
        BY DEF Places, BeforeRegistering
    <2> QED
        BY <1>4, <2>1, <2>2, MoveKeepsInv DEF Verify
<1>5. ASSUME NEW stage \in Stages, NEW yes \in BOOLEAN, Answer(r, stage, yes)
      PROVE  ScriptInv'
    <2> DEFINE place == CASE yes -> <<stage, "details">>
                          [] ~yes /\ stage = "create" -> <<"error">>
                          [] OTHER -> <<"verify">>
    <2>1. at[r] = <<stage, "prompt">> /\ Goes(r, place)
          /\ UNCHANGED <<namedSetVars, proposals>>
        BY <1>5 DEF Answer
    <2>2. place \in Places /\ place # <<"create", "propose">>
        BY DEF Places, Phases
    <2>3. place \in BeforeRegistering => proposals[r]["register"] = "none"
        BY <1>1, <2>1 DEF RunInv, BeforeRegistering, Phases, Stages
    <2>4. place \in WithAddress => proposals[r]["create"] = "succeeded"
        BY <1>1, <2>1 DEF RunInv, WithAddress, Phases, Stages
    <2> QED
        BY <2>1, <2>2, <2>3, <2>4, MoveKeepsInv
<1>6. ASSUME NEW stage \in Stages, GetDetails(r, stage)
      PROVE  ScriptInv'
    <2> DEFINE place == <<stage, "receipt">>
    <2>1. at[r] = <<stage, "details">> /\ Goes(r, place)
          /\ UNCHANGED <<namedSetVars, proposals>>
        BY <1>6 DEF GetDetails
    <2>2. place \in Places /\ place # <<"create", "propose">>
        BY DEF Places, Phases
    <2>3. place \in BeforeRegistering => proposals[r]["register"] = "none"
        BY <1>1, <2>1 DEF RunInv, BeforeRegistering, Phases
    <2>4. place \in WithAddress => proposals[r]["create"] = "succeeded"
        BY <1>1, <2>1 DEF RunInv, WithAddress, Phases
    <2> QED
        BY <2>1, <2>2, <2>3, <2>4, MoveKeepsInv
<1>7. ASSUME NEW stage \in Stages, GetReceipt(r, stage)
      PROVE  ScriptInv'
    <2> DEFINE place == CASE stage = "register" -> <<"verify">>
                          [] stage = "create" /\ AddressFound(r) -> <<"register", "propose">>
                          [] OTHER -> <<"error">>
    <2>1. at[r] = <<stage, "receipt">> /\ Goes(r, place)
          /\ UNCHANGED <<namedSetVars, proposals>>
        BY <1>7 DEF GetReceipt
    <2>2. place \in Places /\ place # <<"create", "propose">>
        BY DEF Places, Phases, Stages
    <2>3. place \in BeforeRegistering => proposals[r]["register"] = "none"
        BY <1>1, <2>1 DEF RunInv, BeforeRegistering, Phases, Stages
    <2>4. place \in WithAddress => proposals[r]["create"] = "succeeded"
        BY <1>1, <2>1 DEF RunInv, WithAddress, Phases, Stages, AddressFound
    <2> QED
        BY <2>1, <2>2, <2>3, <2>4, MoveKeepsInv
<1> QED
    BY <1>2, <1>3, <1>4, <1>5, <1>6, <1>7 DEF ScriptStep

\* The executions by the Safe's owners: what gets registered is what was proposed.
LEMMA ExecuteKeepsInv ==
    ASSUME ScriptInv, NEW r \in Runs, Execute(r)
    PROVE  ScriptInv'
<1>1. {"succeeded", "failed"} \subseteq Statuses \ {"none"} /\ {"create", "register"} = Stages
    BY DEF Statuses, Stages
<1>2. CASE Create(r)
    BY <1>1, <1>2, StatusKeepsInv DEF Create
<1>3. CASE Register(r) /\ UNCHANGED namedSetVars /\ Becomes(r, "register", "failed")
    BY <1>1, <1>3, StatusKeepsInv DEF Register
<1>4. CASE Register(r) /\ AddNamed(r) /\ Becomes(r, "register", "succeeded")
    <2>1. r \in Addresses
        BY PeripheryAssumption
    <2>2. SetInv' /\ ToSet(namedAddresses') = ToSet(namedAddresses) \cup {r}
        BY <1>4, <2>1, AddKeepsSet DEF ScriptInv
    <2>3. /\ proposals' \in [Runs -> [Stages -> Statuses]]
          /\ proposals'[r]["register"] = "succeeded"
          /\ \A s \in Stages \ {"register"} : proposals'[r][s] = proposals[r][s]
          /\ \A v \in Runs \ {r} : proposals'[v] = proposals[v]
        BY <1>1, <1>4, BecomesChangesOne DEF ScriptInv
    <2>4. UNCHANGED at /\ proposals[r]["register"] = "proposed"
        BY <1>4 DEF Register
    <2>5. ScriptTypes'
        BY <2>3, <2>4 DEF ScriptInv, ScriptTypes
    <2>6. RunInv(r)'
        <3>1. RunInv(r) /\ proposals'[r]["create"] = proposals[r]["create"]
            BY <2>3 DEF ScriptInv, Stages
        <3> QED
            BY <2>3, <2>4, <3>1 DEF RunInv
    <2>7. \A v \in Runs \ {r} : RunInv(v)'
        <3>1. \A v \in Runs \ {r} : IsListed(v)' => IsListed(v)
            BY <2>2 DEF IsListed
        <3> QED
            BY <2>3, <2>4, <3>1, StillRunInv DEF ScriptInv
    <2> QED
        BY <2>2, <2>5, <2>6, <2>7 DEF ScriptInv
<1> QED
    BY <1>2, <1>3, <1>4 DEF Execute, Register

\* A removal from the registry only shortens the list.
LEMMA RemovalKeepsInv ==
    ASSUME ScriptInv, NEW name \in Names, RemoveByName(name)
    PROVE  ScriptInv'
<1>1. SetInv' /\ ToSet(namedAddresses') \subseteq ToSet(namedAddresses)
    BY RemoveKeepsSet DEF ScriptInv, RemoveByName
<1>2. UNCHANGED <<at, proposals>>
    BY DEF RemoveByName
<1>3. \A v \in Runs : IsListed(v)' => IsListed(v)
    BY <1>1 DEF IsListed
<1>4. \A v \in Runs : RunInv(v)'
    BY <1>2, <1>3, StillRunInv DEF ScriptInv
<1> QED
    BY <1>1, <1>2, <1>4 DEF ScriptInv, ScriptTypes

\* Every step keeps the invariant.
LEMMA NextKeepsInv ==
    ASSUME ScriptInv, [Next]_vars
    PROVE  ScriptInv'
<1>1. CASE UNCHANGED vars
    <2>1. UNCHANGED namedSetVars /\ UNCHANGED <<at, proposals>>
        BY <1>1 DEF vars
    <2>2. SetInv'
        BY <2>1, StutterKeepsSet DEF ScriptInv
    <2>3. \A v \in Runs : IsListed(v)' => IsListed(v)
        BY <2>1 DEF IsListed, namedSetVars
    <2>4. \A v \in Runs : RunInv(v)'
        BY <2>1, <2>3, StillRunInv DEF ScriptInv
    <2> QED
        BY <2>1, <2>2, <2>4 DEF ScriptInv, ScriptTypes
<1>2. ASSUME NEW r \in Runs, ScriptStep(r) \/ Abort(r)
      PROVE  ScriptInv'
    BY <1>2, ScriptStepKeepsInv
<1>3. ASSUME NEW r \in Runs, Execute(r)
      PROVE  ScriptInv'
    BY <1>3, ExecuteKeepsInv
<1>4. ASSUME NEW r \in Runs, NEW stage \in Stages, Discard(r, stage)
      PROVE  ScriptInv'
    <2>1. "discarded" \in Statuses \ {"none"}
        BY DEF Statuses
    <2> QED
        BY <1>4, <2>1, StatusKeepsInv DEF Discard
<1>5. ASSUME NEW name \in Names, RemoveByName(name)
      PROVE  ScriptInv'
    BY <1>5, RemovalKeepsInv
<1> QED
    BY <1>1, <1>2, <1>3, <1>4, <1>5 DEF Next, AllOver

-----------------------------------------------------------------------------
\* At first the registry holds contracts of distinct names, none of them a run's.
LEMMA InitHasInv ==
    ASSUME Init
    PROVE  ScriptInv
<1>1. /\ Initial \in Seq(Addresses) /\ namedAddresses = Initial
      /\ \A i \in DOMAIN Initial : Initial[i] \in Addresses \ Runs
      /\ ToSet(Initial) = {Initial[i] : i \in DOMAIN Initial}
    BY PeripheryAssumption DEF Init, ToSet
<1>2. \A i \in DOMAIN Initial : NameOf[Initial[i]] \in Names
    BY <1>1, NamedAddressSetAssumption
<1>3. \A i \in DOMAIN Initial, a \in ToSet(Initial) :
          NameOf[a] = NameOf[Initial[i]] => a = Initial[i]
    BY <1>1, PeripheryAssumption
<1>4. \A i \in DOMAIN Initial : nameLookup[NameOf[Initial[i]]] = Initial[i]
    BY <1>1, <1>2, <1>3 DEF Init
<1>5. ASSUME NEW n \in Names, nameLookup[n] # NoAddress
      PROVE  nameLookup[n] \in ToSet(Initial) /\ NameOf[nameLookup[n]] = n
    <2>1. PICK i \in DOMAIN Initial : NameOf[Initial[i]] = n
        BY <1>5 DEF Init
    <2> QED
        BY <1>1, <1>4, <2>1
<1>6. IsInjective(namedAddresses)
    BY <1>1, PeripheryAssumption DEF IsInjective
<1>7. nameLookup \in [Names -> Addresses \cup {NoAddress}]
    <2>1. \A n \in Names : nameLookup[n] \in Addresses \cup {NoAddress}
        BY <1>1, <1>5
    <2>2. /\ DOMAIN nameLookup = Names
          /\ nameLookup = [n \in Names |-> nameLookup[n]]
        BY DEF Init
    <2> QED
        BY <2>1, <2>2
<1>8. SetInv
    BY <1>1, <1>4, <1>5, <1>6, <1>7 DEF SetInv, SetMatchesLookup, IsListed
<1>9. ScriptTypes
    BY DEF Init, ScriptTypes, Places, Phases, Stages, Statuses
<1>10. ASSUME NEW r \in Runs
       PROVE  RunInv(r)
    <2>1. ~IsListed(r)
        BY <1>1 DEF IsListed
    <2>2. at[r] = <<"create", "propose">> /\ at[r] \notin WithAddress
        BY DEF Init, WithAddress
    <2>3. proposals[r]["create"] = "none" /\ proposals[r]["register"] = "none"
        BY DEF Init, Stages
    <2> QED
        BY <2>1, <2>2, <2>3 DEF RunInv
<1> QED
    BY <1>8, <1>9, <1>10 DEF ScriptInv

\* Whatever is registered, or proposed for registration, was created before, however
\* many runs there are, wherever they are interrupted and whatever the Safe's owners do.
THEOREM RegisteredAlwaysCreated == Spec => []RegisteredWereCreated
<1>1. Init => ScriptInv
    BY InitHasInv
<1>2. ScriptInv /\ [Next]_vars => ScriptInv'
    BY NextKeepsInv
<1>3. ScriptInv => RegisteredWereCreated
    BY DEF ScriptInv, RunInv, RegisteredWereCreated
<1> QED
    BY <1>1, <1>2, <1>3, PTL DEF Spec

-----------------------------------------------------------------------------
\* registerAssetAllocation, removeAssetAllocation: every listed allocation is found
\* under its name, each once, and nothing else is, whatever was added and removed.
THEOREM RegistryMatchesLookup == RegistrySpec => []SetMatchesLookup
<1>1. RegistryInit => SetInv
    BY DEF RegistryInit, NamedSetInit, SetInv, SetMatchesLookup, IsInjective
<1>2. ASSUME SetInv, [RegistryNext]_registryVars
      PROVE  SetInv'
    <2>1. CASE \E a \in Addresses : RegisterAssetAllocation(a)
        BY <1>2, <2>1, AddKeepsSet DEF RegisterAssetAllocation
    <2>2. CASE \E name \in Names : RemoveAssetAllocation(name)
        BY <1>2, <2>2, RemoveKeepsSet DEF RemoveAssetAllocation
    <2>3. CASE \E t \in Tokens : RegisterErc20Token(t) \/ RemoveErc20Token(t)
        BY <1>2, <2>3, StutterKeepsSet DEF RegisterErc20Token, RemoveErc20Token
    <2>4. CASE NodeStep
        BY <1>2, <2>4, StutterKeepsSet DEF NodeStep, StartReading, ReadBalance, StopReading
    <2>5. CASE UNCHANGED registryVars
        BY <1>2, <2>5, StutterKeepsSet DEF registryVars
    <2> QED
        BY <1>2, <2>1, <2>2, <2>3, <2>4, <2>5 DEF RegistryNext, AdminStep
<1>3. SetInv => SetMatchesLookup
    BY DEF SetInv
<1> QED
    BY <1>1, <1>2, <1>3, PTL DEF RegistrySpec
-----------------------------------------------------------------------------
\* A node reading the registry.

\* Two lists without repetitions, and none between them.
LEMMA ConcatInjective ==
    ASSUME NEW S, NEW s \in Seq(S), NEW t \in Seq(S), IsInjective(s), IsInjective(t),
           ToSet(s) \cap ToSet(t) = {}
    PROVE  /\ s \o t \in Seq(S)
           /\ IsInjective(s \o t)
           /\ ToSet(s \o t) = ToSet(s) \cup ToSet(t)
<1> DEFINE m == Len(s)
           n == Len(t)
           both == s \o t
<1>1. /\ m \in Nat /\ n \in Nat /\ DOMAIN s = 1..m /\ DOMAIN t = 1..n
      /\ both \in Seq(S) /\ DOMAIN both = 1..(m + n)
    OBVIOUS
<1>2. /\ \A i \in 1..m : both[i] = s[i]
      /\ \A i \in (m + 1)..(m + n) : both[i] = t[i - m]
    OBVIOUS
<1>3. /\ \A i \in 1..m : s[i] \in ToSet(s)
      /\ \A i \in (m + 1)..(m + n) : i - m \in 1..n /\ t[i - m] \in ToSet(t)
    BY <1>1 DEF ToSet
<1>4. /\ \A i, j \in 1..m : s[i] = s[j] => i = j
      /\ \A i, j \in 1..n : t[i] = t[j] => i = j
    BY <1>1 DEF IsInjective
<1> HIDE DEF m, n, both
<1>5. \A i \in 1..(m + n) : i \in 1..m \/ i \in (m + 1)..(m + n)
    BY <1>1
<1>6. IsInjective(both)
    <2>1. ASSUME NEW i \in 1..(m + n), NEW j \in 1..(m + n), both[i] = both[j]
          PROVE  i = j
        <3>1. CASE i \in 1..m /\ j \in 1..m
            BY <1>2, <1>4, <2>1, <3>1
        <3>2. CASE i \in (m + 1)..(m + n) /\ j \in (m + 1)..(m + n)
            <4>1. i - m = j - m
                BY <1>2, <1>3, <1>4, <2>1, <3>2
            <4> QED
                BY <1>1, <4>1
        <3>3. CASE i \in 1..m /\ j \in (m + 1)..(m + n)
            BY <1>2, <1>3, <2>1, <3>3
        <3>4. CASE i \in (m + 1)..(m + n) /\ j \in 1..m
            BY <1>2, <1>3, <2>1, <3>4
        <3> QED
            BY <1>5, <3>1, <3>2, <3>3, <3>4
    <2> QED
        BY <1>1, <2>1 DEF IsInjective
<1>7. ToSet(both) = ToSet(s) \cup ToSet(t)
    <2>1. ToSet(both) \subseteq ToSet(s) \cup ToSet(t)
        <3>1. \A i \in 1..(m + n) : both[i] \in ToSet(s) \cup ToSet(t)
            BY <1>2, <1>3, <1>5
        <3>2. ToSet(both) = {both[i] : i \in 1..(m + n)}
            BY <1>1 DEF ToSet
        <3> QED
            BY <3>1, <3>2
    <2>2. ToSet(s) \subseteq ToSet(both)
        BY <1>1, <1>2 DEF ToSet
    <2>3. ASSUME NEW i \in 1..n PROVE t[i] \in ToSet(both)
        <3>1. m + i \in (m + 1)..(m + n) /\ (m + i) - m = i /\ m + i \in 1..(m + n)
            BY <1>1
        <3> QED
            BY <1>1, <1>2, <3>1 DEF ToSet
    <2> QED
        BY <1>1, <2>1, <2>2, <2>3 DEF ToSet
<1> QED
    BY <1>1, <1>6, <1>7 DEF both

\* f is the function by which FlattenSeq puts the first n lists after each other.
IsFlat(f, lists, n) ==
    f = [i \in 1..n |-> IF i = 1 THEN lists[i] ELSE f[i - 1] \o lists[i]]

\* FlattenSeq is the last of the running concatenations.
LEMMA FlattenChooses ==
    ASSUME NEW lists, Len(lists) # 0
    PROVE  FlattenSeq(lists) = (CHOOSE f : IsFlat(f, lists, Len(lists)))[Len(lists)]
BY DEF FlattenSeq, IsFlat

LEMMA FlattenExists ==
    ASSUME NEW lists
    PROVE  \A n \in Nat : \E f : IsFlat(f, lists, n)
<1> DEFINE G == {n \in Nat : \E f : IsFlat(f, lists, n)}
<1>1. 0 \in G
    <2> DEFINE f == [i \in 1..0 |-> lists[i]]
    <2>1. f = [i \in 1..0 |-> IF i = 1 THEN lists[i] ELSE f[i - 1] \o lists[i]]
        OBVIOUS
    <2> HIDE DEF f
    <2>2. IsFlat(f, lists, 0)
        BY <2>1 DEF IsFlat
    <2> QED
        BY <2>2
<1>2. ASSUME NEW n \in Nat, n \in G
      PROVE  n + 1 \in G
    <2>1. PICK f : IsFlat(f, lists, n)
        BY <1>2
    <2> DEFINE g == [i \in 1..(n + 1) |-> IF i = 1 THEN lists[i] ELSE f[i - 1] \o lists[i]]
    <2>2. \A i \in 1..n : f[i] = g[i]
        <3>1. \A i \in 1..n : f[i] = IF i = 1 THEN lists[i] ELSE f[i - 1] \o lists[i]
            BY <2>1, Zenon DEF IsFlat
        <3>2. \A i \in 1..n : i \in 1..(n + 1)
            OBVIOUS
        <3> QED
            BY <3>1, <3>2
    <2>3. \A i \in 1..(n + 1) : i # 1 => i - 1 \in 1..n
        OBVIOUS
    <2>4. g = [i \in 1..(n + 1) |-> IF i = 1 THEN lists[i] ELSE g[i - 1] \o lists[i]]
        BY <2>2, <2>3
    <2> HIDE DEF g
    <2>5. IsFlat(g, lists, n + 1)
        BY <2>4 DEF IsFlat
    <2> QED
        BY <2>5
<1>3. Nat \subseteq G
    <2> HIDE DEF G
    <2> QED BY <1>1, <1>2, NaturalInduction
<1> QED
    BY <1>3

Held == Addresses \X (1..(MaxTokens - 1))    \* ids that fit

\* ERC20 tokens: registered once.
TokensTyped == tokenAddresses \in Seq(Tokens) /\ IsInjective(tokenAddresses)

\* How many tokens an allocation reports.
LEMMA TokenCountType ==
    ASSUME TokensTyped, NEW a \in Addresses
    PROVE  TokenCount(a) \in Nat
BY AssetRegistryAssumption DEF TokenCount, TokensTyped

\* getAssetAllocationIds: an id for every token of every allocation, each once.
LEMMA IdsOfAll ==
    ASSUME SetInv, TokensTyped, IdsReadable
    PROVE  /\ GetAssetAllocationIds \in Seq(Held)
           /\ IsInjective(GetAssetAllocationIds)
           /\ ToSet(GetAssetAllocationIds)
                  = {id \in Held : IsListed(id[1]) /\ id[2] <= TokenCount(id[1])}
<1> DEFINE n == Len(namedAddresses)
           ids(j) == IdsOf(namedAddresses[j])
           lists == [j \in DOMAIN namedAddresses |-> ids(j)]
           IdsUpTo(k) == {id \in Held : \E j \in 1..k : id[1] = namedAddresses[j]
                                                     /\ id[2] <= TokenCount(id[1])}
<1>1. /\ n \in Nat /\ DOMAIN namedAddresses = 1..n /\ Len(lists) = n
      /\ \A j \in 1..n : namedAddresses[j] \in Addresses
    BY DEF SetInv
<1>2. \A i, j \in 1..n : namedAddresses[i] = namedAddresses[j] => i = j
    BY <1>1 DEF SetInv, SetMatchesLookup, IsInjective
<1>3. MaxTokens \in Nat
    BY AssetRegistryAssumption
<1>4. ASSUME NEW j \in 1..n
      PROVE  /\ ids(j) \in Seq(Held) /\ IsInjective(ids(j))
             /\ ToSet(ids(j)) = {id \in Held : id[1] = namedAddresses[j]
                                            /\ id[2] <= TokenCount(id[1])}
    <2> DEFINE a == namedAddresses[j]
               count == TokenCount(a)
    <2>1. a \in Addresses /\ count \in Nat /\ count < MaxTokens
        BY <1>1, TokenCountType DEF IdsReadable
    <2>2. ids(j) = [i \in 1..count |-> <<a, i>>]
        BY DEF IdsOf
    <2> HIDE DEF a, count, ids
    <2>3. \A i \in 1..count : <<a, i>> \in Held
        BY <1>3, <2>1 DEF Held
    <2>4. ids(j) \in Seq(Held) /\ DOMAIN ids(j) = 1..count
        BY <2>1, <2>2, <2>3
    <2>5. IsInjective(ids(j))
        BY <2>2 DEF IsInjective
    <2>6. ToSet(ids(j)) = {<<a, i>> : i \in 1..count}
        BY <2>2 DEF ToSet
    <2>7. {<<a, i>> : i \in 1..count} = {id \in Held : id[1] = a /\ id[2] <= count}
        <3>1. ASSUME NEW id \in Held, id[1] = a, id[2] <= count
              PROVE  id[2] \in 1..count /\ id = <<a, id[2]>>
            BY <1>3, <2>1, <3>1 DEF Held
        <3> QED
            BY <2>3, <3>1
    <2>8. {id \in Held : id[1] = a /\ id[2] <= count}
              = {id \in Held : id[1] = a /\ id[2] <= TokenCount(id[1])}
        BY DEF count
    <2> QED
        BY <2>4, <2>5, <2>6, <2>7, <2>8 DEF a
<1>5. CASE n = 0
    <2>1. lists = <<>> /\ GetAssetAllocationIds = lists
        BY <1>1, <1>5 DEF GetAssetAllocationIds, FlattenSeq
    <2>2. {id \in Held : IsListed(id[1]) /\ id[2] <= TokenCount(id[1])} = {}
        BY <1>1, <1>5 DEF IsListed, ToSet
    <2>3. <<>> \in Seq(Held) /\ IsInjective(<<>>) /\ ToSet(<<>>) = {}
        BY DEF IsInjective, ToSet
    <2> QED
        BY <2>1, <2>2, <2>3
<1>6. CASE n # 0
    <2> DEFINE f == CHOOSE f : IsFlat(f, lists, n)
               Fine(k) == /\ f[k] \in Seq(Held) /\ IsInjective(f[k])
                          /\ ToSet(f[k]) = IdsUpTo(k)
               G == {k \in Nat : k + 1 <= n => Fine(k + 1)}
    <2>1. IsFlat(f, lists, n)
        BY <1>1, FlattenExists
    <2>2. GetAssetAllocationIds = f[n]
        BY <1>1, <1>6, FlattenChooses DEF GetAssetAllocationIds
    <2> HIDE DEF f
    <2>3. \A k \in 1..n : f[k] = IF k = 1 THEN lists[k] ELSE f[k - 1] \o lists[k]
        BY <2>1, Zenon DEF IsFlat
    <2>4. \A j \in 1..n : lists[j] = ids(j)
        BY <1>1
    <2> HIDE DEF lists, ids, n
    <2>5. 0 \in G
        <3>1. 1 \in 1..n /\ f[1] = ids(1)
            BY <1>1, <1>6, <2>3, <2>4
        <3>2. IdsUpTo(1) = {id \in Held : id[1] = namedAddresses[1]
                                       /\ id[2] <= TokenCount(id[1])}
            OBVIOUS
        <3>3. Fine(1)
            BY <1>4, <3>1, <3>2
        <3> QED
            BY <3>3
    <2>6. ASSUME NEW k \in Nat, k \in G
          PROVE  k + 1 \in G
        <3> SUFFICES ASSUME k + 2 <= n PROVE Fine(k + 2)
            OBVIOUS
        <3>1. k + 2 \in 1..n /\ k + 2 # 1 /\ (k + 2) - 1 = k + 1
            BY <1>1
        <3>2. f[k + 2] = f[k + 1] \o ids(k + 2)
            BY <2>3, <2>4, <3>1
        <3>3. Fine(k + 1)
            BY <1>1, <2>6
        <3>4. /\ ids(k + 2) \in Seq(Held) /\ IsInjective(ids(k + 2))
              /\ ToSet(ids(k + 2)) = {id \in Held : id[1] = namedAddresses[k + 2]
                                                 /\ id[2] <= TokenCount(id[1])}
            BY <1>4, <3>1
        <3>5. IdsUpTo(k + 1) \cap ToSet(ids(k + 2)) = {}
            <4>1. \A j \in 1..(k + 1) : namedAddresses[j] # namedAddresses[k + 2]
                BY <1>1, <1>2, <3>1
            <4> QED
                BY <3>4, <4>1
        <3>6. IdsUpTo(k + 2) = IdsUpTo(k + 1) \cup ToSet(ids(k + 2))
            <4>1. \A j : j \in 1..(k + 2) <=> j \in 1..(k + 1) \/ j = k + 2
                OBVIOUS
            <4> QED
                BY <3>4, <4>1
        <3> HIDE DEF IdsUpTo
        <3> DEFINE before == f[k + 1]
                   more == ids(k + 2)
        <3>7. /\ before \in Seq(Held) /\ IsInjective(before)
              /\ more \in Seq(Held) /\ IsInjective(more)
              /\ ToSet(before) \cap ToSet(more) = {}
              /\ ToSet(before) \cup ToSet(more) = IdsUpTo(k + 2)
              /\ f[k + 2] = before \o more
            BY <3>2, <3>3, <3>4, <3>5, <3>6
        <3> HIDE DEF before, more
        <3>8. /\ before \o more \in Seq(Held)
              /\ IsInjective(before \o more)
              /\ ToSet(before \o more) = ToSet(before) \cup ToSet(more)
            BY <3>7, ConcatInjective
        <3> QED
            BY <3>7, <3>8
    <2>7. Nat \subseteq G
        <3> HIDE DEF G
        <3> QED BY <2>5, <2>6, NaturalInduction
    <2>8. Fine(n)
        <3>1. n - 1 \in Nat /\ (n - 1) + 1 = n
            BY <1>1, <1>6
        <3>2. n - 1 \in G
            BY <2>7, <3>1
        <3> QED
            BY <1>1, <3>1, <3>2
    <2>9. IdsUpTo(n) = {id \in Held : IsListed(id[1]) /\ id[2] <= TokenCount(id[1])}
        BY <1>1 DEF IsListed, ToSet
    <2> QED
        BY <2>2, <2>8, <2>9
<1> QED
    BY <1>5, <1>6

\* Positions are pairs of an allocation and a token, or its place there.
PositionsSet == Addresses \X (Tokens \cup Nat)

\* Two ids that are accepted stand for two positions.
LEMMA PositionsDiffer ==
    ASSUME TokensTyped, NEW x \in Held, NEW y \in Held, IdAccepted(x), IdAccepted(y),
           Position(x) = Position(y)
    PROVE  x = y
<1>1. /\ x = <<x[1], x[2]>> /\ y = <<y[1], y[2]>> /\ x[1] \in Addresses /\ y[1] \in Addresses
      /\ x[2] \in Nat \ {0} /\ y[2] \in Nat \ {0}
    BY AssetRegistryAssumption DEF Held
<1>2. CASE x[1] = Erc20Allocation /\ y[1] = Erc20Allocation
    <2>1. tokenAddresses[x[2]] = tokenAddresses[y[2]]
        BY <1>2 DEF Position
    <2>2. x[2] \in DOMAIN tokenAddresses /\ y[2] \in DOMAIN tokenAddresses
        <3>1. x[2] <= Len(tokenAddresses) /\ y[2] <= Len(tokenAddresses)
            BY <1>2 DEF IdAccepted, TokenCount
        <3> QED
            BY <1>1, <3>1 DEF TokensTyped
    <2> QED
        BY <1>1, <1>2, <2>1, <2>2 DEF TokensTyped, IsInjective
<1>3. CASE x[1] # Erc20Allocation /\ y[1] # Erc20Allocation
    BY <1>3 DEF Position
<1>4. CASE (x[1] = Erc20Allocation) # (y[1] = Erc20Allocation)
    <2>1. Position(x)[1] = x[1] /\ Position(y)[1] = y[1]
        BY DEF Position
    <2> QED
        BY <1>4, <2>1
<1> QED
    BY <1>2, <1>3, <1>4

\* An accepted id stands for a position.
LEMMA PositionTyped ==
    ASSUME TokensTyped, NEW id \in Held, IdAccepted(id)
    PROVE  Position(id) \in PositionsSet
<1>1. id = <<id[1], id[2]>> /\ id[1] \in Addresses /\ id[2] \in Nat \ {0}
    BY AssetRegistryAssumption DEF Held
<1>2. CASE id[1] = Erc20Allocation
    <2>1. id[2] \in DOMAIN tokenAddresses
        BY <1>1, <1>2 DEF IdAccepted, TokenCount, TokensTyped
    <2>2. tokenAddresses[id[2]] \in Tokens
        BY <2>1 DEF TokensTyped
    <2> QED
        BY <1>1, <1>2, <2>2 DEF Position, PositionsSet
<1>3. CASE id[1] # Erc20Allocation
    BY <1>1, <1>3 DEF Position, PositionsSet
<1> QED
    BY <1>2, <1>3

\* What the ids of all stand for is all there is.
LEMMA IdsCoverPositions ==
    ASSUME SetInv, TokensTyped, IdsReadable
    PROVE  /\ {Position(id) : id \in ToSet(GetAssetAllocationIds)} = Positions
           /\ IsFiniteSet(Positions)
<1> DEFINE ids == GetAssetAllocationIds
           count(a) == TokenCount(a)
           Here(a) == {a} \X (IF a = Erc20Allocation THEN ToSet(tokenAddresses)
                                                     ELSE 1..NumberOfTokens[a])
<1>1. /\ ids \in Seq(Held)
      /\ ToSet(ids) = {id \in Held : IsListed(id[1]) /\ id[2] <= TokenCount(id[1])}
    BY IdsOfAll
<1>2. Positions = UNION {Here(a) : a \in ToSet(namedAddresses)}
    BY DEF Positions
<1>3. /\ MaxTokens \in Nat /\ DOMAIN tokenAddresses = 1..Len(tokenAddresses)
      /\ Len(tokenAddresses) \in Nat
    BY AssetRegistryAssumption DEF TokensTyped
<1> HIDE DEF ids
<1>4. ASSUME NEW id \in ToSet(ids) PROVE Position(id) \in Positions
    <2>1. id \in Held /\ IsListed(id[1]) /\ id[2] <= TokenCount(id[1])
        BY <1>1
    <2>2. id = <<id[1], id[2]>> /\ id[1] \in Addresses /\ id[2] \in Nat \ {0}
        BY <1>3, <2>1 DEF Held
    <2>3. Position(id) \in Here(id[1])
        <3>1. CASE id[1] = Erc20Allocation
            <4>1. id[2] \in DOMAIN tokenAddresses
                BY <1>3, <2>1, <2>2, <3>1 DEF TokenCount
            <4>2. tokenAddresses[id[2]] \in ToSet(tokenAddresses)
                BY <4>1 DEF ToSet
            <4> QED
                BY <2>2, <3>1, <4>2 DEF Position
        <3>2. CASE id[1] # Erc20Allocation
            <4>1. id[2] \in 1..NumberOfTokens[id[1]]
                BY <2>1, <2>2, <3>2, AssetRegistryAssumption DEF TokenCount
            <4> QED
                BY <2>2, <3>2, <4>1 DEF Position
        <3> QED
            BY <3>1, <3>2
    <2> HIDE DEF Here
    <2> QED
        BY <1>2, <2>1, <2>3 DEF IsListed
<1>5. ASSUME NEW a \in ToSet(namedAddresses), NEW p \in Here(a)
      PROVE  \E id \in ToSet(ids) : p = Position(id)
    <2>1. a \in Addresses /\ TokenCount(a) \in Nat /\ TokenCount(a) < MaxTokens
        <3>1. PICK j \in DOMAIN namedAddresses : namedAddresses[j] = a
            BY DEF ToSet
        <3> QED
            BY <3>1, TokenCountType DEF IdsReadable, SetInv
    <2>2. PICK i \in 1..TokenCount(a) : p = Position(<<a, i>>)
        <3>1. CASE a = Erc20Allocation
            <4>1. p[2] \in ToSet(tokenAddresses) /\ p = <<a, p[2]>>
                BY <3>1
            <4>2. PICK i \in DOMAIN tokenAddresses : tokenAddresses[i] = p[2]
                BY <4>1 DEF ToSet
            <4> QED
                BY <1>3, <3>1, <4>1, <4>2 DEF Position, TokenCount
        <3>2. CASE a # Erc20Allocation
            BY <3>2 DEF Position, TokenCount
        <3> QED
            BY <3>1, <3>2
    <2>3. <<a, i>> \in Held /\ IsListed(a)
        BY <1>3, <2>1 DEF Held, IsListed
    <2>4. <<a, i>> \in ToSet(ids)
        BY <1>1, <2>1, <2>3
    <2> QED
        BY <2>2, <2>4
<1>6. {Position(id) : id \in ToSet(ids)} = Positions
    <2>1. \A p \in Positions : \E id \in ToSet(ids) : p = Position(id)
        <3> HIDE DEF Here
        <3> QED
            BY <1>2, <1>5
    <2> QED
        BY <1>4, <2>1
<1>7. IsFiniteSet(Positions)
    <2> DEFINE places == 1..Len(ids)
               g == [i \in places |-> Position(ids[i])]
    <2>1. IsFiniteSet(places) /\ places = DOMAIN ids
        BY <1>1, FS_Interval
    <2>2. ToSet(ids) = {ids[i] : i \in places}
        BY <2>1 DEF ToSet
    <2>3. g \in Surjection(places, Positions)
        <3>1. \A i \in places : g[i] \in Positions
            BY <1>4, <2>2
        <3>2. \A p \in Positions : \E i \in places : g[i] = p
            BY <1>6, <2>2
        <3> HIDE DEF places
        <3> QED
            BY <3>1, <3>2 DEF Surjection
    <2> HIDE DEF places, g
    <2> QED
        BY <2>1, <2>3, FS_Surjection
<1> QED
    BY <1>6, <1>7 DEF ids

\* What a node that met no removal still asks for is accepted, stands for positions it has
\* not counted, and makes up with those it has what was registered when it started.
SoundReading ==
    /\ \A i \in DOMAIN pending : IdAccepted(pending[i])
    /\ IsInjective(pending) /\ IsInjective(counted)
    /\ \A i \in DOMAIN pending : Position(pending[i]) \notin ToSet(counted)
    /\ atStart = ToSet(counted) \cup {Position(pending[i]) : i \in DOMAIN pending}

\* The types of what a node holds.
NodeTypes ==
    /\ reading \in BOOLEAN /\ removed \in BOOLEAN
    /\ pending \in Seq(Held) /\ counted \in Seq(PositionsSet)
    /\ IsFiniteSet(atStart)

\* The inductive invariant: what it needs of the library, and a sound reading.
NodesInv == SetInv /\ TokensTyped /\ NodeTypes /\ (~removed => SoundReading)

\* The step leaves the id accepted, for the position that it stood for.
Stays(id) == IdAccepted(id) => IdAccepted(id)' /\ Position(id)' = Position(id)

\* As long as ids are accepted as before and stand for the same, the node is not disturbed.
LEMMA UndisturbedReading ==
    ASSUME NodesInv, SetInv', TokensTyped', \A id \in Held : Stays(id),
           UNCHANGED <<pending, counted, atStart, removed>>, reading' \in BOOLEAN
    PROVE  NodesInv'
<1>1. NodeTypes'
    BY DEF NodesInv, NodeTypes
<1>2. ASSUME ~removed PROVE SoundReading'
    <2>1. SoundReading /\ pending \in Seq(Held)
        BY <1>2 DEF NodesInv, NodeTypes
    <2>2. \A i \in DOMAIN pending : IdAccepted(pending[i])'
                                    /\ Position(pending[i])' = Position(pending[i])
        BY <2>1 DEF SoundReading, Stays
    <2>3. /\ IsInjective(pending') /\ IsInjective(counted')
          /\ ToSet(counted') = ToSet(counted)
        BY <2>1 DEF SoundReading, IsInjective
    <2> QED
        BY <2>1, <2>2, <2>3 DEF SoundReading
<1> QED
    BY <1>1, <1>2 DEF NodesInv

\* A step that leaves the tokens alone.
LEMMA TokenStaysUntouched ==
    ASSUME TokensTyped, UNCHANGED tokenAddresses
    PROVE  TokensTyped'
BY DEF TokensTyped, IsInjective

\* registerAssetAllocation, registerErc20Token: nothing that was there moves.
LEMMA AdditionsDisturbNothing ==
    ASSUME TokensTyped, ToSet(namedAddresses) \subseteq ToSet(namedAddresses'),
           \/ UNCHANGED tokenAddresses
           \/ \E t \in Tokens : tokenAddresses' = Append(tokenAddresses, t)
    PROVE  \A id \in Held : Stays(id)
<1> SUFFICES ASSUME NEW id \in Held, IdAccepted(id)
             PROVE  IdAccepted(id)' /\ Position(id)' = Position(id)
    BY DEF Stays
<1>1. /\ id[1] \in Addresses /\ id[2] \in Nat \ {0}
      /\ IsListed(id[1]) /\ id[2] <= TokenCount(id[1])
    BY AssetRegistryAssumption DEF Held, IdAccepted
<1>2. IsListed(id[1])'
    BY <1>1 DEF IsListed
<1>3. CASE id[1] = Erc20Allocation
    <2>1. id[2] <= Len(tokenAddresses) /\ tokenAddresses \in Seq(Tokens)
        BY <1>1, <1>3 DEF TokenCount, TokensTyped
    <2>2. id[2] <= Len(tokenAddresses') /\ tokenAddresses'[id[2]] = tokenAddresses[id[2]]
        BY <1>1, <2>1
    <2> QED
        BY <1>2, <1>3, <2>2 DEF IdAccepted, Position, TokenCount
<1>4. CASE id[1] # Erc20Allocation
    BY <1>1, <1>2, <1>4 DEF IdAccepted, Position, TokenCount
<1> QED
    BY <1>3, <1>4

\* Additions disturb no id; a removal gives up the reading under way.
LEMMA AdminKeepsNodes ==
    ASSUME NodesInv, AdminStep
    PROVE  NodesInv'
<1>1. SetInv /\ TokensTyped /\ NodeTypes
    BY DEF NodesInv
<1>2. ASSUME NEW a \in Addresses, RegisterAssetAllocation(a)
      PROVE  NodesInv'
    <2>1. SetInv' /\ ToSet(namedAddresses) \subseteq ToSet(namedAddresses')
        BY <1>1, <1>2, AddKeepsSet DEF RegisterAssetAllocation
    <2>2. UNCHANGED <<tokenAddresses, reading, pending, counted, atStart, removed>>
        BY <1>2 DEF RegisterAssetAllocation, tokenVars, nodeVars
    <2>3. \A id \in Held : Stays(id)
        BY <1>1, <2>1, <2>2, AdditionsDisturbNothing
    <2> QED
        BY <1>1, <2>1, <2>2, <2>3, TokenStaysUntouched, UndisturbedReading DEF NodeTypes
<1>3. ASSUME NEW n \in Names, RemoveAssetAllocation(n)
      PROVE  NodesInv'
    <2>1. SetInv' /\ removed'
        BY <1>1, <1>3, RemoveKeepsSet DEF RemoveAssetAllocation
    <2>2. UNCHANGED <<tokenAddresses, reading, pending, counted, atStart>>
        BY <1>3 DEF RemoveAssetAllocation, tokenVars, nodeVars
    <2> QED
        BY <1>1, <2>1, <2>2, <1>3, TokenStaysUntouched
        DEF NodesInv, NodeTypes, RemoveAssetAllocation
<1>4. ASSUME NEW t \in Tokens, RegisterErc20Token(t)
      PROVE  NodesInv'
    <2>1. /\ UNCHANGED <<namedSetVars, reading, pending, counted, atStart, removed>>
          /\ tokenAddresses' = AddOnce(tokenAddresses, t)
        BY <1>4 DEF RegisterErc20Token, nodeVars
    <2>2. /\ TokensTyped'
          /\ \/ UNCHANGED tokenAddresses
             \/ \E u \in Tokens : tokenAddresses' = Append(tokenAddresses, u)
        <3>1. CASE t \in ToSet(tokenAddresses)
            BY <1>1, <2>1, <3>1, TokenStaysUntouched DEF AddOnce
        <3>2. CASE t \notin ToSet(tokenAddresses)
            BY <1>1, <2>1, <3>2, AppendAdds DEF AddOnce, TokensTyped
        <3> QED
            BY <3>1, <3>2
    <2>3. SetInv' /\ ToSet(namedAddresses) \subseteq ToSet(namedAddresses')
        BY <1>1, <2>1, StutterKeepsSet DEF namedSetVars
    <2>4. \A id \in Held : Stays(id)
        BY <1>1, <2>2, <2>3, AdditionsDisturbNothing
    <2> QED
        BY <1>1, <2>1, <2>2, <2>3, <2>4, UndisturbedReading DEF NodeTypes
<1>5. ASSUME NEW t \in Tokens, RemoveErc20Token(t)
      PROVE  NodesInv'
    <2>1. /\ UNCHANGED <<namedSetVars, reading, pending, counted, atStart>>
          /\ tokenAddresses' = SwapAndPop(tokenAddresses, t)
          /\ removed' = (removed \/ t \in ToSet(tokenAddresses))
        BY <1>5 DEF RemoveErc20Token, nodeVars
    <2>2. SetInv' /\ ToSet(namedAddresses) \subseteq ToSet(namedAddresses')
        BY <1>1, <2>1, StutterKeepsSet DEF namedSetVars
    <2>3. CASE t \in ToSet(tokenAddresses)
        <3>1. TokensTyped'
            BY <1>1, <2>1, <2>3, SwapAndPopRemoves DEF TokensTyped
        <3>2. removed' = TRUE
            BY <2>1, <2>3
        <3> QED
            BY <1>1, <2>1, <2>2, <3>1, <3>2 DEF NodesInv, NodeTypes
    <2>4. CASE t \notin ToSet(tokenAddresses)
        <3>1. UNCHANGED <<tokenAddresses, removed>>
            BY <1>1, <2>1, <2>4 DEF SwapAndPop, NodeTypes
        <3>2. \A id \in Held : Stays(id)
            BY <1>1, <2>2, <3>1, AdditionsDisturbNothing
        <3> QED
            BY <1>1, <2>1, <2>2, <3>1, <3>2, TokenStaysUntouched, UndisturbedReading
            DEF NodeTypes
    <2> QED
        BY <2>3, <2>4
<1> QED
    BY <1>2, <1>3, <1>4, <1>5 DEF AdminStep

\* getAssetAllocationIds: all positions are pending, each one once.
LEMMA StartKeepsNodes ==
    ASSUME NodesInv, StartReading
    PROVE  NodesInv'
<1>1. /\ SetInv /\ TokensTyped /\ IdsReadable
      /\ UNCHANGED <<namedSetVars, tokenAddresses>>
      /\ reading' = TRUE /\ removed' = FALSE
      /\ pending' = GetAssetAllocationIds /\ counted' = <<>> /\ atStart' = Positions
    BY DEF NodesInv, StartReading, tokenVars
<1>2. SetInv' /\ TokensTyped'
    BY <1>1, StutterKeepsSet, TokenStaysUntouched
<1>3. /\ pending' \in Seq(Held) /\ IsInjective(pending')
      /\ \A id \in ToSet(pending') : id \in Held /\ IdAccepted(id)
    BY <1>1, IdsOfAll DEF IdAccepted
<1>4. \A i \in DOMAIN pending' : IdAccepted(pending'[i]) /\ pending'[i] \in ToSet(pending')
    BY <1>3 DEF ToSet
<1>5. \A id : IdAccepted(id)' = IdAccepted(id) /\ Position(id)' = Position(id)
    BY <1>1 DEF IdAccepted, IsListed, TokenCount, Position, namedSetVars
<1>6. ToSet(counted') = {} /\ IsInjective(counted') /\ counted' \in Seq(PositionsSet)
    BY <1>1 DEF ToSet, IsInjective
<1>7. /\ atStart' = {Position(pending'[i]) : i \in DOMAIN pending'}
      /\ IsFiniteSet(atStart')
    <2>1. {Position(id) : id \in ToSet(pending')} = Positions /\ IsFiniteSet(Positions)
        BY <1>1, IdsCoverPositions
    <2>2. ToSet(pending') = {pending'[i] : i \in DOMAIN pending'}
        BY DEF ToSet
    <2> QED
        BY <1>1, <2>1, <2>2
<1>8. SoundReading'
    BY <1>3, <1>4, <1>5, <1>6, <1>7 DEF SoundReading
<1> QED
    BY <1>1, <1>2, <1>3, <1>6, <1>7, <1>8 DEF NodesInv, NodeTypes

\* balanceOf one id: its position moves from what is asked for to what is counted.
LEMMA ReadKeepsNodes ==
    ASSUME NodesInv, ReadBalance
    PROVE  NodesInv'
<1> DEFINE id == Head(pending)
           position == Position(id)
           n == Len(pending)
<1>1. /\ SetInv /\ TokensTyped /\ NodeTypes /\ IdAccepted(id)
      /\ UNCHANGED <<namedSetVars, tokenAddresses, reading, atStart, removed>>
      /\ pending \in Seq(Held) /\ pending # <<>> /\ counted \in Seq(PositionsSet)
      /\ pending' = Tail(pending) /\ counted' = Append(counted, position)
    BY DEF NodesInv, NodeTypes, ReadBalance, tokenVars
<1>2. SetInv' /\ TokensTyped'
    BY <1>1, StutterKeepsSet, TokenStaysUntouched
<1>3. /\ n \in Nat \ {0} /\ DOMAIN pending = 1..n /\ DOMAIN pending' = 1..(n - 1)
      /\ pending' \in Seq(Held) /\ id \in Held /\ id = pending[1]
      /\ \A i \in 1..(n - 1) : pending'[i] = pending[i + 1] /\ i + 1 \in 1..n
    BY <1>1
<1>4. position \in PositionsSet
    BY <1>1, <1>3, PositionTyped
<1>5. NodeTypes'
    BY <1>1, <1>3, <1>4 DEF NodeTypes
<1>6. ASSUME ~removed PROVE SoundReading'
    <2>1. SoundReading
        BY <1>6 DEF NodesInv
    <2>2. \A x : IdAccepted(x)' = IdAccepted(x) /\ Position(x)' = Position(x)
        BY <1>1 DEF IdAccepted, IsListed, TokenCount, Position, namedSetVars
    <2>3. position \notin ToSet(counted) /\ IsInjective(counted)
        BY <1>3, <2>1 DEF SoundReading
    <2> HIDE DEF position, id, n
    <2>4. IsInjective(counted') /\ ToSet(counted') = ToSet(counted) \cup {position}
        BY <1>1, <1>4, <2>3, AppendAdds
    <2>5. \A i, j \in 1..n : pending[i] = pending[j] => i = j
        BY <1>3, <2>1 DEF SoundReading, IsInjective
    <2>6. IsInjective(pending')
        BY <1>3, <2>5 DEF IsInjective
    <2>7. \A i \in DOMAIN pending' : IdAccepted(pending[i])'
        BY <1>3, <2>1, <2>2 DEF SoundReading
    <2>8. ASSUME NEW i \in DOMAIN pending'
          PROVE  Position(pending[i])' \notin ToSet(counted')
        <3>1. i + 1 \in 1..n /\ pending'[i] = pending[i + 1] /\ i + 1 # 1 /\ 1 \in 1..n
            BY <1>3
        <3>2. Position(pending[i + 1]) \notin ToSet(counted)
            BY <1>3, <2>1, <3>1 DEF SoundReading
        <3>3. pending[i + 1] # id
            BY <1>3, <2>5, <3>1
        <3>4. pending[i + 1] \in Held /\ IdAccepted(pending[i + 1])
            BY <1>1, <1>3, <2>1, <3>1 DEF SoundReading
        <3>5. Position(pending[i + 1]) # position
            BY <1>1, <1>3, <3>3, <3>4, PositionsDiffer DEF position
        <3> QED
            BY <2>2, <2>4, <3>1, <3>2, <3>5
    <2>9. atStart' = ToSet(counted') \cup {Position(pending[i])' : i \in DOMAIN pending'}
        <3>1. {Position(pending[i]) : i \in DOMAIN pending}
                  = {position} \cup {Position(pending[i])' : i \in DOMAIN pending'}
            <4>1. \A i \in 1..n : i = 1 \/ (i - 1 \in 1..(n - 1) /\ (i - 1) + 1 = i)
                BY <1>3
            <4>2. \A i \in 1..n : i # 1 => pending[i] = pending'[i - 1]
                BY <1>3, <4>1
            <4>3. \A i \in 1..(n - 1) : Position(pending[i])' = Position(pending[i + 1])
                BY <1>3, <2>2
            <4>4. \A i \in 1..n : i # 1 => Position(pending[i]) = Position(pending[i - 1])'
                BY <2>2, <4>2
            <4>5. 1 \in 1..n /\ Position(pending[1]) = position
                BY <1>3 DEF position
            <4>6. ASSUME NEW i \in DOMAIN pending
                  PROVE  Position(pending[i])
                             \in {position} \cup {Position(pending[j])' : j \in DOMAIN pending'}
                <5>1. CASE i = 1
                    BY <4>5, <5>1
                <5>2. CASE i # 1
                    <6>1. i - 1 \in DOMAIN pending'
                        BY <1>3, <4>1, <4>6, <5>2
                    <6>2. Position(pending[i]) = Position(pending[i - 1])'
                        BY <1>3, <4>4, <4>6, <5>2
                    <6> QED
                        BY <6>1, <6>2
                <5> QED
                    BY <5>1, <5>2
            <4>7. ASSUME NEW j \in DOMAIN pending'
                  PROVE  Position(pending[j])' \in {Position(pending[i]) : i \in DOMAIN pending}
                <5>1. j \in 1..(n - 1) /\ j + 1 \in DOMAIN pending
                    BY <1>3, <4>7
                <5>2. Position(pending[j])' = Position(pending[j + 1])
                    BY <4>3, <5>1
                <5> QED
                    BY <5>1, <5>2
            <4>8. position \in {Position(pending[i]) : i \in DOMAIN pending}
                BY <1>3, <4>5
            <4> QED
                BY <4>6, <4>7, <4>8
        <3> QED
            BY <1>1, <2>1, <2>4, <3>1 DEF SoundReading
    <2> QED
        BY <2>4, <2>6, <2>7, <2>8, <2>9 DEF SoundReading
<1> QED
    BY <1>1, <1>2, <1>5, <1>6 DEF NodesInv

\* Every step of the admin and of the node.
LEMMA NextKeepsNodes ==
    ASSUME NodesInv, [RegistryNext]_registryVars
    PROVE  NodesInv'
<1>1. ASSUME UNCHANGED <<namedSetVars, tokenAddresses, pending, counted, atStart, removed>>,
             reading' \in BOOLEAN
      PROVE  NodesInv'
    <2>1. SetInv' /\ TokensTyped'
        BY <1>1, StutterKeepsSet, TokenStaysUntouched DEF NodesInv
    <2>2. \A id \in Held : Stays(id)
        BY <1>1, AdditionsDisturbNothing DEF NodesInv, namedSetVars
    <2> QED
        BY <1>1, <2>1, <2>2, UndisturbedReading
<1>2. CASE StopReading
    BY <1>1, <1>2 DEF StopReading, tokenVars
<1>3. CASE UNCHANGED registryVars
    BY <1>1, <1>3 DEF registryVars, tokenVars, nodeVars, NodesInv, NodeTypes
<1> QED
    BY <1>2, <1>3, AdminKeepsNodes, StartKeepsNodes, ReadKeepsNodes DEF RegistryNext, NodeStep

\* The invariant holds.
LEMMA NodesAlwaysSound == RegistrySpec => []NodesInv
<1>1. ASSUME RegistryInit PROVE NodesInv
    <2>1. SetInv
        BY <1>1 DEF RegistryInit, NamedSetInit, SetInv, SetMatchesLookup, IsInjective
    <2>2. TokensTyped
        BY <1>1 DEF RegistryInit, TokensTyped, IsInjective
    <2>3. NodeTypes
        <3>1. /\ reading = FALSE /\ removed = FALSE /\ atStart = {}
              /\ pending = <<>> /\ counted = <<>>
            BY <1>1 DEF RegistryInit
        <3>2. IsFiniteSet(atStart)
            <4>1. IsFiniteSet({})
                BY FS_EmptySet
            <4> QED
                BY <3>1, <4>1, Zenon
        <3>3. pending \in Seq(Held) /\ counted \in Seq(PositionsSet)
            <4>1. <<>> \in Seq(Held) /\ <<>> \in Seq(PositionsSet)
                OBVIOUS
            <4> QED
                BY <3>1, <4>1
        <3>4. reading \in BOOLEAN /\ removed \in BOOLEAN
            BY <3>1
        <3> QED
            BY <3>2, <3>3, <3>4 DEF NodeTypes
    <2>4. SoundReading
        BY <1>1 DEF RegistryInit, SoundReading, IsInjective, ToSet
    <2> QED
        BY <2>1, <2>2, <2>3, <2>4 DEF NodesInv
<1>2. NodesInv /\ [RegistryNext]_registryVars => NodesInv'
    BY NextKeepsNodes
<1> QED
    BY <1>1, <1>2, PTL DEF RegistrySpec

\* The ids a node holds fit, and what it adds up is finite.
THEOREM NodesTypeCorrect == RegistrySpec => []TypeOK
<1>1. NodesInv => TypeOK
    BY DEF NodesInv, SetInv, TokensTyped, NodeTypes, Held, TypeOK
<1> QED
    BY <1>1, NodesAlwaysSound, PTL

\* getAssetAllocationIds and balanceOf, one call after the other: without a removal in
\* between, no id is refused and every position is counted once.
THEOREM ReadingAlwaysComplete == RegistrySpec => []ReadingComplete
<1>1. ASSUME NodesInv PROVE ReadingComplete
    <2>1. ASSUME ~removed, pending = <<>>
          PROVE  IsInjective(counted) /\ ToSet(counted) = atStart
        <3>1. SoundReading /\ DOMAIN pending = {}
            BY <1>1, <2>1 DEF NodesInv
        <3> QED
            BY <3>1 DEF SoundReading
    <2> QED
        BY <1>1, <2>1 DEF NodesInv, SoundReading, ReadingComplete
<1> QED
    BY <1>1, NodesAlwaysSound, PTL

-----------------------------------------------------------------------------
\* The address registry.

\* ListMatchesMapping, of any list and mapping.
ListMatches(registry) ==
    /\ registry.list \in Seq(Ids)
    /\ registry.addresses \in [Ids -> Registrable \cup {ZeroAddress}]
    /\ IsInjective(registry.list)
    /\ ToSet(registry.list) = {id \in Ids : registry.addresses[id] # ZeroAddress}

\* What registerAddress accepts.
Entries == Ids \X Registrable

\* registerAddress lists an id the first time only.
LEMMA EntryKeepsMatch ==
    ASSUME NEW registry, ListMatches(registry), NEW entry \in Entries
    PROVE  ListMatches(RegisterEntry(registry, entry))
<1> DEFINE id == entry[1]
           address == entry[2]
           list == registry.list
           addresses == registry.addresses
           after == RegisterEntry(registry, entry)
<1>1. id \in Ids /\ address \in Registrable /\ address # ZeroAddress
    BY AddressRegistryAssumption DEF Entries
<1>2. /\ after.list = ListNew(list, addresses, id)
      /\ after.addresses = [addresses EXCEPT ![id] = address]
    BY DEF RegisterEntry
<1>3. /\ list \in Seq(Ids) /\ IsInjective(list)
      /\ addresses \in [Ids -> Registrable \cup {ZeroAddress}]
      /\ ToSet(list) = {i \in Ids : addresses[i] # ZeroAddress}
    BY DEF ListMatches
<1> HIDE DEF id, address, list, addresses, after
<1>4. /\ after.addresses \in [Ids -> Registrable \cup {ZeroAddress}]
      /\ {i \in Ids : after.addresses[i] # ZeroAddress} = ToSet(list) \cup {id}
    BY <1>1, <1>2, <1>3
<1>5. ASSUME addresses[id] = ZeroAddress PROVE ListMatches(after)
    <2>1. after.list = Append(list, id) /\ id \notin ToSet(list)
        BY <1>2, <1>3, <1>5 DEF ListNew
    <2> QED
        BY <1>1, <1>3, <1>4, <2>1, AppendAdds DEF ListMatches
<1>6. ASSUME addresses[id] # ZeroAddress PROVE ListMatches(after)
    <2>1. after.list = list /\ id \in ToSet(list)
        BY <1>1, <1>2, <1>3, <1>6 DEF ListNew
    <2> QED
        BY <1>3, <1>4, <2>1 DEF ListMatches
<1> QED
    BY <1>5, <1>6 DEF after

\* f is the function that the fold over the places S of a batch defines.
IsFold(f, registry, batch, S) ==
    f = [T \in SUBSET S |->
            IF T = {} THEN registry ELSE RegisterEntry(f[T \ {Max(T)}], batch[Max(T)])]

\* The registry's state, as the model's operators take it.
Registry == [list |-> idList, addresses |-> idToAddress]

\* A batch is folded over the set of its places, the last one outermost.
LEMMA FoldChooses ==
    ASSUME NEW batch
    PROVE  RegisterAll(batch)
               = (CHOOSE f : IsFold(f, Registry, batch, DOMAIN batch))[DOMAIN batch]
BY DEF RegisterAll, FoldLeft, MapThenFoldSet, IsFold, Registry

\* The last place of a set of places.
LEMMA MaxIsLast ==
    ASSUME NEW k \in Nat, NEW T \in SUBSET (1..(k + 1)), k + 1 \in T
    PROVE  Max(T) = k + 1
<1>1. \A y \in T : y \in Int /\ k + 1 >= y
    OBVIOUS
<1>2. \A x \in T : (\A y \in T : x >= y) => x = k + 1
    BY <1>1
<1> QED
    BY <1>1, <1>2 DEF Max

\* There is such a function for the first places, and for one more.
LEMMA FoldExists ==
    ASSUME NEW registry, NEW batch
    PROVE  \A n \in Nat : \E f : IsFold(f, registry, batch, 1..n)
<1> DEFINE G == {n \in Nat : \E f : IsFold(f, registry, batch, 1..n)}
<1>1. 0 \in G
    <2>1. SUBSET (1..0) = {{}}
        OBVIOUS
    <2> DEFINE f == [T \in {{}} |-> registry]
    <2>2. f = [T \in {{}} |-> IF T = {} THEN registry
                              ELSE RegisterEntry(f[T \ {Max(T)}], batch[Max(T)])]
        OBVIOUS
    <2>3. IsFold(f, registry, batch, 1..0)
        BY <2>1, <2>2 DEF IsFold
    <2> QED
        BY <2>3
<1>2. ASSUME NEW n \in Nat, n \in G
      PROVE  n + 1 \in G
    <2>1. PICK f : IsFold(f, registry, batch, 1..n)
        BY <1>2
    <2> DEFINE S == 1..(n + 1)
               value(T) == IF T = {} THEN registry
                           ELSE RegisterEntry(f[T \ {Max(T)}], batch[Max(T)])
               g == [T \in SUBSET S |-> value(T)]
    <2>2. ASSUME NEW T \in SUBSET S, T # {}
          PROVE  g[T \ {Max(T)}] = f[T \ {Max(T)}]
        <3> DEFINE U == T \ {Max(T)}
        <3>1. U \in SUBSET (1..n)
            <4>1. n + 1 \in T => Max(T) = n + 1
                BY <2>2, MaxIsLast
            <4>2. n + 1 \notin U
                BY <4>1
            <4>3. U \in SUBSET (1..(n + 1))
                BY <2>2
            <4> HIDE DEF U
            <4> QED
                BY <4>2, <4>3
        <3> HIDE DEF U
        <3>2. U \in SUBSET S
            BY <3>1
        <3>3. f[U] = value(U)
            BY <2>1, <3>1 DEF IsFold
        <3> QED
            BY <3>2, <3>3 DEF U
    <2>3. g = [T \in SUBSET S |-> IF T = {} THEN registry
                                  ELSE RegisterEntry(g[T \ {Max(T)}], batch[Max(T)])]
        BY <2>2
    <2> HIDE DEF g
    <2>4. IsFold(g, registry, batch, S)
        BY <2>3 DEF IsFold
    <2> QED
        BY <2>4
<1>3. Nat \subseteq G
    <2> HIDE DEF G
    <2> QED BY <1>1, <1>2, NaturalInduction
<1> QED
    BY <1>3

\* registerMultipleAddresses: one entry after the other, which may name an id twice.
LEMMA BatchKeepsMatch ==
    ASSUME ListMatches(Registry), NEW batch \in Seq(Entries)
    PROVE  ListMatches(RegisterAll(batch))
<1> DEFINE S == DOMAIN batch
           f == CHOOSE f : IsFold(f, Registry, batch, S)
           G == {k \in Nat : k <= Len(batch) => ListMatches(f[1..k])}
<1>1. S = 1..Len(batch) /\ Len(batch) \in Nat
    OBVIOUS
<1>2. IsFold(f, Registry, batch, S)
    BY <1>1, FoldExists
<1> HIDE DEF f
<1>3. 0 \in G
    <2>1. 1..0 = {} /\ {} \in SUBSET S
        OBVIOUS
    <2>2. f[{}] = Registry
        BY <1>2, <2>1 DEF IsFold
    <2> QED
        BY <2>1, <2>2
<1>4. ASSUME NEW k \in Nat, k \in G
      PROVE  k + 1 \in G
    <2> SUFFICES ASSUME k + 1 <= Len(batch)
                 PROVE  ListMatches(f[1..(k + 1)])
        OBVIOUS
    <2> DEFINE T == 1..(k + 1)
    <2>1. T \in SUBSET S /\ T # {} /\ k + 1 \in T
        <3>1. k + 1 \in T /\ \A i \in T : i \in 1..Len(batch)
            BY <1>1
        <3> HIDE DEF T
        <3> QED
            BY <1>1, <3>1
    <2>2. Max(T) = k + 1
        BY <2>1, MaxIsLast
    <2>3. T \ {k + 1} = 1..k
        OBVIOUS
    <2> HIDE DEF T
    <2>4. f[T] = RegisterEntry(f[1..k], batch[k + 1])
        BY <1>2, <2>1, <2>2, <2>3 DEF IsFold
    <2>5. ListMatches(f[1..k])
        BY <1>1, <1>4
    <2>6. batch[k + 1] \in Entries
        BY <1>1
    <2> QED
        BY <2>4, <2>5, <2>6, EntryKeepsMatch DEF T
<1>5. Nat \subseteq G
    <2> HIDE DEF G
    <2> QED BY <1>3, <1>4, NaturalInduction
<1>6. ListMatches(f[S])
    BY <1>1, <1>5
<1> QED
    BY <1>6, FoldChooses DEF f

\* deleteAddress: the last id fills the place, and keeps its address.
LEMMA DeletionKeepsMatch ==
    ASSUME ListMatchesMapping, NEW id \in Ids, DeleteAddress(id)
    PROVE  ListMatchesMapping'
<1>1. /\ idList \in Seq(Ids) /\ IsInjective(idList) /\ id \in ToSet(idList)
      /\ idToAddress \in [Ids -> Registrable \cup {ZeroAddress}]
      /\ ToSet(idList) = {i \in Ids : idToAddress[i] # ZeroAddress}
      /\ idList' = SwapAndPop(idList, id)
      /\ idToAddress' = [idToAddress EXCEPT ![id] = ZeroAddress]
    BY DEF ListMatchesMapping, HasAddress, DeleteAddress, WithoutId, SwapAndPop
<1>2. /\ idList' \in Seq(Ids) /\ IsInjective(idList')
      /\ ToSet(idList') = ToSet(idList) \ {id}
    BY <1>1, SwapAndPopRemoves
<1>3. /\ idToAddress' \in [Ids -> Registrable \cup {ZeroAddress}]
      /\ {i \in Ids : idToAddress'[i] # ZeroAddress} = ToSet(idList) \ {id}
    BY <1>1
<1> QED
    BY <1>2, <1>3 DEF ListMatchesMapping, HasAddress

\* registerAddress and registerMultipleAddresses.
LEMMA RegistrationKeepsMatch ==
    ASSUME ListMatchesMapping, NEW batch \in Seq(Ids \X (Registrable \cup {ZeroAddress})),
           RegisterMultipleAddresses(batch)
    PROVE  ListMatchesMapping'
<1>1. ListMatches(Registry)
    BY DEF ListMatchesMapping, HasAddress, ListMatches, Registry
<1>2. batch \in Seq(Entries)
    <2>1. /\ Len(batch) \in Nat /\ DOMAIN batch = 1..Len(batch)
          /\ batch = [i \in 1..Len(batch) |-> batch[i]]
        OBVIOUS
    <2>2. \A i \in 1..Len(batch) : batch[i] \in Entries
        BY <2>1 DEF RegisterMultipleAddresses, Entries
    <2> QED
        BY <2>1, <2>2
<1>3. ListMatches(RegisterAll(batch))
    BY <1>1, <1>2, BatchKeepsMatch
<1> DEFINE after == RegisterAll(batch)
<1>4. idList' = after.list /\ idToAddress' = after.addresses
    BY DEF RegisterMultipleAddresses
<1> HIDE DEF after
<1>5. ListMatches(after)
    BY <1>3 DEF after
<1> QED
    BY <1>4, <1>5 DEF ListMatches, ListMatchesMapping, HasAddress

\* Whatever was registered and deleted, in batches of any length: exactly the ids that
\* have an address are listed, each once.
THEOREM ListAlwaysMatches == AddressesSpec => []ListMatchesMapping
<1>1. AddressesInit => ListMatchesMapping
    BY DEF AddressesInit, ListMatchesMapping, HasAddress, IsInjective, ToSet
<1>2. ASSUME ListMatchesMapping, [AddressesNext]_addressVars
      PROVE  ListMatchesMapping'
    <2>1. ASSUME NEW batch \in Batches, RegisterMultipleAddresses(batch)
          PROVE  ListMatchesMapping'
        <3>1. batch \in Seq(Ids \X (Registrable \cup {ZeroAddress}))
            BY DEF Batches
        <3> QED
            BY <1>2, <2>1, <3>1, RegistrationKeepsMatch
    <2>2. CASE UNCHANGED addressVars
        BY <1>2, <2>2 DEF addressVars, ListMatchesMapping, HasAddress, IsInjective, ToSet
    <2> QED
        BY <1>2, <2>1, <2>2, DeletionKeepsMatch DEF AddressesNext
<1> QED
    BY <1>1, <1>2, PTL DEF AddressesSpec
-----------------------------------------------------------------------------
\* The six steps.

\* The contracts that step k creates.
CreatedBy(k) == {Creates[k][i] : i \in DOMAIN Creates[k]}

\* What each step creates: a list, and a set.
LEMMA CreatesIs ==
    /\ Creates[0] = <<>>
    /\ Creates[1] = <<"mApt">>
    /\ Creates[2] = <<"tvlManager", "erc20Allocation">>
    /\ Creates[3] = <<"lpAccount">>
    /\ Creates[4] = <<"oracleAdapter">>
    /\ Creates[5] = <<"daiDemoPool", "usdcDemoPool", "usdtDemoPool">>
BY DEF Creates, LastStep

\* Each step creates a list of contracts.
LEMMA StepsAreLists ==
    ASSUME NEW k \in 0..LastStep
    PROVE  \E n \in Nat : DOMAIN Creates[k] = 1..n
<1>1. DOMAIN Creates[0] = 1..0
    BY CreatesIs
<1>2. DOMAIN Creates[1] = 1..1 /\ DOMAIN Creates[3] = 1..1 /\ DOMAIN Creates[4] = 1..1
    BY CreatesIs
<1>3. DOMAIN Creates[2] = 1..2
    BY CreatesIs
<1>4. DOMAIN Creates[5] = 1..3
    BY CreatesIs
<1>5. k \in {0, 1, 2, 3, 4, 5}
    BY DEF LastStep
<1> QED
    BY <1>1, <1>2, <1>3, <1>4, <1>5

\* The same as sets.
LEMMA StepsCreate ==
    /\ CreatedBy(0) = {}
    /\ CreatedBy(1) = {"mApt"}
    /\ CreatedBy(2) = {"tvlManager", "erc20Allocation"}
    /\ CreatedBy(3) = {"lpAccount"}
    /\ CreatedBy(4) = {"oracleAdapter"}
    /\ CreatedBy(5) = {"daiDemoPool", "usdcDemoPool", "usdtDemoPool"}
<1>1. CreatedBy(0) = {} /\ CreatedBy(1) = {"mApt"}
    BY CreatesIs DEF CreatedBy
<1>2. CreatedBy(2) = {"tvlManager", "erc20Allocation"}
    BY CreatesIs DEF CreatedBy
<1>3. CreatedBy(3) = {"lpAccount"} /\ CreatedBy(4) = {"oracleAdapter"}
    BY CreatesIs DEF CreatedBy
<1>4. CreatedBy(5) = {"daiDemoPool", "usdcDemoPool", "usdtDemoPool"}
    BY CreatesIs DEF CreatedBy
<1> QED
    BY <1>1, <1>2, <1>3, <1>4

\* All but the ERC20 allocation look up no more than their step has checked.
LEMMA ChecksCover ==
    ASSUME NEW k \in 0..LastStep, NEW c \in CreatedBy(k), c # "erc20Allocation"
    PROVE  c \in Contracts /\ RolesFor[c] \subseteq Checks[k]
<1>1. c \in Contracts
    BY DEF Contracts, CreatedBy
<1>2. k \in 0..5
    BY DEF LastStep
<1>3. RolesFor[c] = CASE c \in {"erc20Allocation", "lpAccount"} -> {"mApt"}
                      [] c = "oracleAdapter" ->
                             {"mApt", "tvlManager", "lpAccount", "erc20Allocation"}
                      [] OTHER -> {}
    BY <1>1 DEF RolesFor
<1>4. CASE c = "lpAccount"
    <2>1. k = 3
        BY <1>2, <1>4, StepsCreate
    <2>2. Checks[k] = {"mApt"}
        BY <2>1 DEF Checks, LastStep
    <2> QED
        BY <1>1, <1>3, <1>4, <2>2
<1>5. CASE c = "oracleAdapter"
    <2>1. k = 4
        BY <1>2, <1>5, StepsCreate
    <2>2. Checks[k] = {"mApt", "lpAccount", "tvlManager", "erc20Allocation"}
        BY <2>1 DEF Checks, LastStep
    <2> QED
        BY <1>1, <1>3, <1>5, <2>2
<1>6. CASE c \notin {"lpAccount", "oracleAdapter"}
    BY <1>1, <1>3, <1>6
<1> QED
    BY <1>4, <1>5, <1>6

\* A step that is made gives the roles that its checks cover.
LEMMA DeployKeepsRoles ==
    ASSUME RolesWithinDeployment, NEW k \in 0..LastStep, Deploy(k)
    PROVE  RolesWithinDeployment'
<1>1. /\ \A s \in Safes : idToAddress[s] = s
      /\ \A id \in Checks[k] : idToAddress[id] = id
    BY DEF Deploy, SafesRegistered, DependenciesRegistered
<1>2. roles' = [c \in Contracts |-> IF c \in CreatedBy(k) THEN RolesOf(c) ELSE roles[c]]
    BY DEF Deploy, CreatedBy
<1>3. ASSUME NEW c \in Contracts \ {"erc20Allocation"}
      PROVE  WithinDeployment(c)'
    <2>1. CASE c \in CreatedBy(k)
        <3>1. \A id \in RolesFor[c] : idToAddress[id] = id
            BY <1>1, <1>3, <2>1, ChecksCover
        <3>2. {idToAddress[id] : id \in RolesFor[c]} = RolesFor[c]
            BY <3>1
        <3>3. {idToAddress[s] : s \in Safes} = Safes
            BY <1>1
        <3>4. roles'[c] = [safes |-> Safes, contracts |-> RolesFor[c]]
            BY <1>2, <2>1, <3>2, <3>3 DEF RolesOf
        <3> QED
            BY <3>4 DEF WithinDeployment
    <2>2. CASE c \notin CreatedBy(k)
        <3>1. roles'[c] = roles[c]
            BY <1>2, <2>2
        <3>2. WithinDeployment(c)
            BY DEF RolesWithinDeployment
        <3> QED
            BY <3>1, <3>2 DEF WithinDeployment, Created
    <2> QED
        BY <2>1, <2>2
<1> QED
    BY <1>3 DEF RolesWithinDeployment

\* However the registry changes between the steps, each contract but the ERC20 allocation
\* gave its roles to the Safes and contracts of this deployment.
THEOREM RolesAlwaysWithin == AlphaSpec => []RolesWithinDeployment
<1>1. AlphaInit => RolesWithinDeployment
    BY DEF AlphaInit, RolesWithinDeployment, WithinDeployment, Created
<1>2. ASSUME RolesWithinDeployment, [AlphaNext]_alphaVars
      PROVE  RolesWithinDeployment'
    <2>1. ASSUME UNCHANGED roles PROVE RolesWithinDeployment'
        BY <1>2, <2>1 DEF RolesWithinDeployment, WithinDeployment, Created
    <2>2. CASE \E k \in 0..LastStep : Deploy(k)
        BY <1>2, <2>2, DeployKeepsRoles
    <2> QED
        BY <1>2, <2>1, <2>2
        DEF AlphaNext, OwnerRegisters, OwnerDeletes, PermitChanges, alphaVars
<1> QED
    BY <1>1, <1>2, PTL DEF AlphaSpec

\* The deployment's registry starts with the Safes and is used one entry, or one step's
\* contracts, at a time.
THEOREM DeploymentListMatches == AlphaSpec => []ListMatchesMapping
<1>1. ASSUME AlphaInit
      PROVE  ListMatchesMapping
    <2>1. /\ "emergencySafe" \in Ids /\ "adminSafe" \in Ids /\ "lpSafe" \in Ids
          /\ \A s \in Safes : s \in Ids /\ s \in Registrable /\ s # ZeroAddress
        BY AlphaDeploymentAssumption, AddressRegistryAssumption DEF DeploymentIds, Safes
    <2>2. /\ idList = <<"emergencySafe", "adminSafe", "lpSafe">>
          /\ idToAddress = [id \in Ids |-> IF id \in Safes THEN id ELSE ZeroAddress]
        BY <1>1 DEF AlphaInit
    <2>3. idList \in Seq(Ids) /\ IsInjective(idList)
        BY <2>1, <2>2 DEF IsInjective
    <2>4. ToSet(idList) = Safes
        BY <2>2 DEF ToSet, Safes
    <2>5. /\ idToAddress \in [Ids -> Registrable \cup {ZeroAddress}]
          /\ {id \in Ids : idToAddress[id] # ZeroAddress} = Safes
        BY <2>1, <2>2
    <2> QED
        BY <2>3, <2>4, <2>5 DEF ListMatchesMapping, HasAddress
<1>2. ASSUME ListMatchesMapping, [AlphaNext]_alphaVars
      PROVE  ListMatchesMapping'
    <2>1. ASSUME NEW k \in 0..LastStep, Deploy(k)
          PROVE  ListMatchesMapping'
        <3> DEFINE batch == [i \in DOMAIN Creates[k] |-> <<Creates[k][i], Creates[k][i]>>]
        <3>1. RegisterMultipleAddresses(batch)
            BY <2>1 DEF Deploy
        <3>2. \E n \in Nat : DOMAIN Creates[k] = 1..n
            BY StepsAreLists
        <3>3. \A i \in DOMAIN Creates[k] : Creates[k][i] \in Ids \cap Registrable
            BY AlphaDeploymentAssumption DEF DeploymentIds, Contracts
        <3>4. batch \in Seq(Ids \X (Registrable \cup {ZeroAddress}))
            BY <3>2, <3>3
        <3> QED
            BY <1>2, <3>1, <3>4, RegistrationKeepsMatch
    <2>2. ASSUME NEW id \in ChangedIds, NEW address \in {id} \cup Strangers,
                 OwnerRegisters(id, address)
          PROVE  ListMatchesMapping'
        <3>1. <<<<id, address>>>> \in Seq(Ids \X (Registrable \cup {ZeroAddress}))
            BY AlphaDeploymentAssumption
        <3> QED
            BY <1>2, <2>2, <3>1, RegistrationKeepsMatch DEF OwnerRegisters
    <2>3. ASSUME NEW id \in ChangedIds, OwnerDeletes(id)
          PROVE  ListMatchesMapping'
        BY <1>2, <2>3, AlphaDeploymentAssumption, DeletionKeepsMatch DEF OwnerDeletes
    <2>4. ASSUME UNCHANGED addressVars PROVE ListMatchesMapping'
        BY <1>2, <2>4 DEF addressVars, ListMatchesMapping, HasAddress, IsInjective, ToSet
    <2> QED
        BY <1>2, <2>1, <2>2, <2>3, <2>4 DEF AlphaNext, PermitChanges, alphaVars
<1> QED
    BY <1>1, <1>2, PTL DEF AlphaSpec
=============================================================================
