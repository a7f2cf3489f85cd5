---------------------------- MODULE MC_IndexToken ----------------------------
(***************************************************************************)
(* Small instances of IndexToken for TLC.  The constants hold all that any *)
(* of the instances uses; each takes only what `Instances' lists for it.   *)
(* The instance is chosen in the initial state and never changes, so that  *)
(* one run explores them one beside the other.                             *)
(***************************************************************************)
EXTENDS IndexToken, TLC

CONSTANTS u1, u2, u3

VARIABLE instance

Instances ==
    \* One user and what shares are worth: prices, deployed values and fees at which
    \* divisions round.
    [value |-> [users |-> {u3}, deposits |-> 1..Funds, withdrawals |-> 1..Funds,
                shares |-> 1..MaxSupply, supply |-> MaxSupply, allowances |-> {},
                prices |-> Prices \ {2}, deployedValues |-> DeployedValues,
                withdrawFees |-> WithdrawFees, loans |-> 1..Funds, readable |-> BOOLEAN,
                switches |-> FALSE],
    \* Two users, each acting for the other, against the switches and the clock, while a
    \* share is worth half an asset.
     access |-> [users |-> {u1, u2}, deposits |-> {2}, withdrawals |-> {1},
                 shares |-> {4}, supply |-> 4, allowances |-> {4, Unlimited},
                 prices |-> {2}, deployedValues |-> {0},
                 withdrawFees |-> {0}, loans |-> {}, readable |-> {TRUE},
                 switches |-> TRUE]]

UserSymmetry == Permutations({u1, u2})

\* Steps with the inputs of one instance.
StepWithin(given) ==
    \/ \E caller, other \in given.users :
           \/ \E n \in given.deposits : Deposit(caller, other, n)
           \/ \E n \in given.shares : Mint(caller, other, n)
           \/ \E owner \in given.users :
                  \/ \E n \in given.shares : Redeem(caller, other, owner, n)
                  \/ \E n \in given.withdrawals : Withdraw(caller, other, owner, n)
                  \/ \E n \in given.shares : Transfer(caller, owner, other, n)
           \/ caller # other /\ \E n \in given.allowances : Approve(caller, other, n)
    \/ \E n \in given.loans : TransferToLpAccount(n) \/ ReceiveFromLpAccount(n)
    \/ given.switches /\ SwitchStep
    \/ \E f \in ArbitrageFees, t \in ArbitrageFeePeriods : SetArbitrageFee(f, t)
    \/ \E r \in ReservePercentages : SetReservePercentage(r)
    \/ \E f \in given.withdrawFees : SetWithdrawFee(f)

ValuesChangeWithin(given) ==
    /\ ValuesChange
    /\ price' \in given.prices /\ deployedValue' \in given.deployedValues
    /\ readable' \in given.readable

MCInit ==
    /\ Init
    /\ instance \in DOMAIN Instances
    /\ price \in Instances[instance].prices /\ readable \in Instances[instance].readable

MCNext ==
    /\ \/ StepWithin(Instances[instance]) /\ UNCHANGED envVars
       \/ ValuesChangeWithin(Instances[instance]) /\ UNCHANGED <<holdings, settings>>
       \/ NewBlock /\ UNCHANGED <<holdings, settings>>
    /\ TotalSupply' <= Instances[instance].supply
    /\ UNCHANGED instance

MCSpec == MCInit /\ [][MCNext]_<<instance, vars>>
=============================================================================
