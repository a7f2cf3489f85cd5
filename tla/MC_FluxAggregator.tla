--------------------------- MODULE MC_FluxAggregator ---------------------------
(***************************************************************************)
(* Small instances of FluxAggregator for TLC.  The constants hold all that *)
(* any of the instances uses; each takes only what `May' lists for it.     *)
(* The instance is chosen in the initial state and never changes, so that  *)
(* one run explores them one beside the other.                             *)
(***************************************************************************)
EXTENDS FluxAggregator, TLC

VARIABLE instance

Terms(min, max, delay) ==
    [minSubmissions |-> min, maxSubmissions |-> max, restartDelay |-> delay]

MCRoundTerms == {Terms(1, 1, 0), Terms(2, 2, 1), Terms(1, 2, 0)}

\* What the instances take unless they say otherwise.
Least == [terms |-> {Terms(1, 2, 0)}, answers |-> {1}, payments |-> {0},
          timeouts |-> {FirstTimeout}, requesters |-> {}, amounts |-> {},
          admins |-> {FirstAdmin}, oracles |-> 2, rounds |-> 2]

Instances ==
    \* Rounds one or both of two oracles have to answer, with a restart delay when both
    \* do, and with or without a timeout.
    [turns |-> [Least EXCEPT !.terms = {Terms(1, 1, 0), Terms(2, 2, 1)}, !.timeouts = Timeouts,
                             !.rounds = 3],
    \* Different answers, where the first makes the round's answer and a later one
    \* changes it.
     late |-> [Least EXCEPT !.answers = SubmissionValues, !.rounds = 3],
    \* Rounds that are requested before anyone has an answer for them.
     requested |-> [Least EXCEPT !.requesters = Requesters],
    \* Three oracles of which two answer each round, exchanged for one another.
     exchange |-> [Least EXCEPT !.terms = {Terms(2, 2, 1)}, !.oracles = 3],
    \* LINK comes and goes while oracles are paid, at payments that change and under
    \* admins that change.
     paid |-> [Least EXCEPT !.payments = Payments, !.amounts = LinkAmounts, !.admins = Admins,
                            !.rounds = 1]]

Joined == {o \in Oracles : oracles[o].startingRound # 0}

\* Next with the inputs of one instance.
NextWithin(given) ==
    \/ \E q \in given.requesters :
           \/ RequestNewRound(q)
           \/ \E authorized \in BOOLEAN, delay \in Delays :
                  SetRequesterPermissions(q, authorized, delay)
    \/ \E o \in Joined :
           \/ \E r \in 1..given.rounds, answer \in given.answers : Submit(o, r, answer)
           \/ \E caller \in given.admins, amount \in given.amounts :
                  WithdrawPayment(o, caller, amount)
           \/ Cardinality(given.admins) > 1 /\ \E caller, newAdmin \in given.admins :
                  TransferAdmin(o, caller, newAdmin)
           \/ \E caller \in given.admins : AcceptAdmin(o, caller)
    \/ \E removed \in SUBSET EnabledOracles, added \in SUBSET Oracles :
           /\ Cardinality(Joined \cup added) <= given.oracles
           /\ \E admin \in given.admins, terms \in given.terms :
                  ChangeOracles(removed, added, admin, terms)
    \/ \E terms \in given.terms, payment \in given.payments, timeout \in given.timeouts :
           UpdateFutureRounds(WithTerms(terms, payment, timeout))
    \/ \E amount \in given.amounts :
           LinkArrives(amount) \/ OnTokenTransfer(amount) \/ WithdrawFunds(amount)
    \/ UpdateAvailableFunds
    \/ Tick

MCInit == AggregatorInit /\ instance \in DOMAIN Instances

MCNext ==
    /\ NextWithin(Instances[instance])
    /\ reportingRoundId' <= Instances[instance].rounds
    /\ UNCHANGED instance

MCSpec == MCInit /\ [][MCNext]_<<instance, aggregatorVars>>

\* Only the first oracle is told from the others.
OracleSymmetry == Permutations(Oracles \ {FirstOracle})
=============================================================================
