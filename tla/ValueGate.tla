----------------------------- MODULE ValueGate -----------------------------
(***************************************************************************)
(* What the oracle adapter promises about the values it serves (the TVL    *)
(* and the price of each asset), told with timers instead of block         *)
(* numbers: the gate is closed for a number of blocks, and each value has  *)
(* a submission that stands in for its feed for a number of blocks.  The   *)
(* timers run down by themselves, one per block, and nothing but a new     *)
(* request winds one up.                                                   *)
(***************************************************************************)
EXTENDS Integers

CONSTANT Readings   \* the values served through the gate

VARIABLES
    closedFor,      \* blocks until values can be read again
    overrideFor,    \* blocks for which a submitted value replaces the feed
    overrideValue,  \* the value submitted last
    defaultPeriod   \* blocks a lock without a period lasts

gateVars == <<closedFor, overrideFor, overrideValue, defaultPeriod>>

Init ==
    /\ closedFor = 0
    /\ overrideFor = [r \in Readings |-> 0]
    /\ overrideValue = [r \in Readings |-> 0]
    /\ defaultPeriod \in Nat

RunDown(n) == IF n > 0 THEN n - 1 ELSE 0

Tick ==
    /\ closedFor' = RunDown(closedFor)
    /\ overrideFor' = [r \in Readings |-> RunDown(overrideFor[r])]
    /\ UNCHANGED <<overrideValue, defaultPeriod>>

\* A default lock starts the period afresh, longer or shorter.
Close ==
    /\ closedFor' = defaultPeriod
    /\ UNCHANGED <<overrideFor, overrideValue, defaultPeriod>>

\* A lock for a given period only ever lengthens the time left.
Extend ==
    /\ closedFor' \in Nat
    /\ closedFor' > closedFor
    /\ UNCHANGED <<overrideFor, overrideValue, defaultPeriod>>

Open ==
    /\ closedFor' = 0
    /\ UNCHANGED <<overrideFor, overrideValue, defaultPeriod>>

Submit(r) ==
    /\ overrideFor'[r] \in Nat
    /\ overrideValue'[r] \in Nat
    /\ overrideFor' = [overrideFor EXCEPT ![r] = overrideFor'[r]]
    /\ overrideValue' = [overrideValue EXCEPT ![r] = overrideValue'[r]]
    /\ UNCHANGED <<closedFor, defaultPeriod>>

Retract(r) ==
    /\ overrideFor' = [overrideFor EXCEPT ![r] = 0]
    /\ UNCHANGED <<closedFor, overrideValue, defaultPeriod>>

Retune ==
    /\ defaultPeriod' \in Nat
    /\ UNCHANGED <<closedFor, overrideFor, overrideValue>>

Next ==
    \/ Tick
    \/ Close
    \/ Extend
    \/ Open
    \/ Retune
    \/ \E r \in Readings : Submit(r) \/ Retract(r)

Spec == Init /\ [][Next]_gateVars
=============================================================================
