-------------------------- MODULE MC_PoolTokenV3 ---------------------------
\* Small instances of PoolTokenV3 for TLC.
EXTENDS PoolTokenV3, TLC

\* Two small units of underlyer to one of value: divisions do round.
MCUnit == [p \in Pools |-> 2]

\* Users are interchangeable.
UserSymmetry == Permutations(Users)
=============================================================================
