---------------------------- MODULE MC_VotingEscrow ----------------------------
\* A small instance of VotingEscrow for TLC, with users that are alike.
EXTENDS VotingEscrow, TLC

UserSymmetry == Permutations(Users)
=============================================================================
