-------------------------------- MODULE Sums --------------------------------
\* The sum of what a function gives for the elements of a set.
EXTENDS Integers, FiniteSetsExt

Total(f, S) == MapThenSumSet(LAMBDA x : f[x], S)
=============================================================================
