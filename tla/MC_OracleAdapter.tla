-------------------------- MODULE MC_OracleAdapter --------------------------
\* A small instance of OracleAdapter for TLC.
EXTENDS OracleAdapter, TLC

\* A broken, an empty and a sensible report.
MCAnswers == {-1, 0, 4}
============================================================================
