------------------------------ MODULE MCWatch ------------------------------
\* A small instance of Watch for TLC.
EXTENDS Watch

\* The zone whose mask the code recognises, and one whose mask it does not,
\* inside, where the family may move under the local guard.
House == {"side", "inside1"}
=============================================================================
