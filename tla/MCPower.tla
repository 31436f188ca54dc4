------------------------------ MODULE MCPower ------------------------------
\* A small instance of Power for TLC.
EXTENDS Power

ReportOrNot == {0, 1}
=============================================================================
