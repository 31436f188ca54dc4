------------------------------ MODULE MCCalls ------------------------------
\* A small instance of Calls for TLC; its .cfg gives the limits.
EXTENDS Calls
=============================================================================
