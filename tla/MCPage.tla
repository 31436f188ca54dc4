------------------------------- MODULE MCPage -------------------------------
\* One page beside the daemon's loop.
EXTENDS Page

OnePage == {"w1"}
=============================================================================
