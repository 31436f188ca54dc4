----------------------------- MODULE MCInternet -----------------------------
\* Internet with the limits of the code; its .cfg files give them.
EXTENDS Internet
=============================================================================
