----------------------------- MODULE MCSettings -----------------------------
\* A setting before the list of admins, two numbers, a setting after
\* first_usage: config_t in small.
EXTENDS Settings

MCSlots == {2, 3}
MCPhones == {"owner", "friend"}
MCValues == {"0", "5"}
MCDefault == <<"5", "0", "owner", "0", "1", "0">>
MCDefaultCells == [c \in 0 .. 5 |-> MCDefault[c + 1]]
=============================================================================
