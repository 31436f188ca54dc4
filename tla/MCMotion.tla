------------------------------ MODULE MCMotion ------------------------------
\* Limits for TLC, in ticks.
EXTENDS Motion

AllGuards == {"main", "local", "single"}
MCNear == [g \in Guards |-> IF g = "single" THEN 5 ELSE 4]
MCFar == [g \in Guards |-> IF g = "single" THEN 10 ELSE 9]
=============================================================================
