------------------------------- MODULE MCLine -------------------------------
\* The messages of main.c with their lengths in bytes.
EXTENDS Line

AllMessages == {"av", "lamp", "ping"} \cup Guard
MCLength == [m \in Messages |->
  CASE m = "av" -> 4 [] m = "ping" -> 7 [] m = "lamp" -> 10 [] OTHER -> 9]
MCNameEnd == [m \in Messages |->
  CASE m = "av" -> 2 [] m = "lamp" -> 8 [] OTHER -> 7]
MCUnended == {"ping"}

\* "a", "av", the first letter of a name, and all but the line end of a command
\* for a guard or the digit of lamp.
MCCuts == {1, 2, 3, 7}
=============================================================================
