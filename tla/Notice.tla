------------------------------- MODULE Notice -------------------------------
(***************************************************************************)
(* What the administrators are promised about a condition of the house     *)
(* (external power, the Internet): a notice that it is gone and a notice   *)
(* that it is back, in turn, beginning with the first.  A restarted unit   *)
(* begins anew.  Power and Internet are shown to implement this.           *)
(***************************************************************************)
VARIABLES
  last,   \* the last notice since the unit started; "on" if there was none
  turn    \* changes with every notice

Init == last = "on" /\ turn = FALSE

Tell == /\ last' = IF last = "on" THEN "off" ELSE "on"
        /\ turn' = ~turn

Restart == last' = "on" /\ UNCHANGED turn

Next == Tell \/ Restart

Spec == Init /\ [][Next]_<<last, turn>>
=============================================================================
