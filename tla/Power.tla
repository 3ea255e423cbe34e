-------------------------------- MODULE Power --------------------------------
(***************************************************************************)
(* What the power management promises the rest of the watch: the power     *)
(* goes only after something of this boot has armed ship mode, system off  *)
(* stops the processor alone, and after either the program starts anew.    *)
(***************************************************************************)

VARIABLES
    power,   \* "on", "off" (the processor alone), "ship" (everything)
    armed    \* this boot may enter ship mode

vars == <<power, armed>>

Init == power = "on" /\ armed = FALSE

Arm ==
    /\ power = "on" /\ ~armed
    /\ armed' = TRUE
    /\ UNCHANGED power

Ship ==
    /\ power = "on" /\ armed
    /\ power' = "ship"
    /\ UNCHANGED armed

Off ==
    /\ power = "on"
    /\ power' = "off" /\ armed' = FALSE

Start ==
    /\ power \in {"off", "ship"}
    /\ power' = "on" /\ armed' = FALSE

Next == Arm \/ Ship \/ Off \/ Start

Spec == Init /\ [][Next]_vars

===============================================================================
