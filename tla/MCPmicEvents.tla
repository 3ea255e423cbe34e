----------------------------- MODULE MCPmicEvents -----------------------------
(* Small instances of PmicEvents for TLC. *)
EXTENDS PmicEvents

AllReady == {Devices}
SomeReady == {Devices, Devices \ {"charger"}}
NoLeds == {Devices \ {"leds"}}
OneFaulty == {"ldo1"}
BothFaulty == {"ldo1", "ldo2"}

===============================================================================
