------------------------------- MODULE MCWatch -------------------------------
(* Small instances of Watch for TLC. *)
EXTENDS Watch

CONSTANTS c1, b1, b2

OneConn == {c1}
TwoBits == {b1, b2}
OneCleared == {b1}
SomeReady == {Devices, {"lsm6dso"}}

===============================================================================
