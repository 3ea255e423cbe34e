------------------------------ MODULE MCBtShell ------------------------------
(* Small instances of BtShell for TLC. *)
EXTENDS BtShell

CONSTANTS c1, c2, c3

OneConn == {c1}
TwoConns == {c1, c2}
ThreeConns == {c1, c2, c3}

===============================================================================
