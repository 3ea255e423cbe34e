------------------------------- MODULE MCBmm350 -------------------------------
(* Small instances of Bmm350 for TLC. *)
EXTENDS Bmm350

\* Samples of one, two and three bytes, both signs, the ends of the range and
\* zero.
ThreeFields ==
    {[mag |-> 8388607, temp |-> 50000], [mag |-> -1, temp |-> -8388608],
     [mag |-> 0, temp |-> 0]}

===============================================================================
