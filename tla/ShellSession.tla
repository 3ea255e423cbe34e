----------------------------- MODULE ShellSession -----------------------------
(***************************************************************************)
(* What src/bluetooth.c promises of the Bluetooth shell, without reference *)
(* counts or callbacks: connections come and go, the shell serves the one  *)
(* that came last until any of them goes, and a connection that came while *)
(* another one had the shell costs the watch that other connection's       *)
(* object, and never more than that.                                       *)
(***************************************************************************)

CONSTANTS Conn, NULL

VARIABLES
    peers,     \* the connections that are up
    session,   \* the one the shell serves, or NULL
    spent      \* the objects no connection will get again

vars == <<peers, session, spent>>

Init == peers = {} /\ session = NULL /\ spent = {}

\* A peer connects on an object that is neither in use nor spent.
Arrive(c) ==
    /\ c \notin peers \cup spent
    /\ peers' = peers \cup {c}
    /\ session' = c
    /\ spent' = spent \cup ({session} \ {NULL})

Leave(c) ==
    /\ c \in peers
    /\ peers' = peers \ {c}
    /\ session' = NULL
    /\ UNCHANGED spent

Next == \E c \in Conn : Arrive(c) \/ Leave(c)

Spec == Init /\ [][Next]_vars

===============================================================================
