-------------------------------- MODULE BtShell --------------------------------
(***************************************************************************)
(* The Bluetooth shell: src/bluetooth.c.                                   *)
(*                                                                         *)
(* main runs bluetooth_shell_init once.  From then on the Bluetooth host   *)
(* calls connected and disconnected, one call at a time.  The host keeps a *)
(* pool of CONFIG_BT_MAX_CONN connection objects, each with a count of the *)
(* references to it, and advertises as long as the count of one is 0.  The *)
(* host has a reference to an object from the connection's first callback  *)
(* until after its last; bluetooth.c has the ones it takes itself.         *)
(***************************************************************************)
EXTENDS Naturals

CONSTANTS
    Conn,    \* the pool of connection objects (CONFIG_BT_MAX_CONN of them)
    NULL     \* no connection

ASSUME BtAssumption == Conn # {} /\ NULL \notin Conn

VARIABLES
    init,          \* the call of bluetooth_shell_init that is next
    link,          \* each object: no connection, up, or its last callback done
    refs,          \* the references to each object
    current_conn,  \* static variable of bluetooth.c
    shell_conn,    \* the connection the shell transport writes to
    lost           \* history: current_conn was overwritten with these in it

vars == <<init, link, refs, current_conn, shell_conn, lost>>

Up == {c \in Conn : link[c] = "up"}

-------------------------------------------------------------------------------

Init ==
    /\ init = "auth_cb"
    /\ link = [c \in Conn |-> "none"] /\ refs = [c \in Conn |-> 0]
    /\ current_conn = NULL /\ shell_conn = NULL
    /\ lost = {}

\* bluetooth_shell_init makes these calls in this order.
Following ==
    [auth_cb |-> "auth_info_cb", auth_info_cb |-> "bt_enable",
     bt_enable |-> "nus_init", nus_init |-> "adv_start",
     adv_start |-> "advertising"]

\* The first call that fails ends it; its caller is told 0 in either case.
bluetooth_shell_init ==
    /\ init \in DOMAIN Following
    /\ init' \in {Following[init], "failed"}
    /\ UNCHANGED <<link, refs, current_conn, shell_conn, lost>>

\* Mutant: the connection that has the shell keeps it.
connected_KeepFirst(c) ==
    /\ IF current_conn = NULL THEN current_conn' = c ELSE UNCHANGED current_conn
    /\ shell_conn' = c
    /\ refs' = [refs EXCEPT ![c] = @ + 2]
    /\ UNCHANGED lost

\* Mutant: the connection is kept without a reference of its own.
connected_NoRef(c) ==
    /\ current_conn' = c /\ shell_conn' = c
    /\ refs' = [refs EXCEPT ![c] = @ + 1]
    /\ lost' = lost \cup ({current_conn} \ {NULL})

\* connected, called with err = 0 and a reference held by the host.
connected(c) ==
    /\ current_conn' = c /\ shell_conn' = c
    /\ refs' = [refs EXCEPT ![c] = @ + 2]
    /\ lost' = lost \cup ({current_conn} \ {NULL})

\* Mutant: the reference is taken before the error is looked at.
ConnectFails_Ref(c) ==
    /\ init = "advertising" /\ refs[c] = 0
    /\ refs' = [refs EXCEPT ![c] = 1]
    /\ current_conn' = c
    /\ UNCHANGED <<init, link, shell_conn, lost>>

\* With an error, connected only logs, and the host takes the object back.
ConnectFails(c) ==
    /\ init = "advertising" /\ refs[c] = 0
    /\ UNCHANGED vars

Connect(c) ==
    /\ init = "advertising" /\ refs[c] = 0
    /\ link' = [link EXCEPT ![c] = "up"]
    /\ connected(c)
    /\ UNCHANGED init

\* Mutant: the connection of the callback is released.
disconnected_Param(c) ==
    /\ shell_conn' = NULL
    /\ current_conn' = NULL
    /\ refs' = [refs EXCEPT ![c] = @ - 1]
    /\ UNCHANGED lost

\* Mutant: current_conn is not reset.
disconnected_Dangling(c) ==
    /\ shell_conn' = NULL
    /\ IF current_conn # NULL
       THEN refs' = [refs EXCEPT ![current_conn] = @ - 1]
       ELSE UNCHANGED refs
    /\ UNCHANGED <<current_conn, lost>>

\* disconnected releases whichever connection is current; its own argument is
\* not looked at.
disconnected(c) ==
    /\ shell_conn' = NULL
    /\ IF current_conn # NULL
       THEN /\ refs' = [refs EXCEPT ![current_conn] = @ - 1]
            /\ current_conn' = NULL
       ELSE UNCHANGED <<refs, current_conn>>
    /\ UNCHANGED lost

Disconnect(c) ==
    /\ link[c] = "up"
    /\ link' = [link EXCEPT ![c] = "closed"]
    /\ disconnected(c)
    /\ UNCHANGED init

\* After the last callback the host drops its own reference.
HostRelease(c) ==
    /\ link[c] = "closed"
    /\ link' = [link EXCEPT ![c] = "none"]
    /\ refs' = [refs EXCEPT ![c] = @ - 1]
    /\ UNCHANGED <<init, current_conn, shell_conn, lost>>

Next ==
    \/ bluetooth_shell_init
    \/ \E c \in Conn :
          Connect(c) \/ ConnectFails(c) \/ Disconnect(c) \/ HostRelease(c)

Spec == Init /\ [][Next]_vars

-------------------------------------------------------------------------------
(* Properties *)

\* The variables keep to their values; no count goes below zero.
TypeOK ==
    /\ init \in DOMAIN Following \cup {"advertising", "failed"}
    /\ link \in [Conn -> {"none", "up", "closed"}]
    /\ refs \in [Conn -> Nat]
    /\ current_conn \in Conn \cup {NULL}
    /\ shell_conn \in Conn \cup {NULL}
    /\ lost \subseteq Conn

\* The references to an object are the host's for its connection, that of
\* current_conn, and the one that went with an overwritten current_conn:
\* disconnected releases no reference it does not have.
One(b) == IF b THEN 1 ELSE 0
RefsAccounted ==
    \A c \in Conn :
        refs[c] = One(link[c] # "none") + One(c = current_conn) + One(c \in lost)

\* The shell writes to a connection that is up and that bluetooth.c holds.
ShellHeld ==
    /\ shell_conn = current_conn
    /\ current_conn # NULL => current_conn \in Up \ lost

\* A watch that nobody is connected to has an object to advertise with.
PoolNeverExhausted ==
    (\A c \in Conn : link[c] = "none") => \E c \in Conn : refs[c] = 0

\* The callbacks and the counts implement the session they promise.
Session == INSTANCE ShellSession
           WITH peers <- Up, session <- current_conn, spent <- lost
SessionSpec == Session!Spec

\* What prj.conf asks for (CONFIG_BT_MAX_CONN=2) and bluetooth.c does not do.

\* Every object comes back to the pool when its connection has gone.
ObjectsComeBack ==
    \A c \in Conn : link[c] = "none" => refs[c] = 0

\* As long as somebody is connected, the shell serves somebody.
ConnectedHasShell == Up # {} => shell_conn # NULL

===============================================================================
