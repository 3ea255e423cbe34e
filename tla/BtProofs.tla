------------------------------- MODULE BtProofs -------------------------------
(* What TLAPS proves of BtShell, for any pool of connection objects. *)
EXTENDS BtShell, TLAPS

\* Of the pool, one object at least has never been lost.
Spare == \E c \in Conn : c \notin lost

\* The inductive invariant.  RefsAccounted alone is not one: a release by
\* disconnected is covered only because current_conn is up and not lost.
IInv == TypeOK /\ RefsAccounted /\ ShellHeld /\ Spare

\* The invariant holds at reset: every object is in the pool.
LEMMA InitInv == Init => IInv
<1>. SUFFICES ASSUME Init PROVE IInv
  OBVIOUS
<1>1. TypeOK
  <2>1. init \in DOMAIN Following  BY DEF Init, Following
  <2>2. link \in [Conn -> {"none", "up", "closed"}] /\ refs \in [Conn -> Nat]
    BY DEF Init
  <2>. QED  BY <2>1, <2>2 DEF Init, TypeOK
<1>2. RefsAccounted
  <2>. SUFFICES ASSUME NEW c \in Conn
                PROVE  refs[c] = One(link[c] # "none") + One(c = current_conn)
                                 + One(c \in lost)
    BY DEF RefsAccounted
  <2>1. refs[c] = 0 /\ link[c] = "none" /\ c # current_conn /\ c \notin lost
    BY BtAssumption DEF Init
  <2>. QED  BY <2>1 DEF One
<1>3. ShellHeld  BY DEF Init, ShellHeld
<1>4. Spare  BY BtAssumption DEF Init, Spare
<1>. QED  BY <1>1, <1>2, <1>3, <1>4 DEF IInv

\* The call of a connection that may come: its object is in no use at all.
LEMMA FreeObject ==
    ASSUME IInv, NEW c \in Conn, refs[c] = 0
    PROVE  link[c] = "none" /\ c # current_conn /\ c \notin lost
BY DEF IInv, RefsAccounted, One

\* connected keeps it: what current_conn held before is lost, and counted so.
LEMMA ConnectInv ==
    ASSUME IInv, NEW c \in Conn, Connect(c)
    PROVE  IInv'
<1>1. link[c] = "none" /\ c # current_conn /\ c \notin lost
  BY FreeObject DEF Connect
<1>2. /\ link' = [link EXCEPT ![c] = "up"]
      /\ refs' = [refs EXCEPT ![c] = @ + 2] /\ refs[c] = 0
      /\ current_conn' = c /\ shell_conn' = c /\ init' = init
      /\ lost' = lost \cup ({current_conn} \ {NULL})
  BY DEF Connect, connected
<1>3. TypeOK'
  BY <1>2 DEF IInv, TypeOK
<1>4. RefsAccounted'
  <2>. SUFFICES ASSUME NEW d \in Conn
                PROVE  refs'[d] = One(link'[d] # "none") + One(d = current_conn')
                                  + One(d \in lost')
    BY DEF RefsAccounted
  <2>1. CASE d = c
    BY <1>1, <1>2, <2>1 DEF IInv, TypeOK, One
  <2>2. CASE d # c
    <3>1. refs'[d] = refs[d] /\ link'[d] = link[d] /\ d # current_conn'
      BY <1>2, <2>2 DEF IInv, TypeOK
    <3>2. refs[d] = One(link[d] # "none") + One(d = current_conn) + One(d \in lost)
      BY DEF IInv, RefsAccounted
    <3>3. d = current_conn => d \notin lost /\ d # NULL
      BY BtAssumption DEF IInv, ShellHeld, Up
    <3>4. d \in lost' <=> d \in lost \/ d = current_conn
      BY <1>2, BtAssumption
    <3>. QED  BY <3>1, <3>2, <3>3, <3>4 DEF One
  <2>. QED  BY <2>1, <2>2
<1>5. ShellHeld'
  BY <1>1, <1>2 DEF IInv, TypeOK, ShellHeld, Up
<1>6. Spare'
  BY <1>1, <1>2 DEF Spare
<1>. QED  BY <1>3, <1>4, <1>5, <1>6 DEF IInv

\* disconnected keeps it: the reference it drops is the one current_conn had,
\* whichever connection went.
LEMMA DisconnectInv ==
    ASSUME IInv, NEW c \in Conn, Disconnect(c)
    PROVE  IInv'
<1>1. /\ link[c] = "up" /\ link' = [link EXCEPT ![c] = "closed"]
      /\ shell_conn' = NULL /\ lost' = lost /\ init' = init
  BY DEF Disconnect, disconnected
<1>2. CASE current_conn = NULL
  <2>1. refs' = refs /\ current_conn' = NULL
    BY <1>2 DEF Disconnect, disconnected
  <2>. QED
    BY <1>1, <1>2, <2>1
    DEF IInv, TypeOK, RefsAccounted, ShellHeld, Spare, One
<1>3. CASE current_conn # NULL
  <2>1. /\ refs' = [refs EXCEPT ![current_conn] = @ - 1]
        /\ current_conn' = NULL /\ current_conn \in Conn \ lost
        /\ link[current_conn] = "up"
    BY <1>3 DEF Disconnect, disconnected, IInv, TypeOK, ShellHeld, Up
  <2>2. refs[current_conn] = 2
    BY <2>1 DEF IInv, RefsAccounted, One
  <2>3. TypeOK'
    <3>1. refs' \in [Conn -> Nat]  BY <2>1, <2>2 DEF IInv, TypeOK
    <3>2. link' \in [Conn -> {"none", "up", "closed"}]
      BY <1>1 DEF IInv, TypeOK
    <3>. QED  BY <1>1, <2>1, <3>1, <3>2 DEF IInv, TypeOK
  <2>4. RefsAccounted'
    <3>. SUFFICES ASSUME NEW d \in Conn
                  PROVE  refs'[d] = One(link'[d] # "none")
                                    + One(d = current_conn') + One(d \in lost')
      BY DEF RefsAccounted
    <3>1. (link'[d] # "none") <=> (link[d] # "none")
      BY <1>1 DEF IInv, TypeOK
    <3>2. d # current_conn'  BY <2>1, BtAssumption
    <3>3. refs[d] = One(link[d] # "none") + One(d = current_conn) + One(d \in lost)
      BY DEF IInv, RefsAccounted
    <3>4. CASE d = current_conn
      BY <1>1, <2>1, <2>2, <3>1, <3>2, <3>4 DEF IInv, TypeOK, One
    <3>5. CASE d # current_conn
      BY <1>1, <2>1, <3>1, <3>2, <3>3, <3>5 DEF IInv, TypeOK, One
    <3>. QED  BY <3>4, <3>5
  <2>5. ShellHeld' /\ Spare'
    BY <1>1, <2>1 DEF IInv, ShellHeld, Spare
  <2>. QED  BY <2>3, <2>4, <2>5 DEF IInv
<1>. QED  BY <1>2, <1>3

\* The host giving up its own reference keeps it.
LEMMA HostReleaseInv ==
    ASSUME IInv, NEW c \in Conn, HostRelease(c)
    PROVE  IInv'
<1>1. /\ link[c] = "closed" /\ link' = [link EXCEPT ![c] = "none"]
      /\ refs' = [refs EXCEPT ![c] = @ - 1]
      /\ UNCHANGED <<init, current_conn, shell_conn, lost>>
  BY DEF HostRelease
<1>2. c # current_conn
  BY <1>1, BtAssumption DEF IInv, ShellHeld, Up
<1>3. refs[c] = 1 + One(c \in lost)
  BY <1>1, <1>2 DEF IInv, RefsAccounted, One
<1>4. TypeOK'
  <2>1. refs' \in [Conn -> Nat]  BY <1>1, <1>3 DEF IInv, TypeOK, One
  <2>2. link' \in [Conn -> {"none", "up", "closed"}]
    BY <1>1 DEF IInv, TypeOK
  <2>. QED  BY <1>1, <2>1, <2>2 DEF IInv, TypeOK
<1>5. RefsAccounted'
  <2>. SUFFICES ASSUME NEW d \in Conn
                PROVE  refs'[d] = One(link'[d] # "none") + One(d = current_conn')
                                  + One(d \in lost')
    BY DEF RefsAccounted
  <2>1. refs[d] = One(link[d] # "none") + One(d = current_conn) + One(d \in lost)
    BY DEF IInv, RefsAccounted
  <2>2. CASE d = c
    BY <1>1, <1>2, <1>3, <2>2 DEF IInv, TypeOK, One
  <2>3. CASE d # c
    BY <1>1, <2>1, <2>3 DEF IInv, TypeOK
  <2>. QED  BY <2>2, <2>3
<1>6. ShellHeld' /\ Spare'
  BY <1>1, <1>2, BtAssumption DEF IInv, TypeOK, ShellHeld, Spare, Up
<1>. QED  BY <1>4, <1>5, <1>6 DEF IInv

\* Every step of the host, the callbacks and bluetooth_shell_init keeps the
\* invariant.
THEOREM Inductive == IInv /\ [Next]_vars => IInv'
<1>. SUFFICES ASSUME IInv, [Next]_vars PROVE IInv'
  OBVIOUS
<1>1. CASE bluetooth_shell_init
  <2>1. init' \in DOMAIN Following \cup {"advertising", "failed"}
    BY <1>1 DEF bluetooth_shell_init, Following
  <2>2. UNCHANGED <<link, refs, current_conn, shell_conn, lost>>
    BY <1>1 DEF bluetooth_shell_init
  <2>. QED
    BY <2>1, <2>2
    DEF IInv, TypeOK, RefsAccounted, ShellHeld, Spare, Up
<1>2. CASE UNCHANGED vars
  BY <1>2 DEF vars, IInv, TypeOK, RefsAccounted, ShellHeld, Spare, Up
<1>. QED
  BY <1>1, <1>2, ConnectInv, DisconnectInv, HostReleaseInv
  DEF Next, ConnectFails

\* The invariant holds in every reachable state, for a pool of any size.
THEOREM Invariant == Spec => []IInv
BY InitInv, Inductive, PTL DEF Spec

\* Every variable keeps to its values, and no count of references goes below
\* zero, whichever connection goes first.
THEOREM TypeCorrect == Spec => []TypeOK
<1>1. IInv => TypeOK  BY DEF IInv
<1>. QED  BY <1>1, Invariant, PTL

\* disconnected releases no reference it does not have, and no count is wrong.
THEOREM Accounted == Spec => []RefsAccounted
<1>1. IInv => RefsAccounted  BY DEF IInv
<1>. QED  BY <1>1, Invariant, PTL

\* The shell writes to a connection that is up and held by bluetooth.c.
THEOREM Held == Spec => []ShellHeld
<1>1. IInv => ShellHeld  BY DEF IInv
<1>. QED  BY <1>1, Invariant, PTL

\* A watch that nobody is connected to has an object to advertise with.
THEOREM PoolLasts == Spec => []PoolNeverExhausted
<1>1. IInv => PoolNeverExhausted
  <2>. SUFFICES ASSUME IInv, \A c \in Conn : link[c] = "none"
                PROVE  \E c \in Conn : refs[c] = 0
    BY DEF PoolNeverExhausted
  <2>1. PICK c \in Conn : c \notin lost  BY DEF IInv, Spare
  <2>2. c # current_conn
    BY BtAssumption DEF IInv, ShellHeld, Up
  <2>3. refs[c] = 0  BY <2>1, <2>2 DEF IInv, RefsAccounted, One
  <2>. QED  BY <2>3
<1>. QED  BY <1>1, Invariant, PTL

-------------------------------------------------------------------------------
(* What a second connection costs *)

\* An object that was lost keeps the reference nobody holds: once its connection
\* has gone no other ever comes to it.  Of the rest, all come back.
THEOREM LostForGood ==
    Spec => /\ [](\A c \in Conn : link[c] = "none" => refs[c] = One(c \in lost))
            /\ [][\A c \in lost : /\ c \in lost'
                                  /\ link[c] = "none" => link'[c] = "none"]_vars
<1>1. IInv => \A c \in Conn : link[c] = "none" => refs[c] = One(c \in lost)
  <2>. SUFFICES ASSUME IInv, NEW c \in Conn, link[c] = "none"
                PROVE  refs[c] = One(c \in lost)
    OBVIOUS
  <2>1. c # current_conn  BY BtAssumption DEF IInv, ShellHeld, Up
  <2>. QED  BY <2>1 DEF IInv, RefsAccounted, One
<1>2. IInv /\ [Next]_vars
        => [\A c \in lost : /\ c \in lost'
                            /\ link[c] = "none" => link'[c] = "none"]_vars
  <2>. SUFFICES ASSUME IInv, Next, NEW c \in lost
                PROVE  c \in lost' /\ (link[c] = "none" => link'[c] = "none")
    OBVIOUS
  <2>1. c \in Conn  BY DEF IInv, TypeOK
  <2>2. ASSUME NEW d \in Conn, Connect(d)
        PROVE  c \in lost' /\ link'[c] = link[c]
    <3>1. d # c  BY <2>2, FreeObject DEF Connect
    <3>. QED  BY <2>1, <2>2, <3>1 DEF Connect, connected, IInv, TypeOK
  <2>3. ASSUME NEW d \in Conn, Disconnect(d)
        PROVE  c \in lost' /\ (link[c] = "none" => link'[c] = "none")
    BY <2>1, <2>3 DEF Disconnect, disconnected, IInv, TypeOK
  <2>4. ASSUME NEW d \in Conn, HostRelease(d)
        PROVE  c \in lost' /\ (link[c] = "none" => link'[c] = "none")
    BY <2>1, <2>4 DEF HostRelease, IInv, TypeOK
  <2>5. CASE bluetooth_shell_init \/ UNCHANGED vars
    BY <2>5 DEF bluetooth_shell_init, vars
  <2>. QED  BY <2>2, <2>3, <2>4, <2>5 DEF Next, ConnectFails
<1>. QED  BY <1>1, <1>2, Invariant, PTL DEF Spec

\* No two connections are up.
AtMostOne == \A c, d \in Up : c = d

\* As long as nobody connects while somebody is connected, whatever the size of
\* the pool, no object is lost and whoever is connected has the shell.
THEOREM OneAtATime ==
    Spec /\ []AtMostOne => [](ObjectsComeBack /\ ConnectedHasShell)
<1>. DEFINE SInv == lost = {} /\ ConnectedHasShell
<1>1. Init => SInv
  BY DEF Init, ConnectedHasShell, Up
<1>2. IInv /\ SInv /\ AtMostOne /\ AtMostOne' /\ [Next]_vars => SInv'
  <2>. SUFFICES ASSUME IInv, SInv, AtMostOne, AtMostOne', [Next]_vars PROVE SInv'
    OBVIOUS
  <2>1. ASSUME NEW c \in Conn, Connect(c) PROVE SInv'
    <3>1. link[c] = "none" /\ link' = [link EXCEPT ![c] = "up"]
      BY <2>1, FreeObject DEF Connect
    <3>2. current_conn = NULL
      <4>. SUFFICES ASSUME current_conn # NULL PROVE FALSE
        OBVIOUS
      <4>1. current_conn \in Up /\ c \notin Up
        BY <3>1 DEF IInv, ShellHeld, Up
      <4>2. current_conn \in Up' /\ c \in Up'
        BY <3>1, <4>1 DEF IInv, TypeOK, Up
      <4>. QED  BY <4>1, <4>2 DEF AtMostOne
    <3>3. lost' = {} /\ shell_conn' = c
      BY <2>1, <3>2 DEF Connect, connected
    <3>. QED  BY <3>3, BtAssumption DEF ConnectedHasShell
  <2>2. ASSUME NEW c \in Conn, Disconnect(c) PROVE SInv'
    <3>1. Up = {c}  BY <2>2 DEF Disconnect, AtMostOne, Up
    <3>2. link' = [link EXCEPT ![c] = "closed"] /\ lost' = lost
      BY <2>2 DEF Disconnect, disconnected
    <3>3. Up' = {}  BY <3>1, <3>2 DEF Up, IInv, TypeOK
    <3>. QED  BY <3>2, <3>3 DEF ConnectedHasShell
  <2>3. ASSUME NEW c \in Conn, HostRelease(c) PROVE SInv'
    <3>1. Up' = Up  BY <2>3 DEF HostRelease, IInv, TypeOK, Up
    <3>. QED  BY <2>3, <3>1 DEF HostRelease, ConnectedHasShell
  <2>4. CASE bluetooth_shell_init \/ UNCHANGED vars
    BY <2>4 DEF bluetooth_shell_init, vars, ConnectedHasShell, Up
  <2>. QED  BY <2>1, <2>2, <2>3, <2>4 DEF Next, ConnectFails
<1>3. IInv /\ SInv => ObjectsComeBack
  <2>. SUFFICES ASSUME IInv, SInv, NEW c \in Conn, link[c] = "none"
                PROVE  refs[c] = 0
    BY DEF ObjectsComeBack
  <2>1. c # current_conn  BY BtAssumption DEF IInv, ShellHeld, Up
  <2>. QED  BY <2>1 DEF IInv, RefsAccounted, One
<1>. QED  BY <1>1, <1>2, <1>3, Invariant, PTL DEF Spec

-------------------------------------------------------------------------------
(* The session *)

\* The callbacks and the counts implement the session of ShellSession.
THEOREM Refinement == Spec => SessionSpec
<1>1. Init => Session!Init
  BY DEF Init, Session!Init, Up
<1>2. IInv /\ [Next]_vars => [Session!Next]_(Session!vars)
  <2>. SUFFICES ASSUME IInv, [Next]_vars
                PROVE  Session!Next \/ UNCHANGED <<Up, current_conn, lost>>
    BY DEF Session!vars
  <2>1. ASSUME NEW c \in Conn, Connect(c) PROVE Session!Arrive(c)
    <3>1. link[c] = "none" /\ c \notin lost
      BY <2>1, FreeObject DEF Connect
    <3>2. Up' = Up \cup {c}
      BY <2>1 DEF Connect, IInv, TypeOK, Up
    <3>. QED  BY <2>1, <3>1, <3>2 DEF Connect, connected, Session!Arrive, Up
  <2>2. ASSUME NEW c \in Conn, Disconnect(c) PROVE Session!Leave(c)
    <3>1. Up' = Up \ {c}
      BY <2>2 DEF Disconnect, IInv, TypeOK, Up
    <3>2. current_conn' = NULL /\ lost' = lost /\ c \in Up
      BY <2>2 DEF Disconnect, disconnected, Up
    <3>. QED  BY <3>1, <3>2 DEF Session!Leave
  <2>3. ASSUME NEW c \in Conn, HostRelease(c)
        PROVE  UNCHANGED <<Up, current_conn, lost>>
    <3>1. Up' = Up  BY <2>3 DEF HostRelease, IInv, TypeOK, Up
    <3>. QED  BY <2>3, <3>1 DEF HostRelease
  <2>4. CASE bluetooth_shell_init \/ UNCHANGED vars
    BY <2>4 DEF bluetooth_shell_init, vars, Up
  <2>. QED
    BY <2>1, <2>2, <2>3, <2>4 DEF Next, ConnectFails, Session!Next
<1>. QED
  BY <1>1, <1>2, Invariant, PTL DEF Spec, SessionSpec, Session!Spec

===============================================================================
