------------------------------- MODULE Sensors -------------------------------
(***************************************************************************)
(* The sensors that a driver of Zephyr serves: src/test_bmp390.c,          *)
(* src/test_lsm6dso.c and src/test_opt300.c.                               *)
(*                                                                         *)
(* Each command is a script of driver calls.  A fetch fills the driver's   *)
(* buffer, a get takes a channel from it.    A call that fails ends the    *)
(* command, except for those that resume and suspend the pressure sensor,  *)
(* whose results nobody looks at.  A suspended sensor cannot be fetched.   *)
(***************************************************************************)
EXTENDS Naturals, Sequences

VARIABLES
    at,       \* the sensor whose command the shell thread is in, or "idle"
    call,     \* the call of its script that is next, or 0
    active,   \* the pressure sensor is resumed
    fetched,  \* the driver's buffer is of the running command, not an older one
    fault     \* history: the pressure sensor's command failed since it slept

Script ==
    [bmp390  |-> <<"resume", "fetch", "get", "get", "suspend">>,
     lsm6dso |-> <<"attr", "attr", "fetch", "get", "get">>,
     opt300  |-> <<"fetch", "get">>]

Places == {"bmp390", "lsm6dso", "opt300"}

Init ==
    call = 0 /\ active = TRUE /\ fetched = FALSE /\ fault = FALSE

\* The command on a device that is ready.
test_sensor(s) ==
    /\ at = "idle" /\ at' = s
    /\ call' = 1
    /\ UNCHANGED <<active, fetched, fault>>

Op == Script[at][call]

\* Mutant: the place in the script is kept.
Return_KeepPlace == at' = "idle" /\ fetched' = FALSE /\ UNCHANGED call

Return == call' = 0 /\ at' = "idle" /\ fetched' = FALSE

\* After the last call of the script comes the line that prints.
Proceed(new) ==
    IF call < Len(Script[at])
    THEN call' = call + 1 /\ fetched' = new /\ UNCHANGED at
    ELSE Return

InScript == at \in Places /\ call > 0

Resume ==
    /\ InScript /\ Op = "resume"
    /\ active' \in {active, TRUE}
    /\ UNCHANGED fault
    /\ Proceed(fetched)

\* Mutant: the result of the fetch is not looked at.
Fetch_Unchecked ==
    /\ InScript /\ Op = "fetch"
    /\ UNCHANGED <<active, fault>>
    /\ Proceed(TRUE) \/ Proceed(FALSE)

Fetch ==
    /\ InScript /\ Op = "fetch"
    /\ at = "bmp390" => active
    /\ UNCHANGED <<active, fault>>
    /\ Proceed(TRUE)

\* Setting an attribute or taking a channel.
Call ==
    /\ InScript /\ Op \in {"attr", "get"}
    /\ UNCHANGED <<active, fault>>
    /\ Proceed(fetched)

Fails ==
    /\ InScript /\ Op \in {"attr", "fetch", "get"}
    /\ fault' = (fault \/ at = "bmp390")
    /\ UNCHANGED active
    /\ Return

\* Mutant: the sensor is left resumed.
pm_suspend_Missing ==
    UNCHANGED <<active, fault>>

\* PM_DEVICE_ACTION_SUSPEND, of the boot and of the command.
pm_suspend ==
    \/ active' = FALSE /\ fault' = FALSE
    \/ UNCHANGED active /\ fault' = TRUE

Suspend ==
    /\ InScript /\ Op = "suspend"
    /\ pm_suspend
    /\ Proceed(fetched)

Step == Resume \/ Fetch \/ Call \/ Fails \/ Suspend

\* A reset: the drivers start anew, with the pressure sensor resumed.
Lose == call' = 0 /\ active' = TRUE /\ fetched' = FALSE /\ fault' = FALSE

-------------------------------------------------------------------------------
(* Properties *)

TypeOK ==
    /\ call \in 0 .. 5 /\ (at \in Places <=> call > 0)
    /\ at \in Places => call <= Len(Script[at])
    /\ active \in BOOLEAN /\ fetched \in BOOLEAN /\ fault \in BOOLEAN

\* A channel that a command takes, to print it, is of its own fetch: the values
\* of an earlier command are never printed as new.
PrintedIsFetched == InScript /\ Op = "get" => fetched

\* The pressure sensor is awake between its commands only after a call on it
\* failed.
AwakeNeedsFault == at # "bmp390" /\ active => fault

===============================================================================
