-------------------------------- MODULE Watch --------------------------------
(***************************************************************************)
(* The watch as a whole: src/main.c, src/test_systemoff.c, and how the     *)
(* components meet.                                                        *)
(*                                                                         *)
(* main initialises the components one after the other, Bluetooth last,    *)
(* and sleeps.  Whoever connects over Bluetooth then gives commands to the *)
(* shell thread, one at a time.  The power management may end all of it at *)
(* any step.  The PMIC and the Bluetooth shell are here as the abstract    *)
(* specifications that PmicEvents and BtShell implement.                   *)
(***************************************************************************)
EXTENDS Naturals, Sequences

CONSTANTS
    Conn, NULL,       \* connection objects, and none
    Bits, Expected,   \* see FlashTest
    ReadySets         \* the sets of ready devices a boot may end up with

Devices == {"flash", "i2c", "bmp390", "lsm6dso", "opt300"}

ASSUME WatchAssumption ==
    Conn # {} /\ NULL \notin Conn /\ Expected \subseteq Bits
    /\ ReadySets \subseteq SUBSET Devices

VARIABLES
    power, armed,            \* Power
    peers, session, spent,   \* ShellSession
    ready,                   \* devices that are ready in this boot
    \* main: the init call that is next, its `ret`; the host advertises;
    \* history: some part failed to initialise; main printed its verdict.
    stage, ret, advertising, broken, told,
    at,                      \* the call the shell thread is in, or "idle"
    pulled, sense,           \* pins with a pull-up; the level each may wake at
    flash, verdict, eraseFailed,             \* FlashTest
    lra_en, standby, rtp, amp, stopFailed,   \* Motor
    call, active, fetched, fault       \* Sensors

P == INSTANCE Power
B == INSTANCE ShellSession
F == INSTANCE FlashTest
M == INSTANCE Motor
S == INSTANCE Sensors

supply == <<power, armed>>
bluetooth == <<peers, session, spent>>
main == <<stage, ret, advertising, broken, told>>
wake == <<pulled, sense>>
sector == <<flash, verdict, eraseFailed>>
motor == <<lra_en, standby, rtp, amp, stopFailed>>
sensors == <<call, active, fetched, fault>>
vars == <<supply, bluetooth, main, ready, at, wake, sector, motor, sensors>>

-------------------------------------------------------------------------------
(* The buttons *)

Buttons == {"button_1_pin", "button_2_pin", "button_3_pin", "button_4_pin"}
Levels == {"low", "high"}
NoLevel == "none"
Senseless == [b \in Buttons |-> NoLevel]

\* The pin that test_systemoff.c calls button1.
button1 == "button_2_pin"

\* The pins are GPIO_ACTIVE_HIGH: the interrupt of test_systemoff.c is one on low.
GPIO_INT_LEVEL_ACTIVE == "high"
GPIO_INT_LEVEL_INACTIVE == "low"

\* A button pulls its pin to ground; a pin nobody pulls up may read anything.
PinLevels(b, pressed) ==
    IF pressed THEN {"low"} ELSE IF b \in pulled THEN {"high"} ELSE Levels

\* The levels of pins that start the processor, pressed or not.
WokenBy(b, pressed) == sense[b] \in PinLevels(b, pressed)

-------------------------------------------------------------------------------
(* Boot: main.c *)

Stages == <<"pmic", "audio", "bmm350", "bmp390", "bluetooth", "verdict", "done">>

InitMain ==
    /\ stage = 1 /\ ret = 0
    /\ advertising = FALSE /\ broken = FALSE /\ told = FALSE

Init ==
    /\ P!Init /\ B!Init /\ F!Init /\ M!Init /\ S!Init
    /\ InitMain /\ ready \in ReadySets
    /\ at = "idle" /\ pulled = {} /\ sense = Senseless

\* Mutant: Bluetooth is started before the sensors.
At_BluetoothEarly(s) ==
    /\ power = "on"
    /\ <<"pmic", "audio", "bluetooth", "bmm350", "bmp390", "verdict", "done">>[stage] = s
    /\ stage' = stage + 1

\* main is at the call `s` of Stages, which returns.
At(s) ==
    /\ power = "on" /\ Stages[stage] = s
    /\ stage' = stage + 1

\* Every result overwrites the one before.  The parts and test_init print errors
\* of their own, which are left out; the verdict is main's.
Result(works, r) ==
    /\ ret' = r
    /\ broken' = (broken \/ ~works)
    /\ UNCHANGED told

\* init_pmic returns 0 whatever configure_events did: it may fail before it has
\* registered its callback, or after, and its message is all that comes of it.
init_pmic ==
    /\ At("pmic")
    /\ \/ P!Arm /\ Result(TRUE, 0)
       \/ (P!Arm \/ UNCHANGED supply) /\ Result(FALSE, 0)
    /\ UNCHANGED <<bluetooth, advertising, ready, at, wake, sector, motor, sensors>>

\* A codec that was not programmed prints its failed step and counts as success,
\* and so does a transmitter that is not ready; a refused configuration does not.
init_audio ==
    /\ At("audio")
    /\ Result(TRUE, 0) \/ Result(FALSE, 0) \/ Result(FALSE, 1)
    /\ UNCHANGED <<supply, bluetooth, advertising, ready, at, wake, sector, motor,
                   sensors>>

init_bmm350 ==
    /\ At("bmm350")
    /\ Result(TRUE, 0) \/ Result(FALSE, 1)
    /\ UNCHANGED <<supply, bluetooth, advertising, ready, at, wake, sector, motor,
                   sensors>>

init_bmp390 ==
    /\ At("bmp390")
    /\ IF "bmp390" \in ready
       THEN Result(TRUE, 0) /\ S!pm_suspend
       ELSE Result(FALSE, 1) /\ UNCHANGED <<active, fault>>
    /\ UNCHANGED <<supply, bluetooth, advertising, ready, at, wake, sector, motor,
                   call, fetched>>

\* Its result is not looked at.
bluetooth_shell_init ==
    /\ At("bluetooth")
    /\ advertising' \in BOOLEAN
    /\ broken' = (broken \/ ~advertising')
    /\ UNCHANGED <<supply, bluetooth, ret, told, ready, at, wake, sector, motor,
                   sensors>>

\* "test init failed!", if the last result was not 0; main sleeps from then on.
Verdict ==
    /\ At("verdict")
    /\ told' = (ret # 0)
    /\ UNCHANGED <<supply, bluetooth, ret, advertising, broken, ready, at, wake,
                   sector, motor, sensors>>

test_init ==
    \/ init_pmic \/ init_audio \/ init_bmm350 \/ init_bmp390
    \/ bluetooth_shell_init \/ Verdict

-------------------------------------------------------------------------------
(* The shell *)

Connect(c) ==
    /\ power = "on" /\ advertising
    /\ B!Arrive(c)
    /\ UNCHANGED <<supply, main, ready, at, wake, sector, motor, sensors>>

Disconnect(c) ==
    /\ power = "on" /\ B!Leave(c)
    /\ UNCHANGED <<supply, main, ready, at, wake, sector, motor, sensors>>

\* A command is given over a session and goes on without one.
Prompt == power = "on" /\ session # NULL /\ at = "idle"

Given(device, cmd) == Prompt /\ device \in ready /\ cmd

test_flash ==
    /\ Given("flash", F!cmd_test_flash)
    /\ UNCHANGED <<supply, bluetooth, main, ready, wake, motor, sensors>>

test_motor ==
    /\ Prompt /\ M!cmd_test_motor("i2c" \in ready)
    /\ UNCHANGED <<supply, bluetooth, main, ready, wake, sector, sensors>>

test_sensor ==
    /\ \E s \in S!Places : Given(s, S!test_sensor(s))
    /\ UNCHANGED <<supply, bluetooth, main, ready, wake, sector, motor>>

\* test_pmic may register the callback again.
test_pmic ==
    /\ Prompt /\ P!Arm
    /\ UNCHANGED <<bluetooth, main, ready, at, wake, sector, motor, sensors>>

\* test_button pulls its four pins up, one port for all, and looks at no result.
test_button ==
    /\ Prompt /\ pulled' \in {pulled, Buttons}
    /\ UNCHANGED <<supply, bluetooth, main, ready, at, sense, sector, motor, sensors>>

test_systemoff ==
    /\ Prompt /\ at' = "pin_configure"
    /\ UNCHANGED <<supply, bluetooth, main, ready, wake, sector, motor, sensors>>

FlashStep ==
    /\ power = "on" /\ F!Step
    /\ UNCHANGED <<supply, bluetooth, main, ready, wake, motor, sensors>>

MotorStep ==
    /\ power = "on" /\ M!Step
    /\ UNCHANGED <<supply, bluetooth, main, ready, wake, sector, sensors>>

SensorStep ==
    /\ power = "on" /\ S!Step
    /\ UNCHANGED <<supply, bluetooth, main, ready, wake, sector, motor>>

-------------------------------------------------------------------------------
(* System off: test_systemoff.c, and ship mode *)

PinConfigure ==
    /\ power = "on" /\ at = "pin_configure"
    /\ \/ at' = "pin_interrupt" /\ pulled' = pulled \cup {button1}
       \/ at' = "idle" /\ UNCHANGED pulled
    /\ UNCHANGED <<supply, bluetooth, main, ready, sense, sector, motor, sensors>>

\* Mutant: the level that the comment names.
PinInterrupt_Active ==
    /\ power = "on" /\ at = "pin_interrupt"
    /\ \/ /\ at' = "sys_poweroff"
          /\ sense' = [sense EXCEPT ![button1] = GPIO_INT_LEVEL_ACTIVE]
       \/ at' = "idle" /\ UNCHANGED sense
    /\ UNCHANGED <<supply, bluetooth, main, ready, pulled, sector, motor, sensors>>

PinInterrupt ==
    /\ power = "on" /\ at = "pin_interrupt"
    /\ \/ /\ at' = "sys_poweroff"
          /\ sense' = [sense EXCEPT ![button1] = GPIO_INT_LEVEL_INACTIVE]
       \/ at' = "idle" /\ UNCHANGED sense
    /\ UNCHANGED <<supply, bluetooth, main, ready, pulled, sector, motor, sensors>>

\* What a reset of the processor ends.
LoseMemory ==
    /\ stage' = 1 /\ ret' = 0
    /\ advertising' = FALSE /\ broken' = FALSE /\ told' = FALSE
    /\ peers' = {} /\ session' = NULL /\ spent' = {}
    /\ at' = "idle"
    /\ S!Lose

\* The peripherals and the PMIC keep their power.
sys_poweroff ==
    /\ at = "sys_poweroff" /\ P!Off
    /\ LoseMemory /\ M!Release
    /\ UNCHANGED <<ready, wake, sector>>

\* Nothing keeps its power, in whatever call the threads are.
Ship ==
    /\ P!Ship
    /\ LoseMemory /\ M!Lose /\ F!Cut
    /\ pulled' = {} /\ sense' = Senseless
    /\ UNCHANGED ready

\* Out of ship mode by the PMIC; out of system off by the level of a pin.  The
\* reset takes the configuration of the pins with it.
Start ==
    /\ P!Start
    /\ power = "off" => \E b \in Buttons, pressed \in BOOLEAN : WokenBy(b, pressed)
    /\ pulled' = {} /\ sense' = Senseless
    /\ ready' \in ReadySets
    /\ UNCHANGED <<bluetooth, main, at, sector, motor, sensors>>

-------------------------------------------------------------------------------

Commands ==
    \/ test_flash \/ test_motor \/ test_sensor \/ test_pmic
    \/ test_button \/ test_systemoff

Shell ==
    \/ FlashStep \/ MotorStep \/ SensorStep
    \/ PinConfigure \/ PinInterrupt \/ sys_poweroff

Next ==
    \/ test_init \/ Commands \/ Shell
    \/ \E c \in Conn : Connect(c) \/ Disconnect(c)
    \/ Ship \/ Start

Spec == Init /\ [][Next]_vars

\* main and the shell thread run on: no call of theirs waits for ever.
FairSpec == Spec /\ WF_vars(test_init) /\ WF_vars(Shell)

-------------------------------------------------------------------------------
(* Properties *)

CommandPlaces ==
    {"pin_configure", "pin_interrupt", "sys_poweroff"}
        \cup F!Places \cup M!Places \cup S!Places

TypeOK ==
    /\ power \in {"on", "off", "ship"} /\ armed \in BOOLEAN
    /\ peers \subseteq Conn /\ session \in Conn \cup {NULL} /\ spent \subseteq Conn
    /\ ready \in SUBSET Devices
    /\ stage \in 1 .. Len(Stages) /\ ret \in {0, 1}
    /\ advertising \in BOOLEAN /\ broken \in BOOLEAN /\ told \in BOOLEAN
    /\ at \in CommandPlaces \cup {"idle"}
    /\ pulled \subseteq Buttons /\ sense \in [Buttons -> Levels \cup {NoLevel}]
    /\ F!TypeOK /\ M!TypeOK /\ S!TypeOK

\* No command runs while main still initialises what it uses: the components
\* have no locks, and the order of test_init is all that keeps main out of the
\* way of the shell thread.
BootBeforeCommands ==
    at # "idle" \/ peers # {} => Stages[stage] \in {"verdict", "done"}

\* The watch never sleeps without a button whose press wakes it, and no button
\* at rest wakes it: the pull-up and the level of the interrupt, which two calls
\* configure for a pin declared active high, fit together.
OffCanWake ==
    power = "off" \/ at = "sys_poweroff" =>
        /\ \E b \in Buttons : WokenBy(b, TRUE)
        /\ \A b \in Buttons : ~WokenBy(b, FALSE)

\* In every boot, whatever became of the one before: the flash, the motor and
\* the sensors keep their promises across commands, failures and resets.
GoodIsStored == F!GoodIsStored
MismatchNeedsFault == F!MismatchNeedsFault
MotorStill == M!MotorStill
PrintedIsFetched == S!PrintedIsFetched
AwakeNeedsFault ==
    power = "on" /\ "bmp390" \in ready /\ stage > 4 => S!AwakeNeedsFault

\* Every command ends, with the prompt or with the power, whichever of its calls
\* fail and wherever it is cut.
CommandEnds == at # "idle" ~> at = "idle"

\* What the source says of the boot, and the boot does not keep.

\* "test init failed!": the verdict on the boot is given when a part did not come
\* up.  The parts print errors of their own; this is what they return to main.
VerdictHonest == Stages[stage] = "done" /\ broken => told

===============================================================================
