----------------------------- MODULE WatchProofs -----------------------------
(* What TLAPS proves of Watch, for every value of its constants. *)
EXTENDS Watch, TLAPS

-------------------------------------------------------------------------------
(* Which steps concern the flash *)

\* The steps of main, the connections and the other commands leave the sector
\* alone, and the shell thread where it is or outside the flash test.
LEMMA FlashSteps ==
    [Next]_vars => \/ test_flash \/ FlashStep \/ Ship
                   \/ UNCHANGED sector /\ (at' = at \/ at' \notin F!Places)
<1>. SUFFICES ASSUME [Next]_vars, ~test_flash, ~FlashStep, ~Ship
              PROVE  UNCHANGED sector /\ (at' = at \/ at' \notin F!Places)
  OBVIOUS
<1>. USE DEF F!Places
<1>1. CASE test_init
  BY <1>1 DEF test_init, init_pmic, init_audio, init_bmm350, init_bmp390,
              bluetooth_shell_init, Verdict
<1>2. CASE \E c \in Conn : Connect(c) \/ Disconnect(c)
  BY <1>2 DEF Connect, Disconnect
<1>3. CASE test_motor \/ MotorStep
  BY <1>3 DEF test_motor, M!cmd_test_motor, MotorStep, M!Step, M!ExitStandby,
              M!EnterRtp, M!SetAmplitude, M!Stop
<1>4. CASE test_sensor
  BY <1>4 DEF test_sensor, Given, S!test_sensor, S!Places
<1>5. CASE SensorStep
  BY <1>5 DEF SensorStep, S!Step, S!Resume, S!Fetch, S!Call, S!Fails,
              S!Suspend, S!Proceed, S!Return
<1>6. CASE test_pmic \/ test_button \/ test_systemoff \/ PinConfigure \/ PinInterrupt
           \/ sys_poweroff \/ Start
  BY <1>6 DEF test_pmic, test_button, test_systemoff, PinConfigure, PinInterrupt,
              sys_poweroff, LoseMemory, Start
<1>7. CASE UNCHANGED vars  BY <1>7 DEF vars
<1>. QED
  BY <1>1, <1>2, <1>3, <1>4, <1>5, <1>6, <1>7 DEF Next, Commands, Shell

\* The sector follows the test, and no cut of the power makes a test that
\* comes after it fail, or undoes one that came before.
THEOREM FlashKept == Spec => [](GoodIsStored /\ MismatchNeedsFault)
<1>. USE DEF GoodIsStored, MismatchNeedsFault, F!GoodIsStored,
             F!MismatchNeedsFault, F!Places
<1>1. Init => GoodIsStored /\ MismatchNeedsFault
  BY DEF Init, F!Init
<1>2. GoodIsStored /\ MismatchNeedsFault /\ [Next]_vars
        => GoodIsStored' /\ MismatchNeedsFault'
  <2>. SUFFICES ASSUME GoodIsStored, MismatchNeedsFault, [Next]_vars
                PROVE  GoodIsStored' /\ MismatchNeedsFault'
    OBVIOUS
  <2>1. CASE test_flash
    BY <2>1 DEF test_flash, Given, F!cmd_test_flash
  <2>2. CASE FlashStep
    <3>1. CASE F!flash_erase  BY <3>1 DEF F!flash_erase
    <3>2. CASE F!flash_write  BY <3>2 DEF F!flash_write
    <3>3. CASE F!flash_write_fails  BY <3>3 DEF F!flash_write_fails
    <3>4. CASE F!flash_read  BY <3>4 DEF F!flash_read
    <3>5. CASE F!flash_read_fails  BY <3>5 DEF F!flash_read_fails
    <3>. QED  BY <2>2, <3>1, <3>2, <3>3, <3>4, <3>5 DEF FlashStep, F!Step
  <2>3. CASE Ship
    <3>1. at' = "idle" /\ UNCHANGED <<verdict, eraseFailed>>
      BY <2>3 DEF Ship, LoseMemory, F!Cut
    <3>2. at \notin {"flash_erase", "flash_write"} => UNCHANGED flash
      BY <2>3 DEF Ship, F!Cut
    <3>. QED  BY <3>1, <3>2
  <2>4. CASE UNCHANGED sector /\ (at' = at \/ at' \notin F!Places)
    BY <2>4 DEF sector
  <2>. QED  BY <2>1, <2>2, <2>3, <2>4, FlashSteps
<1>. QED  BY <1>1, <1>2, PTL DEF Spec

-------------------------------------------------------------------------------
(* The motor *)

\* The other steps leave the motor alone, and the shell thread where it is or
\* outside the motor test.
LEMMA MotorSteps ==
    [Next]_vars => \/ test_motor \/ MotorStep \/ Ship \/ sys_poweroff
                   \/ UNCHANGED motor /\ (at' = at \/ {at, at'} \cap M!Places = {})
<1>. SUFFICES ASSUME [Next]_vars, ~test_motor, ~MotorStep, ~Ship, ~sys_poweroff
              PROVE  UNCHANGED motor /\ (at' = at \/ {at, at'} \cap M!Places = {})
  OBVIOUS
<1>. USE DEF M!Places
<1>1. CASE test_init
  BY <1>1 DEF test_init, init_pmic, init_audio, init_bmm350, init_bmp390,
              bluetooth_shell_init, Verdict
<1>2. CASE \E c \in Conn : Connect(c) \/ Disconnect(c)
  BY <1>2 DEF Connect, Disconnect
<1>3. CASE test_flash \/ FlashStep
  BY <1>3 DEF test_flash, Given, F!cmd_test_flash, FlashStep, F!Step,
              F!flash_erase, F!flash_write, F!flash_write_fails, F!flash_read,
              F!flash_read_fails
<1>4. CASE test_sensor
  BY <1>4 DEF test_sensor, Given, S!test_sensor, S!Places
<1>5. CASE SensorStep
  BY <1>5 DEF SensorStep, S!Step, S!Resume, S!Fetch, S!Call, S!Fails,
              S!Suspend, S!Proceed, S!Return, S!InScript, S!Places
<1>6. CASE \/ test_pmic \/ test_button \/ test_systemoff
           \/ PinConfigure \/ PinInterrupt \/ Start
  BY <1>6 DEF test_pmic, Prompt, test_button, test_systemoff, PinConfigure,
              PinInterrupt, Start
<1>7. CASE UNCHANGED vars  BY <1>7 DEF vars
<1>. QED
  BY <1>1, <1>2, <1>3, <1>4, <1>5, <1>6, <1>7 DEF Next, Commands, Shell

\* The motor turns outside its command only after a failed stop: what has to be
\* followed is the amplitude, which one command may leave to the next.
THEOREM MotorKept == Spec => []MotorStill
<1>. USE DEF M!AmplitudeKept, M!Places
<1>1. Init => M!AmplitudeKept
  BY DEF Init, M!Init
<1>2. M!AmplitudeKept /\ [Next]_vars => M!AmplitudeKept'
  <2>. SUFFICES ASSUME M!AmplitudeKept, [Next]_vars PROVE M!AmplitudeKept'
    OBVIOUS
  <2>1. CASE test_motor
    <3>1. at = "idle" /\ amp' = amp /\ stopFailed' = stopFailed
      BY <2>1 DEF test_motor, Prompt, M!cmd_test_motor, M!chip
    <3>. QED  BY <3>1
  <2>2. CASE MotorStep
    <3>1. CASE M!ExitStandby \/ M!EnterRtp
      BY <3>1 DEF M!ExitStandby, M!EnterRtp
    <3>2. CASE M!SetAmplitude  BY <3>2 DEF M!SetAmplitude
    <3>3. CASE M!Stop  BY <3>3 DEF M!Stop
    <3>. QED  BY <2>2, <3>1, <3>2, <3>3 DEF MotorStep, M!Step
  <2>3. CASE Ship  BY <2>3 DEF Ship, M!Lose, M!ChipReset
  <2>4. CASE sys_poweroff
    <3>1. at = "sys_poweroff" /\ at' = "idle" /\ M!Release
      BY <2>4 DEF sys_poweroff, LoseMemory
    <3>2. amp' = amp \/ amp' = FALSE
      BY <3>1 DEF M!Release, M!chip, M!ChipReset
    <3>3. stopFailed' = stopFailed
      BY <3>1 DEF M!Release
    <3>. QED  BY <3>1, <3>2, <3>3
  <2>5. CASE UNCHANGED motor /\ (at' = at \/ {at, at'} \cap M!Places = {})
    BY <2>5 DEF motor
  <2>. QED  BY <2>1, <2>2, <2>3, <2>4, <2>5, MotorSteps
<1>3. M!AmplitudeKept => MotorStill
  BY DEF MotorStill, M!MotorStill, M!Vibrating
<1>. QED  BY <1>1, <1>2, <1>3, PTL DEF Spec

-------------------------------------------------------------------------------
(* Boot, shell and power *)

\* What BootBeforeCommands needs: nothing of a boot is left when the power is
\* gone, nobody is connected before the host advertises, and the host advertises
\* only after the last of the sensors.
Booted ==
    /\ stage \in 1 .. 7
    /\ advertising \/ peers # {} \/ session # NULL \/ at # "idle" => stage \in {6, 7}
    /\ power # "on" => stage = 1

\* The invariant holds when the watch is first switched on.
LEMMA BootedInit == Init => Booted
BY DEF Init, InitMain, P!Init, B!Init, Booted

\* The calls of main come in their order.
LEMMA CallOrder ==
    ASSUME stage \in 1 .. 7
    PROVE  /\ At("pmic") => stage = 1 /\ stage' = 2
           /\ At("audio") => stage = 2 /\ stage' = 3
           /\ At("bmm350") => stage = 3 /\ stage' = 4
           /\ At("bmp390") => stage = 4 /\ stage' = 5
           /\ At("bluetooth") => stage = 5 /\ stage' = 6
           /\ At("verdict") => stage = 6 /\ stage' = 7
BY DEF At, Stages

\* The commands that only use devices.
LEMMA DevicesKeepBooted ==
    ASSUME Booted,
           \/ test_flash \/ test_motor \/ test_sensor
           \/ FlashStep \/ MotorStep \/ SensorStep
    PROVE  Booted'
<1>. USE DEF F!Places, M!Places, S!Places
<1>1. UNCHANGED <<supply, bluetooth, main>>
  BY DEF test_flash, test_motor, test_sensor, FlashStep, MotorStep, SensorStep
<1>2. at' # "idle" => at # "idle" \/ session # NULL
  <2>1. CASE FlashStep
    BY <2>1 DEF FlashStep, F!Step, F!flash_erase, F!flash_write,
                F!flash_write_fails, F!flash_read, F!flash_read_fails
  <2>2. CASE MotorStep
    BY <2>2 DEF MotorStep, M!Step, M!ExitStandby, M!EnterRtp, M!SetAmplitude, M!Stop
  <2>3. CASE SensorStep
    BY <2>3 DEF SensorStep, S!Step, S!Resume, S!Fetch, S!Call, S!Fails, S!Suspend,
                S!InScript
  <2>4. CASE test_flash \/ test_motor \/ test_sensor
    BY <2>4 DEF test_flash, test_motor, test_sensor, Given, Prompt
  <2>. QED  BY <2>1, <2>2, <2>3, <2>4
<1>. QED  BY <1>1, <1>2 DEF Booted, supply, bluetooth, main

\* Every other step keeps it too.
LEMMA BootedInductive == Booted /\ [Next]_vars => Booted'
<1>. SUFFICES ASSUME Booted, [Next]_vars PROVE Booted'
  OBVIOUS
<1>1. CASE test_init
  <2>1. CASE init_pmic
    <3>1. /\ stage = 1 /\ stage' = 2 /\ power = "on"
          /\ UNCHANGED <<advertising, peers, session, at>>
      BY <2>1, CallOrder DEF init_pmic, At, Booted, bluetooth
    <3>2. power' = power
      BY <2>1 DEF init_pmic, P!Arm, supply
    <3>. QED  BY <3>1, <3>2 DEF Booted
  <2>2. CASE init_audio
    BY <2>2 DEF init_audio, At, Stages, Booted, supply, bluetooth
  <2>4. CASE init_bmm350
    BY <2>4 DEF init_bmm350, At, Stages, Booted, supply, bluetooth
  <2>5. CASE init_bmp390
    BY <2>5 DEF init_bmp390, At, Stages, Booted, supply, bluetooth
  <2>6. CASE Verdict
    BY <2>6 DEF Verdict, At, Stages, Booted, supply, bluetooth
  <2>3. CASE bluetooth_shell_init
    BY <2>3 DEF bluetooth_shell_init, At, Stages, Booted, supply, bluetooth
  <2>. QED  BY <1>1, <2>1, <2>2, <2>3, <2>4, <2>5, <2>6 DEF test_init
<1>2. CASE \E c \in Conn : Connect(c) \/ Disconnect(c)
  BY <1>2 DEF Connect, Disconnect, B!Arrive, B!Leave, Booted, supply, main
<1>3. CASE test_pmic
  BY <1>3 DEF test_pmic, Prompt, P!Arm, Booted, bluetooth, main
<1>4. CASE test_button \/ test_systemoff \/ PinConfigure \/ PinInterrupt
  BY <1>4 DEF test_button, test_systemoff, PinConfigure, PinInterrupt, Prompt,
              Booted, supply, bluetooth, main
<1>5. CASE sys_poweroff \/ Ship
  BY <1>5 DEF sys_poweroff, Ship, LoseMemory, P!Off, P!Ship, Booted
<1>6. CASE Start
  BY <1>6 DEF Start, P!Start, Booted, bluetooth, main
<1>7. CASE UNCHANGED vars
  BY <1>7 DEF vars, supply, bluetooth, main, Booted
<1>. QED
  BY <1>1, <1>2, <1>3, <1>4, <1>5, <1>6, <1>7, DevicesKeepBooted
  DEF Next, Commands, Shell

\* No command runs beside the boot.
THEOREM BootFirst == Spec => []BootBeforeCommands
<1>1. Booted => BootBeforeCommands
  BY DEF Booted, BootBeforeCommands, Stages
<1>. QED  BY <1>1, BootedInit, BootedInductive, PTL DEF Spec

-------------------------------------------------------------------------------
(* System off *)

Armed == [Senseless EXCEPT ![button1] = GPIO_INT_LEVEL_INACTIVE]

\* What OffCanWake needs: the pull-up is there when the interrupt is configured
\* and stays until the processor starts again, and no other pin is given a level.
Wakeable ==
    /\ sense \in {Senseless, Armed}
    /\ at \in {"pin_interrupt", "sys_poweroff"} => button1 \in pulled
    /\ power = "off" \/ at = "sys_poweroff" => sense = Armed /\ button1 \in pulled

\* The other commands never come to the calls of system off, and leave the power
\* and the pins alone.
LEMMA PinSteps ==
    [Next]_vars => \/ test_button \/ test_systemoff \/ PinConfigure \/ PinInterrupt
                   \/ sys_poweroff \/ Ship \/ Start
                   \/ /\ UNCHANGED <<power, wake>>
                      /\ \/ at' = at
                         \/ at' \notin {"pin_interrupt", "sys_poweroff"}
<1>. SUFFICES ASSUME [Next]_vars, ~test_button, ~test_systemoff, ~PinConfigure,
                     ~PinInterrupt, ~sys_poweroff, ~Ship, ~Start
              PROVE  /\ UNCHANGED <<power, wake>>
                     /\ \/ at' = at
                        \/ at' \notin {"pin_interrupt", "sys_poweroff"}
  OBVIOUS
<1>. USE DEF supply
<1>1. CASE test_init
  BY <1>1 DEF test_init, init_pmic, P!Arm, init_audio, init_bmm350, init_bmp390,
              bluetooth_shell_init, Verdict
<1>2. CASE \E c \in Conn : Connect(c) \/ Disconnect(c)
  BY <1>2 DEF Connect, Disconnect
<1>3. CASE test_flash \/ FlashStep
  BY <1>3 DEF test_flash, Given, F!cmd_test_flash, FlashStep, F!Step,
              F!flash_erase, F!flash_write, F!flash_write_fails, F!flash_read,
              F!flash_read_fails
<1>4. CASE test_motor \/ MotorStep
  BY <1>4 DEF test_motor, M!cmd_test_motor, MotorStep, M!Step, M!ExitStandby,
              M!EnterRtp, M!SetAmplitude, M!Stop
<1>5. CASE test_sensor
  BY <1>5 DEF test_sensor, Given, S!test_sensor, S!Places
<1>6. CASE SensorStep
  BY <1>6 DEF SensorStep, S!Step, S!Resume, S!Fetch, S!Call, S!Fails,
              S!Suspend, S!Proceed, S!Return
<1>7. CASE test_pmic  BY <1>7 DEF test_pmic, P!Arm
<1>8. CASE UNCHANGED vars  BY <1>8 DEF vars
<1>. QED
  BY <1>1, <1>2, <1>3, <1>4, <1>5, <1>6, <1>7, <1>8 DEF Next, Commands, Shell

\* The two calls are made in their order, on the one pin.
LEMMA WakeableInductive == Booted /\ Wakeable /\ [Next]_vars => Wakeable'
<1>. SUFFICES ASSUME Booted, Wakeable, [Next]_vars PROVE Wakeable'
  OBVIOUS
<1>. USE DEF Wakeable, supply
<1>1. CASE test_button
  BY <1>1 DEF test_button, Prompt, Buttons, button1
<1>2. CASE test_systemoff
  BY <1>2 DEF test_systemoff, Prompt, wake
<1>3. CASE PinConfigure  BY <1>3 DEF PinConfigure
<1>4. CASE PinInterrupt
  <2>1. sense' \in {sense, Armed} /\ (at' = "sys_poweroff" => sense' = Armed)
    BY <1>4 DEF PinInterrupt, Armed, Senseless, Buttons, button1
  <2>. QED  BY <1>4, <2>1 DEF PinInterrupt
<1>5. CASE sys_poweroff
  BY <1>5 DEF sys_poweroff, LoseMemory, wake
<1>6. CASE Ship  BY <1>6 DEF Ship, LoseMemory, P!Ship
<1>7. CASE Start
  <2>1. sense' = Senseless /\ power' = "on" /\ at' = at
    BY <1>7 DEF Start, P!Start
  <2>2. at = "idle"
    BY <1>7 DEF Start, P!Start, Booted
  <2>. QED  BY <2>1, <2>2
<1>8. CASE /\ UNCHANGED <<power, wake>>
           /\ at' = at \/ at' \notin {"pin_interrupt", "sys_poweroff"}
  BY <1>8 DEF wake
<1>. QED
  BY <1>1, <1>2, <1>3, <1>4, <1>5, <1>6, <1>7, <1>8, PinSteps

\* The watch sleeps only when a press of button 2 wakes it and no button at rest
\* does.
THEOREM PressWakes == Spec => []OffCanWake
<1>1. Init => Wakeable
  BY DEF Init, P!Init, Wakeable
<1>2. Wakeable => OffCanWake
  <2>. SUFFICES ASSUME sense = Armed, button1 \in pulled
                PROVE  /\ \E b \in Buttons : WokenBy(b, TRUE)
                       /\ \A b \in Buttons : ~WokenBy(b, FALSE)
    BY DEF Wakeable, OffCanWake
  <2>. USE DEF WokenBy, PinLevels, Levels, NoLevel, Armed, Senseless, Buttons,
               button1, GPIO_INT_LEVEL_INACTIVE
  <2>1. sense[button1] = "low" /\ WokenBy(button1, TRUE)
    OBVIOUS
  <2>2. ASSUME NEW b \in Buttons PROVE ~WokenBy(b, FALSE)
    <3>1. CASE b = button1  BY <3>1
    <3>2. CASE b # button1
      <4>1. sense[b] = "none"  BY <3>2
      <4>. QED  BY <4>1
    <3>. QED  BY <3>1, <3>2
  <2>. QED  BY <2>1, <2>2
<1>. QED
  BY <1>1, <1>2, BootedInit, BootedInductive, WakeableInductive, PTL DEF Spec

-------------------------------------------------------------------------------
(* The sensors *)

\* Where in its script each command is, and from where on its driver's buffer is
\* of this command.
Scripted ==
    /\ call \in 0 .. 5
    /\ at \in {"bmp390", "lsm6dso"} => call \in 1 .. 5
    /\ at = "opt300" => call \in 1 .. 2
    /\ at = "bmp390" /\ call \in {3, 4} => fetched
    /\ at = "lsm6dso" /\ call \in {4, 5} => fetched
    /\ at = "opt300" /\ call = 2 => fetched

\* The scripts, spelt out.
LEMMA Scripts ==
    /\ \A n \in 1 .. 5 : S!Script["bmp390"][n] =
          CASE n = 1 -> "resume" [] n = 2 -> "fetch" [] n = 5 -> "suspend"
            [] OTHER -> "get"
    /\ \A n \in 1 .. 5 : S!Script["lsm6dso"][n] =
          CASE n \in {1, 2} -> "attr" [] n = 3 -> "fetch" [] OTHER -> "get"
    /\ \A n \in 1 .. 2 : S!Script["opt300"][n] =
          CASE n = 1 -> "fetch" [] OTHER -> "get"
    /\ Len(S!Script["bmp390"]) = 5 /\ Len(S!Script["lsm6dso"]) = 5
    /\ Len(S!Script["opt300"]) = 2
BY DEF S!Script

\* The steps of the shell thread within a script keep the place in it, and
\* leave the pressure sensor awake only after a fault.
LEMMA SensorStepInv ==
    ASSUME Scripted, S!Step
    PROVE  /\ Scripted'
           /\ S!AwakeNeedsFault => S!AwakeNeedsFault'
<1>. USE DEF S!Places, S!AwakeNeedsFault
<1>1. S!Return => Scripted' /\ at' = "idle"
  BY DEF S!Return, Scripted
<1>2. at \in S!Places  BY DEF S!Step, S!Resume, S!Fetch, S!Call, S!Fails,
                              S!Suspend, S!InScript
<1>3. CASE S!Resume
  <2>1. at = "bmp390" /\ call = 1
    BY <1>2, <1>3, Scripts DEF S!Resume, S!Op, Scripted
  <2>2. at' = "bmp390" /\ call' = 2
    BY <1>3, <2>1, Scripts DEF S!Resume, S!Proceed
  <2>. QED  BY <2>2 DEF Scripted
<1>4. CASE S!Fetch
  <2>1. \/ at = "bmp390" /\ call = 2
        \/ at = "lsm6dso" /\ call = 3
        \/ at = "opt300" /\ call = 1
    BY <1>2, <1>4, Scripts DEF S!Fetch, S!Op, Scripted
  <2>2. at' = at /\ call' = call + 1 /\ fetched' = TRUE
    BY <1>4, <2>1, Scripts DEF S!Fetch, S!Proceed
  <2>. QED  BY <1>4, <2>1, <2>2 DEF S!Fetch, Scripted
<1>5. CASE S!Call
  <2>1. \/ at = "bmp390" /\ call \in {3, 4}
        \/ at = "lsm6dso" /\ call \in {1, 2, 4, 5}
        \/ at = "opt300" /\ call = 2
    BY <1>2, <1>5, Scripts DEF S!Call, S!Op, Scripted
  <2>2. active' = active /\ fault' = fault
    BY <1>5 DEF S!Call
  <2>3. CASE at = "bmp390"
    <3>1. at' = at /\ call' = call + 1 /\ fetched' = fetched
      BY <1>5, <2>1, <2>3, Scripts DEF S!Call, S!Proceed
    <3>. QED  BY <2>1, <2>3, <3>1 DEF Scripted
  <2>4. CASE at = "lsm6dso" /\ call # 5
    <3>1. at' = at /\ call' = call + 1 /\ fetched' = fetched
      BY <1>5, <2>1, <2>4, Scripts DEF S!Call, S!Proceed
    <3>. QED  BY <2>1, <2>2, <2>4, <3>1 DEF Scripted
  <2>5. CASE (at = "lsm6dso" /\ call = 5) \/ at = "opt300"
    <3>1. ~(call < Len(S!Script[at]))
      <4>1. CASE at = "lsm6dso"  BY <2>5, <4>1, Scripts
      <4>2. CASE at = "opt300"  BY <2>1, <4>2, Scripts
      <4>. QED  BY <2>5, <4>1, <4>2
    <3>2. S!Return  BY <1>5, <3>1 DEF S!Call, S!Proceed
    <3>. QED  BY <1>1, <2>2, <2>5, <3>2
  <2>. QED  BY <2>1, <2>3, <2>4, <2>5
<1>6. CASE S!Fails
  BY <1>1, <1>6 DEF S!Fails
<1>7. CASE S!Suspend
  <2>1. at = "bmp390" /\ call = 5
    BY <1>2, <1>7, Scripts DEF S!Suspend, S!Op, Scripted
  <2>2. S!Return  BY <1>7, <2>1, Scripts DEF S!Suspend, S!Proceed
  <2>3. active' => fault'  BY <1>7 DEF S!Suspend, S!pm_suspend
  <2>. QED  BY <1>1, <2>2, <2>3
<1>. QED  BY <1>3, <1>4, <1>5, <1>6, <1>7 DEF S!Step

\* The steps that concern neither the sensors nor the power.
LEMMA SensorSteps ==
    ASSUME Booted, [Next]_vars, ~test_sensor, ~SensorStep, ~init_bmp390,
           ~Ship, ~sys_poweroff, ~Start
    PROVE  /\ UNCHANGED <<sensors, power, ready>>
           /\ at' = at \/ {at, at'} \cap S!Places = {}
           /\ stage' > 4 => stage > 4
<1>. USE DEF S!Places
<1>1. CASE test_init
  <2>1. CASE init_pmic
    <3>1. /\ stage = 1 /\ stage' = 2
          /\ UNCHANGED <<sensors, ready, at>>
      BY <2>1, CallOrder DEF init_pmic, Booted
    <3>2. power' = power
      BY <2>1 DEF init_pmic, P!Arm, supply
    <3>. QED  BY <3>1, <3>2
  <2>2. CASE init_audio  BY <2>2 DEF init_audio, supply, At, Stages, Booted
  <2>3. CASE init_bmm350  BY <2>3 DEF init_bmm350, supply, At, Stages, Booted
  <2>4. CASE bluetooth_shell_init
    BY <2>4 DEF bluetooth_shell_init, supply, At, Stages, Booted
  <2>5. CASE Verdict  BY <2>5 DEF Verdict, supply, At, Stages, Booted
  <2>. QED  BY <1>1, <2>1, <2>2, <2>3, <2>4, <2>5 DEF test_init
<1>2. CASE \E c \in Conn : Connect(c) \/ Disconnect(c)
  BY <1>2 DEF Connect, Disconnect, supply, main
<1>3. CASE test_flash \/ FlashStep
  BY <1>3 DEF test_flash, Given, F!cmd_test_flash, FlashStep, F!Step,
              F!flash_erase, F!flash_write, F!flash_write_fails, F!flash_read,
              F!flash_read_fails, supply, main
<1>4. CASE test_motor \/ MotorStep
  BY <1>4 DEF test_motor, M!cmd_test_motor, MotorStep, M!Step, M!ExitStandby,
              M!EnterRtp, M!SetAmplitude, M!Stop, supply, main
<1>5. CASE test_pmic
  BY <1>5 DEF test_pmic, Prompt, P!Arm, main
<1>6. CASE test_button \/ test_systemoff \/ PinConfigure \/ PinInterrupt
  BY <1>6 DEF test_button, test_systemoff, Prompt, PinConfigure, PinInterrupt, supply, main
<1>7. CASE UNCHANGED vars  BY <1>7 DEF vars, supply, main
<1>. QED
  BY <1>1, <1>2, <1>3, <1>4, <1>5, <1>6, <1>7 DEF Next, Commands, Shell

\* The place in the script and the state of the pressure sensor go together.
THEOREM ScriptKept == Spec => [](Scripted /\ AwakeNeedsFault)
<1>. USE DEF S!Places
<1>1. Init => Scripted /\ AwakeNeedsFault
  BY DEF Init, InitMain, S!Init, Scripted, AwakeNeedsFault
<1>2. Booted /\ Scripted /\ AwakeNeedsFault /\ [Next]_vars
        => Scripted' /\ AwakeNeedsFault'
  <2>. SUFFICES ASSUME Booted, Scripted, AwakeNeedsFault, [Next]_vars
                PROVE  Scripted' /\ AwakeNeedsFault'
    OBVIOUS
  <2>1. CASE test_sensor
    <3>1. PICK s \in S!Places : s \in ready /\ S!test_sensor(s)
      BY <2>1 DEF test_sensor, Given
    <3>2. /\ at = "idle" /\ at' = s /\ call' = 1
          /\ UNCHANGED <<active, fetched, fault>>
          /\ UNCHANGED <<power, ready, stage>>
      BY <2>1, <3>1 DEF test_sensor, S!test_sensor, supply, main
    <3>. QED  BY <3>2 DEF Scripted, AwakeNeedsFault, S!AwakeNeedsFault
  <2>2. CASE SensorStep
    <3>1. S!Step /\ UNCHANGED <<power, ready, stage>>
      BY <2>2 DEF SensorStep, supply, main
    <3>. QED  BY <3>1, SensorStepInv DEF AwakeNeedsFault, S!AwakeNeedsFault
  <2>3. CASE init_bmp390
    <3>1. stage = 4 /\ at' = at /\ call' = call /\ fetched' = fetched /\ ready' = ready
      BY <2>3 DEF init_bmp390, At, Stages, Booted
    <3>2. "bmp390" \in ready => S!pm_suspend
      BY <2>3 DEF init_bmp390
    <3>. QED
      BY <3>1, <3>2
      DEF Booted, Scripted, AwakeNeedsFault, S!AwakeNeedsFault, S!pm_suspend
  <2>4. CASE Ship \/ sys_poweroff
    BY <2>4 DEF Ship, sys_poweroff, P!Ship, P!Off, LoseMemory, S!Lose, Scripted,
                AwakeNeedsFault
  <2>5. CASE Start
    BY <2>5 DEF Start, P!Start, Booted, Scripted, AwakeNeedsFault, main, sensors
  <2>6. CASE /\ UNCHANGED <<sensors, power, ready>>
             /\ at' = at \/ {at, at'} \cap S!Places = {}
             /\ stage' > 4 => stage > 4
    BY <2>6 DEF sensors, Scripted, AwakeNeedsFault, S!AwakeNeedsFault
  <2>. QED  BY <2>1, <2>2, <2>3, <2>4, <2>5, <2>6, SensorSteps
<1>. QED  BY <1>1, <1>2, BootedInit, BootedInductive, PTL DEF Spec

\* What each command prints it has fetched, and the pressure sensor is awake
\* between commands, of this boot, only after a fault.
THEOREM SensorsKept == Spec => [](PrintedIsFetched /\ AwakeNeedsFault)
<1>1. Scripted => PrintedIsFetched
  <2>. SUFFICES ASSUME Scripted, S!InScript, S!Op = "get" PROVE fetched
    BY DEF PrintedIsFetched, S!PrintedIsFetched
  <2>. USE DEF S!Op, Scripted
  <2>1. CASE at = "bmp390"  BY <2>1, Scripts
  <2>2. CASE at = "lsm6dso"  BY <2>2, Scripts
  <2>3. CASE at = "opt300"  BY <2>3, Scripts
  <2>. QED  BY <2>1, <2>2, <2>3 DEF S!InScript, S!Places
<1>. QED  BY <1>1, ScriptKept, PTL

-------------------------------------------------------------------------------
(* Types *)

\* Each component's part of TypeOK, with the place in the script that goes with
\* each call of the shell thread.
BootTypes ==
    /\ power \in {"on", "off", "ship"} /\ armed \in BOOLEAN
    /\ peers \subseteq Conn /\ session \in Conn \cup {NULL} /\ spent \subseteq Conn
    /\ ready \in SUBSET Devices
    /\ ret \in {0, 1}
    /\ advertising \in BOOLEAN /\ broken \in BOOLEAN /\ told \in BOOLEAN
    /\ pulled \subseteq Buttons /\ sense \in [Buttons -> Levels \cup {NoLevel}]

DeviceTypes ==
    /\ at \in CommandPlaces \cup {"idle"}
    /\ F!TypeOK /\ M!TypeOK
    /\ active \in BOOLEAN /\ fetched \in BOOLEAN /\ fault \in BOOLEAN
    /\ at \notin S!Places => call = 0

\* The steps of main, the host and the power keep the first part.
LEMMA BootTypesInductive == BootTypes /\ [Next]_vars => BootTypes'
<1>. SUFFICES ASSUME BootTypes, [Next]_vars PROVE BootTypes'
  OBVIOUS
<1>. USE DEF BootTypes, supply, bluetooth, main, wake
<1>0. Senseless \in [Buttons -> Levels \cup {NoLevel}]  BY DEF Senseless
<1>1. CASE test_init
  <2>1. CASE init_pmic  BY <2>1 DEF init_pmic, At, P!Arm, Result
  <2>2. CASE init_audio  BY <2>2 DEF init_audio, At, Result
  <2>3. CASE init_bmm350  BY <2>3 DEF init_bmm350, At, Result
  <2>4. CASE init_bmp390  BY <2>4 DEF init_bmp390, At, Result
  <2>5. CASE bluetooth_shell_init  BY <2>5 DEF bluetooth_shell_init, At
  <2>6. CASE Verdict  BY <2>6 DEF Verdict, At
  <2>. QED  BY <1>1, <2>1, <2>2, <2>3, <2>4, <2>5, <2>6 DEF test_init
<1>2. ASSUME NEW c \in Conn, Connect(c) \/ Disconnect(c) PROVE BootTypes'
  BY <1>2 DEF Connect, Disconnect, B!Arrive, B!Leave
<1>3. CASE \/ test_flash \/ test_motor \/ test_sensor \/ test_button \/ test_systemoff
           \/ FlashStep \/ MotorStep \/ SensorStep \/ PinConfigure
  BY <1>3 DEF test_flash, test_motor, test_sensor, test_button, test_systemoff, FlashStep,
              MotorStep, SensorStep, PinConfigure, Buttons, button1
<1>4. CASE test_pmic  BY <1>4 DEF test_pmic, P!Arm
<1>5. CASE PinInterrupt
  <2>1. sense' \in [Buttons -> Levels \cup {NoLevel}]
    BY <1>5 DEF PinInterrupt, Levels, GPIO_INT_LEVEL_INACTIVE
  <2>. QED  BY <1>5, <2>1 DEF PinInterrupt
<1>6. CASE sys_poweroff \/ Ship
  BY <1>0, <1>6 DEF sys_poweroff, Ship, LoseMemory, P!Off, P!Ship
<1>7. CASE Start  BY <1>0, <1>7, WatchAssumption DEF Start, P!Start
<1>8. CASE UNCHANGED vars  BY <1>8 DEF vars
<1>. QED
  BY <1>1, <1>2, <1>3, <1>4, <1>5, <1>6, <1>7, <1>8 DEF Next, Commands, Shell

\* The steps of the devices and of whatever takes their power keep the second.
LEMMA DeviceTypesInductive ==
    DeviceTypes /\ Scripted /\ [Next]_vars => DeviceTypes'
<1>. SUFFICES ASSUME DeviceTypes, Scripted, [Next]_vars PROVE DeviceTypes'
  OBVIOUS
<1>. USE DEF DeviceTypes, CommandPlaces, F!Places, M!Places, S!Places, F!TypeOK,
             M!TypeOK, sector, motor, sensors
<1>1. CASE test_init
  <2>1. CASE init_pmic \/ init_audio \/ init_bmm350 \/ bluetooth_shell_init \/ Verdict
    <3>1. UNCHANGED <<at, sector, motor, sensors>>
      BY <2>1 DEF init_pmic, init_audio, init_bmm350, bluetooth_shell_init, Verdict
    <3>. QED  BY <3>1
  <2>2. CASE init_bmp390
    <3>1. UNCHANGED <<at, sector, motor, call, fetched>>
      BY <2>2 DEF init_bmp390
    <3>2. active' \in BOOLEAN /\ fault' \in BOOLEAN
      BY <2>2 DEF init_bmp390, S!pm_suspend
    <3>. QED  BY <3>1, <3>2
  <2>. QED  BY <1>1, <2>1, <2>2 DEF test_init
<1>2. CASE \E c \in Conn : Connect(c) \/ Disconnect(c)
  BY <1>2 DEF Connect, Disconnect
<1>3. CASE test_flash  BY <1>3 DEF test_flash, Given, F!cmd_test_flash
<1>4. CASE test_motor  BY <1>4 DEF test_motor, Prompt, M!cmd_test_motor, M!chip
<1>5. CASE test_sensor  BY <1>5 DEF test_sensor, Given, S!test_sensor
<1>6. CASE \/ test_pmic \/ test_button \/ test_systemoff
           \/ PinConfigure \/ PinInterrupt \/ Start
  BY <1>6 DEF test_pmic, Prompt, test_button, test_systemoff, PinConfigure,
              PinInterrupt, Start
<1>7. CASE FlashStep
  <2>1. CASE F!flash_erase  BY <1>7, <2>1 DEF FlashStep, F!flash_erase
  <2>2. CASE F!flash_write
    BY <1>7, <2>2, WatchAssumption DEF FlashStep, F!flash_write
  <2>3. CASE F!flash_write_fails
    BY <1>7, <2>3, WatchAssumption DEF FlashStep, F!flash_write_fails
  <2>4. CASE F!flash_read  BY <1>7, <2>4 DEF FlashStep, F!flash_read
  <2>5. CASE F!flash_read_fails  BY <1>7, <2>5 DEF FlashStep, F!flash_read_fails
  <2>. QED  BY <1>7, <2>1, <2>2, <2>3, <2>4, <2>5 DEF FlashStep, F!Step
<1>8. CASE MotorStep
  <2>1. UNCHANGED <<sector, sensors>>
        /\ at \in M!Places /\ at' \in M!Places \cup {"idle"}
    BY <1>8 DEF MotorStep, M!Step, M!ExitStandby, M!EnterRtp, M!SetAmplitude, M!Stop
  <2>2. M!TypeOK'
    <3>1. CASE M!ExitStandby  BY <3>1 DEF M!ExitStandby
    <3>2. CASE M!EnterRtp  BY <3>2 DEF M!EnterRtp
    <3>3. CASE M!SetAmplitude  BY <3>3 DEF M!SetAmplitude
    <3>4. CASE M!Stop  BY <3>4 DEF M!Stop
    <3>. QED  BY <1>8, <3>1, <3>2, <3>3, <3>4 DEF MotorStep, M!Step
  <2>. QED  BY <2>1, <2>2
<1>9. CASE SensorStep
  <2>1. UNCHANGED <<sector, motor>>  BY <1>9 DEF SensorStep
  <2>2. /\ active' \in BOOLEAN /\ fetched' \in BOOLEAN /\ fault' \in BOOLEAN
        /\ \/ at' = at /\ at \in S!Places
           \/ at' = "idle" /\ call' = 0
    <3>. USE DEF S!Proceed, S!Return, S!InScript
    <3>1. CASE S!Resume  BY <3>1 DEF S!Resume
    <3>2. CASE S!Fetch  BY <3>2 DEF S!Fetch
    <3>3. CASE S!Call  BY <3>3 DEF S!Call
    <3>4. CASE S!Fails  BY <3>4 DEF S!Fails
    <3>5. CASE S!Suspend  BY <3>5 DEF S!Suspend, S!pm_suspend
    <3>. QED  BY <1>9, <3>1, <3>2, <3>3, <3>4, <3>5 DEF SensorStep, S!Step
  <2>. QED  BY <2>1, <2>2
<1>10. CASE sys_poweroff
  <2>1. UNCHANGED sector /\ LoseMemory /\ M!Release  BY <1>10 DEF sys_poweroff
  <2>2. M!TypeOK'  BY <2>1 DEF M!Release, M!chip, M!ChipReset
  <2>. QED  BY <2>1, <2>2 DEF LoseMemory, S!Lose
<1>11. CASE Ship
  <2>1. LoseMemory /\ M!Lose /\ F!Cut  BY <1>11 DEF Ship
  <2>2. flash' \subseteq Bits /\ UNCHANGED <<verdict, eraseFailed>>
    BY <2>1, WatchAssumption DEF F!Cut
  <2>. QED  BY <2>1, <2>2 DEF LoseMemory, S!Lose, M!Lose, M!ChipReset
<1>12. CASE UNCHANGED vars  BY <1>12 DEF vars
<1>. QED
  BY <1>1, <1>2, <1>3, <1>4, <1>5, <1>6, <1>7, <1>8, <1>9, <1>10, <1>11, <1>12
  DEF Next, Commands, Shell

\* Every variable of the watch keeps to its values.
THEOREM TypeCorrect == Spec => []TypeOK
<1>1. Init => BootTypes /\ DeviceTypes
  <2>. SUFFICES ASSUME Init PROVE BootTypes /\ DeviceTypes
    OBVIOUS
  <2>1. BootTypes
    BY WatchAssumption DEF Init, InitMain, P!Init, B!Init, BootTypes, Senseless
  <2>2. DeviceTypes
    BY DEF Init, F!Init, M!Init, S!Init, DeviceTypes, F!TypeOK, M!TypeOK, S!Places
  <2>. QED  BY <2>1, <2>2
<1>2. Booted /\ Scripted /\ BootTypes /\ DeviceTypes => TypeOK
  <2>. SUFFICES ASSUME Booted, Scripted, BootTypes, DeviceTypes PROVE TypeOK
    OBVIOUS
  <2>1. S!TypeOK
    BY Scripts DEF S!TypeOK, Scripted, DeviceTypes, S!Places
  <2>. QED  BY <2>1 DEF TypeOK, Booted, Stages, BootTypes, DeviceTypes
<1>3. Spec => []Scripted  BY ScriptKept, PTL
<1>. QED
  BY <1>1, <1>2, <1>3, BootedInit, BootedInductive, BootTypesInductive,
     DeviceTypesInductive, PTL DEF Spec

-------------------------------------------------------------------------------
(* The sessions of the composition *)

\* The end of a boot: nobody is connected and every object is free.
SessionReset == peers' = {} /\ session' = NULL /\ spent' = {}

\* Within a boot connections come and go as ShellSession says, every boot starts
\* as it starts, and whoever may give a command is connected, on an object that
\* is not spent.
THEOREM SessionKept ==
    Spec => /\ B!Init /\ [][B!Next \/ SessionReset]_bluetooth
            /\ [](session # NULL => session \in peers \ spent)
<1>. DEFINE Served == session # NULL => session \in peers \ spent
<1>1. Init => B!Init /\ Served  BY DEF Init, B!Init
<1>2. [Next]_vars => [B!Next \/ SessionReset]_bluetooth
  <2>. SUFFICES ASSUME [Next]_vars
                PROVE  B!Next \/ SessionReset \/ UNCHANGED bluetooth
    OBVIOUS
  <2>1. CASE \E c \in Conn : Connect(c) \/ Disconnect(c)
    BY <2>1 DEF Connect, Disconnect, B!Next
  <2>2. CASE sys_poweroff \/ Ship
    BY <2>2 DEF sys_poweroff, Ship, LoseMemory, SessionReset
  <2>. QED
    BY <2>1, <2>2
    DEF Next, test_init, init_pmic, init_audio, init_bmm350, init_bmp390,
        bluetooth_shell_init, Verdict, Commands, test_flash, test_motor, test_sensor,
        test_pmic, test_button, test_systemoff, Shell, FlashStep, MotorStep, SensorStep,
        PinConfigure, PinInterrupt, Start, vars
<1>3. Served /\ [B!Next \/ SessionReset]_bluetooth => Served'
  BY WatchAssumption DEF B!Next, B!Arrive, B!Leave, SessionReset, bluetooth
<1>. QED  BY <1>1, <1>2, <1>3, PTL DEF Spec

-------------------------------------------------------------------------------
(* The verdict on the boot *)

\* "test init failed!" says one thing and all of it: the pressure sensor was not
\* ready.  No failure of the four other parts brings it about, and none of them
\* prevents it.
THEOREM VerdictIsBmp390 ==
    Spec => [](Stages[stage] = "done" => (told <=> "bmp390" \notin ready))
<1>. DEFINE Last == /\ stage \in {5, 6} => (ret # 0 <=> "bmp390" \notin ready)
                    /\ stage = 7 => (told <=> "bmp390" \notin ready)
<1>1. Init => Last  BY DEF Init, InitMain
<1>2. Booted /\ Last /\ [Next]_vars => Last'
  <2>. SUFFICES ASSUME Booted, Last, [Next]_vars PROVE Last'
    OBVIOUS
  <2>1. CASE init_pmic \/ init_audio \/ init_bmm350
    <3>1. At("pmic") \/ At("audio") \/ At("bmm350")
      BY <2>1 DEF init_pmic, init_audio, init_bmm350
    <3>2. stage' \in {2, 3, 4}
      BY <3>1, CallOrder DEF Booted
    <3>. QED  BY <3>2
  <2>2. CASE init_bmp390
    <3>1. stage = 4 /\ stage' = 5 /\ ready' = ready
      BY <2>2, CallOrder DEF init_bmp390, Booted
    <3>2. CASE "bmp390" \in ready
      <4>1. ret' = 0  BY <2>2, <3>2 DEF init_bmp390, Result
      <4>. QED  BY <3>1, <3>2, <4>1
    <3>3. CASE "bmp390" \notin ready
      <4>1. ret' = 1  BY <2>2, <3>3 DEF init_bmp390, Result
      <4>. QED  BY <3>1, <3>3, <4>1
    <3>. QED  BY <3>2, <3>3
  <2>3. CASE bluetooth_shell_init
    BY <2>3, CallOrder DEF bluetooth_shell_init, Booted
  <2>4. CASE Verdict
    <3>1. stage = 6 /\ stage' = 7 /\ ready' = ready
      BY <2>4, CallOrder DEF Verdict, Booted
    <3>2. told' <=> ret # 0  BY <2>4 DEF Verdict
    <3>. QED  BY <3>1, <3>2
  <2>5. CASE sys_poweroff \/ Ship
    BY <2>5 DEF sys_poweroff, Ship, LoseMemory
  <2>6. CASE Start
    <3>1. stage = 1 /\ stage' = 1
      BY <2>6 DEF Start, P!Start, main, Booted
    <3>. QED  BY <3>1
  <2>7. CASE UNCHANGED <<main, ready>>  BY <2>7 DEF main
  <2>. QED
    BY <2>1, <2>2, <2>3, <2>4, <2>5, <2>6, <2>7
    DEF Next, test_init, Commands, test_flash, test_motor, test_sensor, test_pmic,
        test_button, test_systemoff, Shell, FlashStep, MotorStep, SensorStep,
        PinConfigure, PinInterrupt, Connect, Disconnect, vars
<1>3. Booted /\ Last => (Stages[stage] = "done" => (told <=> "bmp390" \notin ready))
  BY DEF Booted, Stages
<1>. QED  BY <1>1, <1>2, <1>3, BootedInit, BootedInductive, PTL DEF Spec

-------------------------------------------------------------------------------
(* The length of a command *)

CallsFrom ==
    [idle |-> 0,
     flash_erase |-> 3, flash_write |-> 2, flash_read |-> 1,
     motor_standby |-> 4, motor_rtp |-> 3, motor_amp |-> 2, motor_stop |-> 1,
     pin_configure |-> 3, pin_interrupt |-> 2, sys_poweroff |-> 1]

\* The calls that are left of the running command.
CallsLeft ==
    IF at \in S!Places THEN Len(S!Script[at]) + 1 - call ELSE CallsFrom[at]

\* It is a number, and none is left exactly at the prompt.
LEMMA CallsLeftType ==
    ASSUME Scripted, at \in CommandPlaces \cup {"idle"}
    PROVE  CallsLeft \in Nat /\ (CallsLeft = 0 <=> at = "idle")
<1>1. CASE at \in S!Places
  <2>. USE <1>1 DEF S!Places, CallsLeft, Scripted
  <2>1. CASE at = "bmp390"  BY <2>1, Scripts
  <2>2. CASE at = "lsm6dso"  BY <2>2, Scripts
  <2>3. CASE at = "opt300"  BY <2>3, Scripts
  <2>. QED  BY <2>1, <2>2, <2>3
<1>2. CASE at \notin S!Places
  BY <1>2 DEF CallsLeft, CallsFrom, CommandPlaces, F!Places, M!Places
<1>. QED  BY <1>1, <1>2

\* Each step of the shell thread leaves fewer calls.
LEMMA ShellDecreases ==
    ASSUME Scripted, at \in CommandPlaces \cup {"idle"}, Shell
    PROVE  CallsLeft' < CallsLeft
<1>. USE DEF S!Places, CallsLeft, CallsFrom
<1>1. CASE FlashStep
  <2>1. \/ at = "flash_erase" /\ at' = "flash_write"
        \/ at = "flash_write" /\ at' \in {"flash_read", "idle"}
        \/ at = "flash_read" /\ at' = "idle"
    BY <1>1 DEF FlashStep, F!Step, F!flash_erase, F!flash_write,
                F!flash_write_fails, F!flash_read, F!flash_read_fails
  <2>. QED  BY <2>1
<1>2. CASE MotorStep
  <2>1. \/ at = "motor_standby" /\ at' = "motor_rtp"
        \/ at = "motor_rtp" /\ at' = "motor_amp"
        \/ at = "motor_amp" /\ at' = "motor_stop"
        \/ at = "motor_stop" /\ at' = "idle"
    BY <1>2 DEF MotorStep, M!Step, M!ExitStandby, M!EnterRtp, M!SetAmplitude, M!Stop
  <2>. QED  BY <2>1
<1>3. CASE PinConfigure \/ PinInterrupt \/ sys_poweroff
  BY <1>3 DEF PinConfigure, PinInterrupt, sys_poweroff, LoseMemory
<1>4. CASE SensorStep
  <2>1. at \in S!Places
    BY <1>4 DEF SensorStep, S!Step, S!Resume, S!Fetch, S!Call, S!Fails, S!Suspend,
                S!InScript
  <2>2. CallsLeft \in Nat /\ CallsLeft # 0
    <3>. HIDE DEF CallsLeft
    <3>. QED  BY <2>1, CallsLeftType
  <2>3. \/ at' = at /\ call' = call + 1 /\ call < Len(S!Script[at])
        \/ at' = "idle"
    BY <1>4 DEF SensorStep, S!Step, S!Resume, S!Fetch, S!Call, S!Fails, S!Suspend,
                S!Proceed, S!Return
  <2>4. CASE at' = "idle"
    <3>1. CallsLeft' = 0  BY <2>4
    <3>. HIDE DEF CallsLeft
    <3>. QED  BY <2>2, <3>1
  <2>5. CASE at' = at /\ call' = call + 1
    <3>1. PICK n \in {2, 5} : n = Len(S!Script[at])
      BY <2>1, Scripts
    <3>2. CallsLeft = n + 1 - call
      BY <2>1, <3>1
    <3>3. CallsLeft' = n + 1 - (call + 1)
      BY <2>1, <2>5, <3>1
    <3>4. call \in Nat  BY DEF Scripted
    <3>. HIDE DEF CallsLeft
    <3>. QED  BY <3>2, <3>3, <3>4
  <2>. QED  BY <2>3, <2>4, <2>5
<1>. QED  BY <1>1, <1>2, <1>3, <1>4 DEF Shell

\* Once a command runs, the steps of others (of main, of the host, of a
\* connection that goes) leave it where it is or cut it off, and each of its own
\* leaves fewer calls, whichever of them fail: with the fairness of the shell
\* thread this is CommandEnds.
THEOREM CommandShrinks ==
    Spec => /\ [](CallsLeft \in Nat /\ (CallsLeft = 0 <=> at = "idle"))
            /\ [][Shell => CallsLeft' < CallsLeft]_vars
            /\ [][at # "idle" => \/ CallsLeft' < CallsLeft
                                 \/ UNCHANGED <<at, call>>]_vars
<1>1. TypeOK => at \in CommandPlaces \cup {"idle"}  BY DEF TypeOK
<1>2. Scripted /\ TypeOK => CallsLeft \in Nat /\ (CallsLeft = 0 <=> at = "idle")
  BY <1>1, CallsLeftType
<1>3. Scripted /\ TypeOK /\ Shell => CallsLeft' < CallsLeft
  BY <1>1, ShellDecreases
<1>4. Scripted /\ TypeOK /\ [Next]_vars /\ at # "idle"
        => CallsLeft' < CallsLeft \/ UNCHANGED <<at, call>>
  <2>. SUFFICES ASSUME Scripted, TypeOK, [Next]_vars, at # "idle"
                PROVE  CallsLeft' < CallsLeft \/ UNCHANGED <<at, call>>
    OBVIOUS
  <2>1. CASE Shell  BY <1>3, <2>1
  <2>2. CASE Ship
    <3>1. CallsLeft' = 0
      BY <2>2 DEF Ship, LoseMemory, CallsLeft, CallsFrom, S!Places
    <3>. QED  BY <1>2, <3>1
  <2>3. CASE test_init
    BY <2>3 DEF test_init, init_pmic, init_audio, init_bmm350, init_bmp390,
                bluetooth_shell_init, Verdict, sensors
  <2>4. CASE \E c \in Conn : Connect(c) \/ Disconnect(c)
    BY <2>4 DEF Connect, Disconnect, sensors
  <2>5. CASE Commands
    BY <2>5 DEF Commands, test_flash, test_motor, test_sensor, test_pmic,
                test_button, test_systemoff, Given, Prompt
  <2>6. CASE Start \/ UNCHANGED vars  BY <2>6 DEF Start, vars, sensors
  <2>. QED  BY <2>1, <2>2, <2>3, <2>4, <2>5, <2>6 DEF Next
<1>5. Spec => []Scripted  BY ScriptKept, PTL
<1>. QED  BY <1>2, <1>3, <1>4, <1>5, TypeCorrect, PTL DEF Spec

===============================================================================
