-------------------------------- MODULE Motor --------------------------------
(***************************************************************************)
(* The vibration motor: src/test_motor.c.                                  *)
(*                                                                         *)
(* The command raises the enable pin, takes the driver chip out of         *)
(* standby, puts it into real-time playback with full amplitude, and sets  *)
(* the amplitude back after two seconds.  Every transfer may fail, after   *)
(* or before it took effect, and the command goes on.                      *)
(***************************************************************************)

VARIABLES
    at,          \* the call the shell thread is in, or "idle"
    lra_en,      \* the enable pin is high
    standby,     \* register 0x01: the chip is in standby
    rtp,         \* register 0x01: real-time playback
    amp,         \* register 0x02: the amplitude is not 0
    stopFailed   \* history: the last stop failed

Places == {"motor_standby", "motor_rtp", "motor_amp", "motor_stop"}

chip == <<standby, rtp, amp>>
ChipReset == standby' = TRUE /\ rtp' = FALSE /\ amp' = FALSE

Vibrating == lra_en /\ ~standby /\ rtp /\ amp

Init ==
    /\ lra_en = FALSE /\ standby = TRUE /\ rtp = FALSE /\ amp = FALSE
    /\ stopFailed = FALSE

\* The pin is raised before the bus is looked at.
cmd_test_motor(ready) ==
    /\ at = "idle"
    /\ at' = IF ready THEN "motor_standby" ELSE "idle"
    /\ lra_en' = TRUE
    /\ UNCHANGED <<chip, stopFailed>>

\* Register 0x01 is written with 0.
ExitStandby ==
    /\ at = "motor_standby" /\ at' = "motor_rtp"
    /\ \/ standby' = FALSE /\ rtp' = FALSE
       \/ UNCHANGED <<standby, rtp>>
    /\ UNCHANGED <<lra_en, amp, stopFailed>>

\* Mutant: a failure is tried again from the start.
EnterRtp_Retry ==
    /\ at = "motor_rtp"
    /\ \/ rtp' = TRUE /\ at' = "motor_amp"
       \/ rtp' \in {rtp, TRUE} /\ at' = "motor_standby"
    /\ UNCHANGED <<lra_en, standby, amp, stopFailed>>

\* The mode bits of register 0x01 are updated, its standby bit is not.
EnterRtp ==
    /\ at = "motor_rtp" /\ at' = "motor_amp"
    /\ rtp' \in {rtp, TRUE}
    /\ UNCHANGED <<lra_en, standby, amp, stopFailed>>

\* Mutant: a failure ends the command.
SetAmplitude_Return ==
    /\ at = "motor_amp"
    /\ \/ amp' = TRUE /\ at' = "motor_stop"
       \/ amp' \in {amp, TRUE} /\ at' = "idle"
    /\ UNCHANGED <<lra_en, standby, rtp, stopFailed>>

\* LRA mode, whose result nobody looks at, and full amplitude.
SetAmplitude ==
    /\ at = "motor_amp" /\ at' = "motor_stop"
    /\ amp' \in {amp, TRUE}
    /\ UNCHANGED <<lra_en, standby, rtp, stopFailed>>

Stop ==
    /\ at = "motor_stop" /\ at' = "idle"
    /\ \/ amp' = FALSE /\ stopFailed' = FALSE
       \/ amp' \in {amp, FALSE} /\ stopFailed' = TRUE
    /\ UNCHANGED <<lra_en, standby, rtp>>

Step == ExitStandby \/ EnterRtp \/ SetAmplitude \/ Stop

\* The power of the chip goes.
Lose == lra_en' = FALSE /\ ChipReset /\ stopFailed' = FALSE

\* The processor stops: the chip stays as it is, unless the pin, which is an
\* input again, lets it go.
Release ==
    /\ \/ UNCHANGED <<lra_en, chip>>
       \/ lra_en' = FALSE /\ (UNCHANGED chip \/ ChipReset)
    /\ UNCHANGED stopFailed

-------------------------------------------------------------------------------
(* Properties *)

TypeOK ==
    /\ lra_en \in BOOLEAN /\ standby \in BOOLEAN /\ rtp \in BOOLEAN
    /\ amp \in BOOLEAN /\ stopFailed \in BOOLEAN

\* Outside a motor command the motor turns only if the write that stops it
\* failed: no other failure, return or reset leaves it running.
MotorStill == at \notin Places /\ Vibrating => stopFailed

\* What carries it from command to command: the amplitude.
AmplitudeKept == at # "motor_stop" /\ amp => stopFailed

===============================================================================
