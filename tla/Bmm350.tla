-------------------------------- MODULE Bmm350 --------------------------------
(***************************************************************************)
(* The magnetometer: src/test_bmm350.c.                                    *)
(*                                                                         *)
(* main calls init_bmm350 once.  Each test_bmm350 command of the shell     *)
(* starts one forced measurement, sleeps, waits until the sensor is no     *)
(* longer busy, and reads the field and then the temperature.  The sensor  *)
(* measures on its own; any transfer on the I2C bus may fail.  Samples are *)
(* numbers of the sensor's least significant bits; the three axes are read *)
(* and converted alike, and stand here as one.                             *)
(***************************************************************************)
EXTENDS Integers

\* A sample is a signed number of 24 bits; the driver reads an unsigned one.
Modulus == 256 * 256 * 256
Sample == -(Modulus \div 2) .. (Modulus \div 2 - 1)
Reading == 0 .. (Modulus - 1)

CONSTANTS
    Fields,   \* what there is to measure: a field and its temperature
    Garbage   \* bytes nobody wrote: an uninitialised buffer

ASSUME BmmAssumption ==
    /\ Fields \subseteq [mag : Sample, temp : Sample] /\ Fields # {}
    /\ Garbage \notin Fields

UNKNOWN_ODR == 255   \* last_odr before the first setting
PMU_CMD_SUS == 0     \* with time = 0: suspend, AGGR_SET = 0

VARIABLES
    pc,         \* the next call of the thread that is in test_bmm350.c
    \* The sensor: the field around it, the measurement it is making, its
    \* data registers (Garbage: none yet) and its AGGR_SET register.
    field, measuring, data, aggr_set,
    last_odr,   \* static variable: the AGGR_SET value written last
    initRet,    \* what init_bmm350 told main
    mag, temp,  \* locals of test_bmm350: what it is going to print
    \* History of the running command: the fields there have been, and
    \* whether a transfer failed.
    seen, faulted

sensor == <<field, measuring, data, aggr_set>>
boot == <<last_odr, initRet>>
locals == <<mag, temp>>
vars == <<pc, sensor, boot, locals, seen, faulted>>

-------------------------------------------------------------------------------
(* The conversion *)

\* The sensor's three data bytes of a sample, the lowest first.
ToBytes(v) ==
    LET u == v % Modulus
    IN  <<u % 256, (u \div 256) % 256, u \div (256 * 256)>>

\* bmm3_mag_process, and the same in bmm3_temp_read: the bytes in an int32_t,
\* whose upper byte stays 0.
FromBytes(b) == b[3] * 256 * 256 + b[2] * 256 + b[1]

\* 25.49 degrees, in a temperature sample's least significant bits.
TEMP_OFFSET == 25976

\* The correction of the temperature, which goes towards zero.
Compensated(t) ==
    IF t > 0 THEN t - TEMP_OFFSET ELSE IF t < 0 THEN t + TEMP_OFFSET ELSE t

Corrected == (1 - TEMP_OFFSET) .. (Modulus - 1)

-------------------------------------------------------------------------------
(* The sensor and the field *)

FieldChanges ==
    /\ field' \in Fields \ {field}
    /\ seen' = seen \cup {field'}
    /\ UNCHANGED <<pc, measuring, data, aggr_set, boot, locals, faulted>>

Measured ==
    /\ measuring /\ measuring' = FALSE
    /\ data' = field
    /\ UNCHANGED <<pc, field, aggr_set, boot, locals, seen, faulted>>

-------------------------------------------------------------------------------
(* init_bmm350 *)

Init ==
    /\ pc = "init" /\ field \in Fields /\ measuring = FALSE
    /\ data = Garbage /\ aggr_set \in {PMU_CMD_SUS, UNKNOWN_ODR}
    /\ last_odr = UNKNOWN_ODR /\ initRet = 1
    /\ mag = Garbage /\ temp = Garbage
    /\ seen = {} /\ faulted = FALSE

\* Mutant: only the result of the last write is returned.
init_bmm350_LastErr ==
    /\ pc = "init" /\ pc' = "idle"
    /\ last_odr' = PMU_CMD_SUS
    /\ \E failed \in SUBSET {"OTP_CMD_REG", "PMU_CMD_AGGR_SET", "PMU_CMD"} :
          /\ aggr_set' = IF "PMU_CMD_AGGR_SET" \in failed
                         THEN aggr_set ELSE PMU_CMD_SUS
          /\ initRet' = IF "PMU_CMD" \notin failed THEN 0 ELSE -1
    /\ UNCHANGED <<field, measuring, data, locals, seen, faulted>>

\* Mutant: the results are added up and not or-ed.
init_bmm350_Sum ==
    /\ pc = "init" /\ pc' = "idle"
    /\ last_odr' = PMU_CMD_SUS
    /\ \E otp, aggr, cmd \in {0, -1} :
          /\ aggr_set' = IF aggr = -1 THEN aggr_set ELSE PMU_CMD_SUS
          /\ initRet' = otp + aggr + cmd
    /\ UNCHANGED <<field, measuring, data, locals, seen, faulted>>

\* bmm3_init(0): each of the three writes is tried whatever came of the ones
\* before, and last_odr is set before the register it stands for is written.
init_bmm350 ==
    /\ pc = "init" /\ pc' = "idle"
    /\ last_odr' = PMU_CMD_SUS
    /\ \E failed \in SUBSET {"OTP_CMD_REG", "PMU_CMD_AGGR_SET", "PMU_CMD"} :
          /\ aggr_set' = IF "PMU_CMD_AGGR_SET" \in failed
                         THEN aggr_set ELSE PMU_CMD_SUS
          /\ initRet' = IF failed = {} THEN 0 ELSE -1
    /\ UNCHANGED <<field, measuring, data, locals, seen, faulted>>

-------------------------------------------------------------------------------
(* test_bmm350 *)

cmd_test_bmm350 ==
    /\ pc = "idle" /\ pc' = "oneshot"
    /\ mag' = Garbage /\ temp' = Garbage
    /\ seen' = {field} /\ faulted' = FALSE
    /\ UNCHANGED <<sensor, boot>>

\* A failed write is printed, and the command goes on.
bmm3_mag_oneshot ==
    /\ pc = "oneshot" /\ pc' = "sleep"
    /\ \/ measuring' = TRUE /\ UNCHANGED faulted
       \/ faulted' = TRUE /\ UNCHANGED measuring
    /\ UNCHANGED <<field, data, aggr_set, boot, locals, seen>>

Sleep ==
    /\ pc = "sleep" /\ pc' = "mag_poll"
    /\ UNCHANGED <<sensor, boot, locals, seen, faulted>>

\* Mutant: the busy bit is not looked at.
PollDone_Blind(from, to) ==
    /\ pc = from /\ pc' = to
    /\ UNCHANGED <<sensor, boot, locals, seen, faulted>>

\* Mutant: the busy bit is taken for a ready bit.
PollDone_Inverted(from, to) ==
    /\ pc = from /\ measuring
    /\ pc' = to
    /\ UNCHANGED <<sensor, boot, locals, seen, faulted>>

\* The loops of bmm3_mag_read and bmm3_temp_read: a read of the status that
\* finds the sensor busy, or fails and leaves status as it was, is repeated.
PollDone(from, to) ==
    /\ pc = from /\ ~measuring
    /\ pc' = to
    /\ UNCHANGED <<sensor, boot, locals, seen, faulted>>

PollAgain(from) ==
    /\ pc = from
    /\ \/ measuring /\ UNCHANGED faulted
       \/ faulted' = TRUE
    /\ UNCHANGED <<pc, sensor, boot, locals, seen>>

\* A read of the data registers.  One that fails leaves the buffer
\* uninitialised, and it is converted all the same.
bmm3_mag_data ==
    /\ pc = "mag_data" /\ pc' = "temp_poll"
    /\ \/ /\ mag' = IF data = Garbage THEN Garbage
                    ELSE FromBytes(ToBytes(data.mag))
          /\ UNCHANGED faulted
       \/ UNCHANGED mag /\ faulted' = TRUE
    /\ UNCHANGED <<sensor, boot, temp, seen>>

bmm3_temp_data ==
    /\ pc = "temp_data" /\ pc' = "print"
    /\ \/ /\ temp' = IF data = Garbage THEN Garbage
                     ELSE Compensated(FromBytes(ToBytes(data.temp)))
          /\ UNCHANGED faulted
       \/ UNCHANGED temp /\ faulted' = TRUE
    /\ UNCHANGED <<sensor, boot, mag, seen>>

PrintSample ==
    /\ pc = "print" /\ pc' = "idle"
    /\ UNCHANGED <<sensor, boot, locals, seen, faulted>>

-------------------------------------------------------------------------------

MagDone == PollDone("mag_poll", "mag_data")
TempDone == PollDone("temp_poll", "temp_data")
Repeat == PollAgain("mag_poll") \/ PollAgain("temp_poll")

Straight ==
    \/ init_bmm350 \/ bmm3_mag_oneshot \/ Sleep
    \/ bmm3_mag_data \/ bmm3_temp_data \/ PrintSample

Next ==
    \/ FieldChanges \/ Measured
    \/ cmd_test_bmm350 \/ Straight
    \/ MagDone \/ TempDone \/ Repeat

Spec == Init /\ [][Next]_vars

\* The thread runs, the sensor finishes what it measures, and a status read
\* that is repeated for ever does not fail every time.
FairSpec ==
    /\ Spec
    /\ WF_vars(Straight) /\ WF_vars(Measured)
    /\ SF_vars(MagDone) /\ SF_vars(TempDone)

-------------------------------------------------------------------------------
(* Properties *)

\* Every variable keeps to its values.
TypeOK ==
    /\ pc \in {"init", "idle", "oneshot", "sleep", "mag_poll", "mag_data",
               "temp_poll", "temp_data", "print"}
    /\ field \in Fields /\ measuring \in BOOLEAN
    /\ data \in Fields \cup {Garbage}
    /\ aggr_set \in {PMU_CMD_SUS, UNKNOWN_ODR}
    /\ last_odr \in {PMU_CMD_SUS, UNKNOWN_ODR} /\ initRet \in {-1, 0, 1}
    /\ mag = Garbage \/ mag \in Reading
    /\ temp = Garbage \/ temp \in Corrected
    /\ seen \subseteq Fields /\ faulted \in BOOLEAN

\* What the code makes of a sample: nothing extends its sign.
Unsigned(v) == IF v >= 0 THEN v ELSE v + Modulus

\* When no transfer failed, the field and the temperature printed come from
\* one measurement, made while the command ran: they are its samples, 2^24 too
\* large where these are negative, and the temperature by 25.49 degrees less.
PrintedIsFresh ==
    pc = "print" /\ ~faulted =>
        \E f \in seen : /\ mag = Unsigned(f.mag)
                        /\ temp = IF f.temp = 0 THEN 0
                                  ELSE Unsigned(f.temp) - TEMP_OFFSET

\* When init_bmm350 succeeded, last_odr is what the sensor has.
OdrCacheHonest == initRet = 0 => last_odr = aggr_set

\* The shell gets its prompt back, on a bus that does not fail for ever.
CommandReturns == pc = "oneshot" ~> pc = "idle"

===============================================================================
