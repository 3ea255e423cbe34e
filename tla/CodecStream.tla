------------------------------ MODULE CodecStream ------------------------------
(***************************************************************************)
(* Audio: src/test_codec.c.                                                *)
(*                                                                         *)
(* main calls init_audio once: it programs the codec over I2C and          *)
(* configures the I2S transmitter.  The shell thread then runs test_codec, *)
(* Repeats times for each command: start the stream, write one block, let  *)
(* it play, drop the stream.  Between the calls the I2S interrupt sends    *)
(* what is queued, and stops the stream with an error when nothing is.     *)
(* The codec is the master of the I2S clock: no block moves unless it has  *)
(* been programmed and the watch gives it MCLK.                            *)
(*                                                                         *)
(* Every block is the one static table of audio_file.h.  The transmitter   *)
(* frees it to a memory slab that it was not taken from.                   *)
(***************************************************************************)
EXTENDS Integers

CONSTANTS
    NumRegs,   \* register writes of the init table
    Repeats,   \* tests in one command
    TxBlocks,  \* blocks the transmitter's queue has room for
    Builds     \* sample rate (Hz) and master clock (200 Hz) of a build

MASTER_CLOCK_FREQ_2MHZ == 10000

ASSUME CodecAssumption ==
    /\ NumRegs \in Nat \ {0} /\ Repeats \in Nat \ {0} /\ TxBlocks \in Nat \ {0}
    /\ Builds \subseteq [rate : Nat, clock : Nat]
    /\ \A b \in Builds : b.clock > MASTER_CLOCK_FREQ_2MHZ

VARIABLES
    pc,        \* the next call of the thread that is in test_codec.c
    written,   \* entries of the init table that are in the codec
    build,     \* the rate and the clock the firmware was compiled for
    pll,       \* the PLL registers that hold what init_i2c computed
    audioRet,  \* what init_audio told main
    mclk,      \* MCLK is on
    stream,    \* the state of the I2S transmitter
    queue,     \* blocks the transmitter has and has not sent
    head,      \* the first word of i2s_test_data
    free_list, \* the first block of the slab's free list
    tests,     \* tests the command still has to make
    result,    \* history: what the last test_codec returned
    dropless,  \* history: a test that had started returned without a drop
    whole      \* history: blocks sent that were the table as compiled

codec == <<written, pll, build>>
table == <<head, free_list>>
i2s == <<stream, queue, table, whole>>
history == <<result, dropless>>
vars == <<pc, audioRet, mclk, tests, codec, i2s, history>>

-------------------------------------------------------------------------------
(* The table and the transmitter *)

\* What the compiler puts into the first word of the table.
i2s_test_data == "tone"

\* START is taken in the state ready only, and may fail there too.
Started == stream = "ready" /\ stream' = "running"
StartFails == stream' \in (IF stream = "ready" THEN {"ready", "error"} ELSE {stream})

\* A write is taken in the states ready and running, when there is room.
CanWrite == stream \in {"ready", "running"} /\ queue < TxBlocks

\* k_mem_slab_free of the table: its first word is made to point to what was
\* the first free block, which is the table itself from the second time on.
Free ==
    /\ head' = free_list
    /\ free_list' = "table"

\* DROP frees what is queued and makes the transmitter ready.
Drop ==
    /\ stream # "unconfigured" /\ stream' = "ready" /\ queue' = 0
    /\ IF queue > 0 THEN Free ELSE UNCHANGED table
    /\ UNCHANGED whole

Clocked == written = NumRegs /\ mclk

\* A block is freed when it has been sent.
Send ==
    /\ stream = "running" /\ Clocked /\ queue > 0
    /\ queue' = queue - 1
    /\ whole' = IF head = i2s_test_data THEN whole + 1 ELSE whole
    /\ Free
    /\ UNCHANGED <<pc, audioRet, mclk, tests, codec, stream, history>>

Underrun ==
    /\ stream = "running" /\ Clocked /\ queue = 0
    /\ stream' = "error"
    /\ UNCHANGED <<pc, audioRet, mclk, tests, codec, queue, table, whole, history>>

-------------------------------------------------------------------------------
(* The PLL: arithmetic of init_i2c, with frequencies in units of 200 Hz *)

SysClock(rate) ==
    IF rate \in {8000, 16000, 24000, 32000, 48000, 96000} THEN 61440 ELSE 56448

SAMPLE_BIT_WIDTH == 16

\* The setting of the register, and the divider it stands for in the code.
InDivider(clock) ==
    CASE clock > 10000 /\ clock <= 50000   -> [indiv |-> 0, inputDiv |-> 2]
      [] clock > 50000 /\ clock <= 100000  -> [indiv |-> 4, inputDiv |-> 4]
      [] clock > 100000 /\ clock <= 200000 -> [indiv |-> 8, inputDiv |-> 8]
      [] OTHER                            -> [indiv |-> 12, inputDiv |-> 16]

Dividend(b) == SysClock(b.rate) * SAMPLE_BIT_WIDTH * InDivider(b.clock).inputDiv

\* Mutant: the fraction is cut to the byte that takes its lower half.
PllFractional_Narrow(b) ==
    (((Dividend(b) % b.clock) * 8192) \div b.clock) % 256

\* The Q13 quotient of Dividend and the clock, a uint8_t and thirteen bits.
PllInteger(b) == (Dividend(b) \div b.clock) % 256
PllFractional(b) == ((Dividend(b) % b.clock) * 8192) \div b.clock

-------------------------------------------------------------------------------
(* init_audio *)

Init ==
    /\ pc = "init_i2c" /\ audioRet = "none"
    /\ build \in Builds /\ written = 0 /\ pll = {} /\ mclk = FALSE
    /\ head = i2s_test_data /\ free_list = "slab" /\ whole = 0
    /\ stream = "unconfigured" /\ queue = 0 /\ tests = 0
    /\ result = "none" /\ dropless = FALSE

\* One write of the init table.
WriteReg ==
    /\ pc = "init_i2c" /\ written < NumRegs
    /\ written' = written + 1
    /\ UNCHANGED <<pc, audioRet, mclk, tests, pll, build, i2s, history>>

\* A write that fails ends init_i2c with `false`, which is 0: init_audio takes
\* it for success and goes on.
WriteRegFails ==
    /\ pc = "init_i2c" /\ written < NumRegs
    /\ pc' = "init_codec"
    /\ UNCHANGED <<audioRet, mclk, tests, codec, i2s, history>>

PllRegisters == {"frac_top", "frac_bottom", "integer", "indiv"}

\* The results of the four writes that set the PLL are not looked at.
SetPll ==
    /\ pc = "init_i2c" /\ written = NumRegs
    /\ pll' \in SUBSET PllRegisters
    /\ pc' = "init_codec"
    /\ UNCHANGED <<audioRet, mclk, tests, written, build, i2s, history>>

\* Not ready counts as success; a failed i2s_configure does not.
init_codec ==
    /\ pc = "init_codec"
    /\ \/ stream' = "ready" /\ audioRet' = "ok"
       \/ UNCHANGED stream /\ audioRet' \in {"ok", "failed"}
    /\ pc' = "idle"
    /\ UNCHANGED <<mclk, tests, codec, queue, table, whole, history>>

-------------------------------------------------------------------------------
(* test_codec *)

cmd_test_codec ==
    /\ pc = "idle"
    /\ pc' = "start" /\ tests' = Repeats
    /\ UNCHANGED <<audioRet, mclk, codec, i2s, history>>

\* Mutant: the command goes on until a test succeeds.
Return_Retry(ret, drops) ==
    /\ result' = ret
    /\ dropless' = (dropless \/ ~drops)
    /\ IF ret = "OK"
       THEN tests' = tests - 1 /\ pc' = (IF tests > 1 THEN "start" ELSE "idle")
       ELSE pc' = "start" /\ UNCHANGED tests

\* Mutant: the count of tests runs to 0 and below.
Return_OneMore(ret, drops) ==
    /\ result' = ret
    /\ dropless' = (dropless \/ ~drops)
    /\ tests' = tests - 1
    /\ pc' = IF tests >= 0 THEN "start" ELSE "idle"

\* test_codec returns; cmd_test_codec calls it again whatever it returned.
Return(ret, drops) ==
    /\ result' = ret
    /\ dropless' = (dropless \/ ~drops)
    /\ tests' = tests - 1
    /\ pc' = IF tests > 1 THEN "start" ELSE "idle"

\* Mutant: the result of START is not looked at.
Start_Unchecked ==
    /\ pc = "start"
    /\ mclk' = TRUE /\ pc' = "write"
    /\ Started \/ StartFails
    /\ UNCHANGED <<audioRet, tests, codec, queue, table, whole, history>>

\* MCLK is switched on before the result of START is looked at.
Start ==
    /\ pc = "start"
    /\ mclk' = TRUE
    /\ \/ Started /\ pc' = "write" /\ UNCHANGED <<tests, history>>
       \/ StartFails /\ Return("error", TRUE)
    /\ UNCHANGED <<audioRet, codec, queue, table, whole>>

\* Mutant: the table is filled anew before it is written.
Write_Refilled ==
    /\ pc = "write" /\ CanWrite
    /\ queue' = queue + 1 /\ head' = i2s_test_data
    /\ pc' = "sleep"
    /\ UNCHANGED <<audioRet, mclk, tests, codec, stream, free_list, whole, history>>

\* The table is written as the blocks before have left it.
Write ==
    /\ pc = "write" /\ CanWrite
    /\ queue' = queue + 1
    /\ pc' = "sleep"
    /\ UNCHANGED <<audioRet, mclk, tests, codec, stream, table, whole, history>>

\* A failed write returns at once, with the stream as it is.
WriteFails ==
    /\ pc = "write" /\ ~CanWrite
    /\ Return("error", FALSE)
    /\ UNCHANGED <<audioRet, mclk, codec, i2s>>

Sleep ==
    /\ pc = "sleep" /\ pc' = "drop"
    /\ UNCHANGED <<audioRet, mclk, tests, codec, i2s, history>>

\* Mutant: the queue is kept, as STOP would.
DropStream_KeepQueue ==
    /\ pc = "drop"
    /\ \/ stream' = "ready" /\ Return("OK", TRUE) /\ UNCHANGED <<queue, table, whole>>
       \/ Return("error", FALSE) /\ UNCHANGED i2s
    /\ UNCHANGED <<audioRet, mclk, codec>>

DropStream ==
    /\ pc = "drop"
    /\ \/ Drop /\ Return("OK", TRUE)
       \/ Return("error", FALSE) /\ UNCHANGED i2s
    /\ UNCHANGED <<audioRet, mclk, codec>>

-------------------------------------------------------------------------------

init_audio == WriteReg \/ WriteRegFails \/ SetPll \/ init_codec

test_codec == Start \/ Write \/ WriteFails \/ Sleep \/ DropStream

Interrupt == Send \/ Underrun

Next == init_audio \/ cmd_test_codec \/ test_codec \/ Interrupt

Spec == Init /\ [][Next]_vars

\* No call of the thread waits for ever.
FairSpec == Spec /\ WF_vars(init_audio) /\ WF_vars(test_codec)

-------------------------------------------------------------------------------
(* Properties *)

\* Every variable keeps to its values: the transmitter's queue to its room, the
\* count of tests to what the command was given.
TypeOK ==
    /\ pc \in {"init_i2c", "init_codec", "idle", "start", "write", "sleep", "drop"}
    /\ audioRet \in {"none", "ok", "failed"}
    /\ build \in Builds /\ written \in 0 .. NumRegs
    /\ pll \subseteq PllRegisters /\ mclk \in BOOLEAN
    /\ head \in {i2s_test_data, "slab", "table"} /\ free_list \in {"slab", "table"}
    /\ whole \in Nat
    /\ stream \in {"unconfigured", "ready", "running", "error"}
    /\ queue \in 0 .. TxBlocks
    /\ tests \in 0 .. Repeats
    /\ result \in {"none", "OK", "error"} /\ dropless \in BOOLEAN

\* i2s_write, which may wait a second for room, always finds the queue empty:
\* the one static buffer is never queued twice.
WriteFindsRoom == pc = "write" => queue = 0

\* Once a test that had started returned without a drop, no test says OK again
\* before the next reset: START is refused for ever.
NoOkWithoutDrop == dropless => result = "error"

\* Only the first block of a boot is sent as it was compiled: each later one
\* begins with an address of the slab's.
SentWholeOnce == whole <= 1

\* The table is written by no one while it waits to be sent.
TableSteady == [][head' # head => queue' = 0]_vars

\* The codec divides MCLK by what indiv stands for, and multiplies it by the
\* divider: with all registers written that is SAMPLE_BIT_WIDTH times the system
\* clock, to within the last of the thirteen bits, for every clock above 2 MHz.
Tuned(b) ==
    LET ratio == <<2, 4, 8, 16>>[1 + InDivider(b.clock).indiv \div 4]
        rest == SysClock(b.rate) * SAMPLE_BIT_WIDTH * ratio - PllInteger(b) * b.clock
    IN  /\ 0 <= rest /\ rest < b.clock
        /\ PllFractional(b) * b.clock <= rest * 8192
        /\ rest * 8192 < (PllFractional(b) + 1) * b.clock
        /\ PllFractional(b) \div 256 < 256
PllInTune == pll = PllRegisters => Tuned(build)

\* What makes WriteFindsRoom and NoOkWithoutDrop inductive: the transmitter is
\* never ready again after a test left it running, and while it is ready
\* nothing is queued.
StreamKept ==
    /\ stream \in {"ready", "unconfigured"} => queue = 0
    /\ dropless => stream \in {"running", "error"}
                   /\ pc \in {"idle", "start"} /\ result = "error"
    /\ pc \in {"write", "sleep", "drop"} => stream \in {"running", "error"}
    /\ pc = "write" => queue = 0
    /\ pc \in {"init_i2c", "init_codec"} => stream = "unconfigured"
    /\ pc \in {"idle", "start"} /\ ~dropless => queue = 0

\* The shell gets its prompt back after every command.
CommandReturns == pc = "start" ~> pc = "idle"

===============================================================================
