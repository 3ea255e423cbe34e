# A verification project for the nRF52840 watch firmware

The firmware is a Zephyr application that brings up the peripherals of a watch
and tests each of them from a shell that is reached over Bluetooth. The code
under `src/src/` is about 1600 lines of C and one table of audio samples. This
directory models it in TLA+, checks the models with TLC and proves the main
results with TLAPS.

Paths such as `test_pmic.c:112` are relative to `src/src/`.

## 1. The system

### Threads

| thread | runs | from |
|---|---|---|
| main | `test_init`: `init_pmic`, `init_audio`, `init_bmm350`, `init_bmp390`, `bluetooth_shell_init`; then sleeps for ever | `main.c:80-121` |
| shell | every `test_...` command, one after the other | `SHELL_CMD_REGISTER` in each file |
| system work queue | `event_callback`, called by the nPM1300 driver with a mask of events | `test_pmic.c:26-74` |
| Bluetooth host | `connected`, `disconnected`, and callbacks that only log | `bluetooth.c:28-110` |
| I2S interrupt | sends queued blocks, stops the stream with an error when there is none | driver of `test_codec.c` |

There is no lock in the program. What the threads share is `vbus_connected` and
`event_cb` (main, shell, work queue), `current_conn` (Bluetooth host only), and
the state of the drivers. Two things stop every thread: ship mode
(`test_pmic.c:60`), which cuts the power of the watch, and `sys_poweroff`
(`test_systemoff.c:50`).

### Components

| component | state | operations | what makes it correct |
|---|---|---|---|
| PMIC events (`test_pmic.c`) | `press_t`, `vbus_connected`, `flash_time_ms`, the two load switches, whether the callback is registered | `event_callback`, `configure_events` from `init_pmic` and from `test_pmic` | the flag tells whether USB supplies the watch; a hold is measured right; ship mode only on a long hold without USB; the load switches follow the gesture |
| Bluetooth shell (`bluetooth.c`) | `current_conn`, the reference counts of the connection objects, the connection the shell writes to | `bluetooth_shell_init`, `connected`, `disconnected` | references balance; the shell writes to a live connection; there is always an object left to advertise with |
| Audio (`test_codec.c`) | the codec's registers, the I2S stream and its queue, MCLK | `init_audio`, `test_codec` ten times for each command | the single static buffer is queued once at a time; a stream that was started is dropped; a command ends |
| Magnetometer (`test_bmm350.c`) | `last_odr`, the sensor's registers, two buffers that a failed read leaves uninitialised | `init_bmm350`, `test_bmm350` | what is printed was measured by the command; the cached setting is the sensor's; the waits end |
| Boot (`main.c`) | the last result, which call is next | `test_init` | nobody gives commands before it is over; a failure is reported |
| Pressure sensor (`test_bmp390.c`) | the power state of the device | `init_bmp390`, `test_bmp390` | suspended between commands |
| Flash test (`test_flash.c`) | one sector | erase, write, read, compare | "Good!!" only if the data is in the flash, from any content |
| Motor (`test_motor.c`) | enable pin, mode, amplitude | one command | the motor stops |
| Display (`test_lcd.c`) | backlight, blanking, one buffer | one command | drawing stays inside display and buffer; the loop ends |
| System off (`test_systemoff.c`) | power, the pull-up of a pin and the level it wakes at | one command | a press starts the watch again, a button at rest does not |
| Buttons (`test_button.c`) | the pull-ups of four pins | one command | leaves the wake-up pin usable |
| Accelerometer, light sensor | none | straight calls of a driver | each error ends the command |
| Board files, `prj.conf`, host tools | none at run time | | |

### How they interact

The nPM1300 latches events; its driver's work item takes all of them at once and
calls `event_callback` with the mask. `configure_events` registers that callback
and then reads the charger, so from its line 105 on it competes with the work
queue for `vbus_connected`. `event_callback` decides on ship mode with the flag
as it stood before the mask.

The Bluetooth host calls `connected` with a reference of its own to the
connection object; `connected` takes a second one and hands the connection to
the shell transport. `disconnected` gives back whichever reference
`current_conn` stands for.

`test_codec` drives the I2S driver from the shell thread while the interrupt
moves blocks, or does not: the codec is the clock master, so nothing moves
unless the codec was programmed at boot and the watch gives it MCLK.

All I2C peripherals share one bus driver, which is called from main at boot and
from the shell thread later; the two do not overlap, because Bluetooth is started
last (`BootBeforeCommands`). The work queue's calls may come between either's, and
the driver serialises them.

### What is hard here

* Events of the PMIC that arrive between two statements of `configure_events`,
  or together in one mask, where their order is lost.
* A 64-bit uptime kept in an `int` that is a time or a duration depending on
  what came last.
* Two connections over one pointer to "the" connection.
* Error paths that return early and leave a device, a stream or a callback
  behind; results that are not looked at; `false` returned where 0 is success.
* Loops that wait for a bit over a bus that may be broken.

`PROJECT.json` lists each hazard at its line with the property that covers it or
the reason why none does yet.

## 2. The modules

| module | models | extends / instantiates |
|---|---|---|
| `Power` | what the power management promises the rest (abstract) | |
| `PmicEvents` | `test_pmic.c`, and what system off does to it; implements `Power` | instance of `Power` |
| `MCPmicEvents` | instances of it | `PmicEvents` |
| `PmicProofs` | proofs, the refinement among them | `PmicEvents` |
| `ShellSession` | what the Bluetooth shell promises (abstract) | |
| `BtShell` | `bluetooth.c`; implements `ShellSession` | instance of `ShellSession` |
| `MCBtShell` | instances of it | `BtShell` |
| `BtProofs` | proofs, the refinement among them | `BtShell` |
| `CodecStream` | `test_codec.c`, `test_codec.h`, the table of `audio_file.h` | |
| `MCCodecStream` | instances of it | `CodecStream` |
| `CodecProofs` | proofs | `CodecStream` |
| `Bmm350` | `test_bmm350.c` | |
| `MCBmm350` | instances of it | `Bmm350` |
| `Bmm350Proofs` | proofs | `Bmm350` |
| `FlashTest` | `test_flash.c` | |
| `Motor` | `test_motor.c` | |
| `Sensors` | `test_bmp390.c`, `test_lsm6dso.c`, `test_opt300.c` | |
| `Watch` | `main.c`, `test_systemoff.c`, the pins of `test_button.c`: the composition | instances of `Power`, `ShellSession`, `FlashTest`, `Motor`, `Sensors` |
| `MCWatch` | instances of it | `Watch` |
| `WatchProofs` | proofs | `Watch` |
| `Lcd` | `test_lcd.c` | |
| `MCLcd` | instances of it | `Lcd` |
| `LcdProofs` | proofs | `Lcd` |

### PmicEvents

One action is one stretch of code that no other thread can cut in a way the
state shows. `event_callback` is one action: only the work queue runs it, and
the only variable it shares is assigned at its end. `configure_events` is four:
the readiness checks (`NotReady`), the registration (`AddCallback`), the read of
the charger (`ReadSupply`, `ReadSupplyFails`) and the assignment (`SetSupply`).
`Called` says when it may begin: once from `init_pmic`, and from `cmd_test_pmic`
when the LEDs are ready. `FetchEvents` is the driver taking the latched events.
`PressButton`, `ReleaseButton`, `PlugUsb`, `UnplugUsb` and `Tick` are the world.
`Wake` is a reset out of ship mode: every static variable is back at its initial
value (`LoseMemory`), and the button may be held or USB plugged when it happens.
`SystemOff` stops the processor alone: the PMIC keeps its load switches and goes
on latching events, which `Restart` finds. A button that is held through a reset
is held from the reset on, as far as the new boot can know (`HoldFromReset`).

`Power` is what the rest of the watch may rely on: ship mode is entered only by
what this boot has registered, system off stops the processor alone, and after
either the program starts anew.

`press_t` is kept modulo the width of an `int` (`ToInt`), with half the range a
constant. In `event_callback` the tests come in the source's order: press,
release, detected, removed. Regulator calls may fail for the load switches in
`FaultyLdos`, one by one.

History variables are read by properties only. `longHeld` and `doubt`, `raced` and
`carried` are about the holds, the flag and the load switches. Three are about the
order of the gestures, which the code does not see and the properties must:
`newest` is the gesture that came last of those in the worker's mask, `pressSeen`
is when the press that the next release ends was handled, and `crossed` says that
the release before it was in the same mask. A press that comes after a release is
therefore a handled press, whichever of the two the code tests first. The code gives
it a press time of 0, which `PressTimeKept` states. `HoldMeasured` and `ShipMeasured`
name it as an exception, and `ShipNeedsLongHold` shows what comes of it.

Taken from outside the source: the driver delivers all latched events in one
mask; it may discard what was latched before a registration; registering the
same callback again leaves it registered once; ship mode ends with the button or
USB; the call that enters it may fail, and when it does not, the power is gone.

### BtShell and ShellSession

`connected` and `disconnected` are operators named after the callbacks and used
in `Connect` and `Disconnect`; `ConnectFails` is the callback with an error.
`HostRelease` is the host dropping its own reference after the last callback.
`bluetooth_shell_init` makes five calls in order and stops at the first that
fails, which is why these runs do not check for deadlock: a watch whose
Bluetooth did not start really stops there.

`ShellSession` has no counts and no callbacks: peers arrive and leave, the shell
serves the one that came last until any of them leaves, and an arrival while
another has the shell costs that other one's object. `BtShell` implements it
with `peers` = the connections that are up, `session` = `current_conn`,
`spent` = `lost`. The security and pairing callbacks (`bluetooth.c:51-110`) are
left out: they write an address into a static buffer and log it at once, on
threads that do not preempt each other, and nothing reads the buffer later. The abstract module states what the code does for its users,
including the price; what `prj.conf` makes one expect is stated separately and
refuted (see below).

Taken from outside the source: a connection object is handed out when its count
is 0; advertising was not started as one-time, so the host keeps it up after a
connection while there is such an object; the shell transport takes no reference
of its own.

### CodecStream

`pc` is the next call of the one thread that is in the file: main in
`init_audio`, later the shell thread in `test_codec`. The init table is
`NumRegs` writes, any of which may fail. The I2S transmitter has the states of
Zephyr's I2S interface; START is refused outside the state ready, a write
outside ready and running, DROP always empties the queue. `Send` and `Underrun`
are the interrupt, and happen only when the codec gives a clock. START may also
fail in the state ready, which covers a driver that refuses to start a
transmitter with nothing queued, as `test_codec` asks it to. `Return` is the
return of `test_codec` into the loop of `cmd_test_codec`.

Every block is the one static table, which the driver frees to a memory slab it
was never taken from (`Free`): its first word is overwritten with the slab's
list, and the list then begins with the table. Of the table the model keeps that
first word (`head`): what the compiler put there, or an address. A block is
`BLOCK_SIZE` bytes and the table has `BLOCK_SIZE` entries of two bytes, so only
its first half is ever sent; the first word is in that half.

The PLL is computed as the code computes it, with frequencies in units of 200 Hz
to stay within TLC's integers; the two system clocks, every bound of the clock's
ranges and 44100 Hz are multiples of that. `Builds` are the rates and clocks a
firmware may be compiled for, all above 2 MHz; the theorem `IntegerFits` says
why. `SetPll` may lose any of the four register writes.

### Bmm350

Each transfer is an action with a disjunct in which it fails. A buffer that was
not written holds `Garbage`. The sensor measures by itself (`Measured`) and the
field changes at any time (`FieldChanges`). `PollDone` and `PollAgain` are the
two wait loops. Each read includes the conversion that follows it: `ToBytes` is
what the sensor's data registers hold of a 24-bit sample, `FromBytes` how the
driver puts the bytes together, `Compensated` the offset of 25.49 degrees.
Numbers are in least significant bits of the sensor, since scaling by a positive
factor changes nothing that is stated; the three axes are converted alike and
stand as one. `PrintedIsFresh` says which number is printed: the sample's, 2^24
too large if that is negative, since the code does not extend its sign
(`test_bmm350.c:139`); nothing in the repository promises otherwise, so this is
stated as what holds.

### Watch and its parts

`Watch` is the composition: the init calls of `test_init` in order (`Stages`,
`At`), each with its result, which the next overwrites (`Result`); connections;
one shell thread, which takes a command when a session is there and goes on
without one; system off and ship mode, each as one reset of everything it
reaches. The PMIC and the Bluetooth shell are there as the abstract
specifications `Power` and `ShellSession`, which `PmicEvents` and `BtShell` are
shown to implement: an invariant of `Watch` therefore holds of what the code
does. The audio, magnetometer and display commands share nothing with these and
stay in modules of their own.

`FlashTest`, `Motor` and `Sensors` are instantiated, so that their actions are
steps of `Watch`. A sector is the set of its bits that are cleared: an erase
empties the set, a write can only add to it, and whichever of them the power
cuts short (`Cut`) leaves anything, or some of the bits. `Motor` keeps the pin,
the two fields of register 0x01 and the amplitude; a transfer that failed may
have taken effect, except for the one that leaves standby and reports nothing
else. `Sensors` is a table of scripts (`Script`) of driver calls and one place
in it: `Fetch` fills the driver's buffer, `Call` takes from it or sets an
attribute, `Fails` ends the command, and the results of `Resume` and `Suspend`
are not looked at. Each of the three says what a reset does to it: the flash
keeps everything, the drivers nothing, and the motor's chip everything in system
off unless its enable pin lets it go.

`pulled` is the set of pins with a pull-up and `sense` the level at which each may
wake the processor. The first is written by `test_button` and by the first call of
`test_systemoff` (`PinConfigure`), the second by its second call (`PinInterrupt`).
`PinLevels` is what such a pin may read with its button pressed or not, and
`OffCanWake` asks that pressing wakes the watch and that nothing at rest does.

`test_systemoff.c` contradicts itself here, and the model follows the calls. The
comment of line 29 says "level active" and line 36 asks for
`GPIO_INT_LEVEL_INACTIVE`; the device tree declares the pin `GPIO_ACTIVE_HIGH`, so
that the code senses a low pin, which is what a button that pulls it to ground
gives. With the level of the comment (`PinInterrupt_Active`) the watch would start
again at once, and `OffCanWake` fails. The variable and the prints of lines 31 to 42
say `button1`; the pin is `button_2_pin` (line 14). Nothing outside that name says
which button was meant, so no property does.

`told` is main's verdict, the line "test init failed!" of `main.c:114`, and no more.
The parts print errors of their own where they fail (`test_pmic.c:121-144`,
`test_codec.c:115`, `bluetooth.c:121-147`) and `test_init` prints one for a result
that is not 0; those messages are left out. The question asked is what main makes
of the results.

Taken from outside the source: writing flash only clears bits; a suspended
sensor cannot be fetched; a device is ready or not for a whole boot; a command
is dispatched only while a session is there; a pressed button ties its pin to
ground; the processor leaves system off only by the level of a sensed pin, and that
reset takes the configuration of the pins with it.

### Lcd

The geometry (`RectW` to `BufSize`) is a set of pure operators over what
`display_get_capabilities` may say. The command is a chain of steps: the duty
cycle with the wrap of its `uint32_t` product (`PulseWidth`), the ways out
(`SetBacklightFails`, `NoBuffer`), the allocation, one turn of the loop (`Draw`)
and the end. Units: a period of 3906250 ns (1 s / 256 of the device tree) and
2^32 are divided by ten, `Period = 390625` and `Wrap = 429496730`, which TLC's
integers can multiply and which keeps the first duty cycle that wraps at 1100.
The driver refuses a pulse longer than its period, which is why 101 to 1099
change nothing.

## 3. The runs

| run | question | bounds | outcome |
|---|---|---|---|
| `pmic_events` | does the callback, with a slow worker and every race, keep flag and press time right, and is `Power` implemented? | press bounds 1 and 2, `int` of 6 values, uptime to 3, all devices ready, no faulty switch | passes |
| `pmic_supply` | does the flag end up right when the supply settles, and does each load switch follow the gestures? | slow worker, uptime to 1, calls for one switch may fail, some devices not ready in some boots | passes |
| `pmic_vbus_race` | is the flag right after "Initialise vbus detection status"? | prompt worker, uptime to 2 | violated |
| `pmic_ship_on_usb` | is "Ship mode entry not possible with USB connected" true? | prompt worker, uptime to 4 | violated |
| `pmic_ship_on_tap` | does only a hold of `PRESS_MEDIUM_MS` enter ship mode? | prompt worker, no LEDs | violated |
| `bt_shell` | do the references balance, is the shell's connection live, is an object left, is the session implemented? | three objects | passes |
| `bt_leak` | do all objects come back with `CONFIG_BT_MAX_CONN=2`? | two objects | violated |
| `codec_stream` | is the buffer queued once, whole once, and written by nobody while it waits; is a lost stream final; is the PLL in tune; does a command end? | 3 registers, 3 tests, room for 2 blocks, 16 builds | passes |
| `bmm350` | is what is printed one fresh measurement, and which number is it; is the cache honest; does a command end? | 3 fields | passes |
| `watch` | do the promises of flash, motor, sensors, wake-up pin and boot hold across commands, failures and both kinds of reset? | one connection, 2 bits of which 1 is to be cleared, all devices ready or one | passes |
| `boot_told` | does main's verdict say that a part did not come up? | same | violated |
| `lcd` | is every line drawn once from a buffer that is large enough, nothing held, the light as asked, and does the loop end? | 7 displays, 8 duty cycles | passes |

Why the bounds are enough. In `PmicEvents` an uptime of 3 with an `int` of 6
values lets the press time wrap while a button is held, and a hold of every
class fit before and across the wrap; masks of one to four events, both orders of
each pair and every step of `configure_events` against every step of the worker
occur. Three connection objects allow the pattern "came first, went second" that
two already show, with one to spare. In `CodecStream`, three tests are the first,
one in the middle and the last; room for two blocks is one more than the code
may ever need, so that a second block would be seen; the clocks are the first and
the last of each range. Three fields in `Bmm350` tell an old measurement, the
right one and a later field apart; their samples are of one to three bytes, of
both signs, zero, and the least and the greatest of 24 bits. In `Watch`, one bit that is to be cleared and
one that is not tell a lost erase from a lost write; nothing there depends on how
many connections there are, since a command needs only one; a boot with almost
nothing ready takes every early return. In `Lcd` the displays are the watch's
own, one with a last band that is cut, small ones in either direction, one that
is too flat to be drawn, one too large for the heap and one of an unknown format;
the duty cycles are on both sides of 100 and of the wrap.

`watch`, `boot_told` and the `bt_` runs do not check for deadlock: a watch that
does not advertise, or whose Bluetooth did not start, really does nothing more.

### Disagreements between the source and what it says

* `pmic_vbus_race` — `configure_events` reads the charger and assigns the result
  later; an event handled in between is overwritten.
* `pmic_ship_on_usb` — after a failed read of the charger the callback stays
  registered and the flag says "no USB", so a long press ships on USB.
* `pmic_ship_on_tap` — a release and the next press in one mask: `press_t` is
  consumed by the older release, and the next release computes a hold from boot.
* `bt_leak` — a second connection overwrites `current_conn` and its reference
  with it; that object never comes back. In the same situation either connection
  going takes the shell from the other (`ConnectedHasShell`); the theorem
  `OneAtATime` shows that both need a second connection.
* `boot_told` — main's verdict, "test init failed!", depends on `init_bmp390` alone:
  `init_pmic` returns 0 also after "Error: could not configure events", `init_i2c`
  returns `false`, that is 0, when a register write fails, the result of
  `bluetooth_shell_init` is not looked at and would be 0 anyway, and a later success
  overwrites an earlier failure. The part that failed has printed its own error; the
  boot is passed as good all the same.

Each is a run of its own that checks one property and finds it violated.
`VbusFlagExact`, `ShipMeasured` and `PoolNeverExhausted` are statements that do hold
next to the first four, and `VerdictIsBmp390` (section 5) is the one next to the last.

Two more that are proved or stated as what holds: only the first block of a boot
is sent as it was compiled (`SentWholeOnce`), and a duty cycle from 1100 on sets
a pulse that has nothing to do with it (the condition of `LitAsAsked`).

## 4. Fairness

* `PmicEvents`: weak fairness of the worker (the system work queue has a
  cooperative priority and its work item is submitted by the PMIC's interrupt)
  and of the rest of a `configure_events` that has begun (it does not block).
  Nothing is assumed of the user.
* `CodecStream`: weak fairness of the thread's calls. None of them waits without
  a limit: `i2s_write` has a timeout of a second and by `WriteFindsRoom` never
  needs it. Nothing is assumed of the interrupt: a command ends even if the codec
  never gives a clock.
* `Bmm350`: weak fairness of the thread and of the sensor, and strong fairness of
  a status read that finds the sensor ready, because the wait loops have no
  limit. That is an assumption about the bus, not a promise of the code: if every
  status read fails, `test_bmm350.c:151` never ends, since the error is looked at
  after the loop only.
* `Watch`: weak fairness of main and of the shell thread: every call they make has
  a timeout or does not wait. Nothing is assumed of peers, the user or the power;
  `CommandEnds` counts a command that
  is ended by a reset as ended.
* `Lcd`: weak fairness of the shell thread.
* `BtShell`: safety only.

## 5. The proofs

All of it holds for every value of the constants that satisfies the module's
assumption (`PmicAssumption`, `BtAssumption`, `CodecAssumption`,
`BmmAssumption`, `WatchAssumption`, `LcdAssumption`); `MaxUptime` and the sets of
devices are constants too.

Liveness under fairness is out of the prover's reach. What the code itself
contributes to it is not, and is proved: that the steps left are bounded, that
each step of the thread in question leaves fewer, and that no other step adds
any. `SupplyDrains`, `CommandShrinks` (of `Watch` and of `CodecStream`),
`OnlyWaitsRepeat` and `LinesDecrease` are these theorems, one for each liveness
property; what remains for TLC is the step from there, with the fairness of
section 4, to "eventually".

**PmicProofs.** `TypeCorrect`: `press_t` stays an `int`. `VbusFlagExact` is not
inductive, because it says nothing while events are outstanding. `Foreseen`
applies the mask the worker holds and then the latched one to the flag, or to
the value `configure_events` is about to assign; `VbusFlagForeseen` says that
the result is the state of the supply. It is inductive relative to `TypeOK`
(`ForeseenInductive`), and with nothing outstanding it is `VbusFlagExact`
(`FlagExact`). `RailsFollow` is inductive as it stands. For the holds,
`PressTimeKept` (`PressKept`) carries the time of the press modulo 2^32 to the
release, and `HoldSurvivesWrap` is the arithmetic: the difference of two values
cut to an `int` is exact when the true difference is below half the range. With
`crossed` the press time is 0 instead (`CrossedIsZero`, which `PressKept` rests on);
`NewestInMask` ties the history of the gestures to the mask. `HoldsMeasured` and
`ShipsMeasured` are the action properties that follow, with that case as a named
exception.
`SupplyRefinement` needs that the worker holds a mask only while the callback is
registered, and that nothing is registered while the processor is off.
`ShipOnUsbCauses` says how much of "Ship mode entry not possible with USB connected"
holds: `VbusFlagForeseen` at the step that enters ship mode leaves three causes and
no other, a `configure_events` that has not succeeded, an upset flag, and a plugging
that is in the mask of the release or still latched.
`CallbackBeforeRead` is the order in `configure_events` that keeps the race of
`pmic_vbus_race` the only one.

**BtProofs.** The invariant is `TypeOK`, `RefsAccounted`, `ShellHeld` and `Spare`
(one object has never been lost). `RefsAccounted` alone is not inductive:
`disconnected` drops a reference without looking at its argument, which is
covered only because `current_conn` is up and not among the lost. From it follow
`TypeCorrect`, `Accounted`, `Held`, `PoolLasts`, for a pool of any size, and
`Refinement`: each step of `BtShell` is a step of `ShellSession` or leaves it
unchanged. `OneAtATime` is about any pool: as long as no two connections are up
together (`AtMostOne`), no object is lost and whoever is connected has the shell.
`LostForGood` is the
other side: a lost object keeps the one reference that nobody holds.

**CodecProofs.** `Counting` (a test runs only while there is one to make) joins
`TypeOK`. `StreamKept` carries `WriteFindsRoom` and `NoOkWithoutDrop`: after a
test that left the stream running, the transmitter is never ready again, so
START fails and no test gets as far as a write. `TableKept` (the table is as
compiled as long as nothing was sent, and freed from the first block on) carries
`SentOnce`; `Steady` needs `StreamKept` as well, since at most one block is
queued. `IntegerFits` is the arithmetic of the divider: its integer part fits a
byte exactly when the clock is above 2 MHz, and `InTune` follows for every build.
`LostStreamStays` says what a stream left undropped does to the later commands.

**Bmm350Proofs.** `Measuring` follows the measurement of the running command from
the sensor into the numbers printed; `Set` says that nobody is told of success
before the sensor is set. `BytesRoundTrip` is the arithmetic of the conversion for
every sample, and `SignIsLost` what it means: a negative sample is read as a
number no sample has, and the branch of `test_bmm350.c:182` is dead. `Modulus`
is a name and not a literal because the provers take no number of that size.

**WatchProofs.** The properties of `Watch` need one invariant each, and first a
lemma that says which steps touch the part at all (`FlashSteps`, `MotorSteps`,
`SensorSteps`). `FlashKept` is inductive with its two conjuncts together: the
test has nothing to go by but its own erase. `MotorKept` rests on `AmplitudeKept`:
what carries the motor from command to command is the amplitude alone. `Booted`
ties advertising, connections and commands to main's place in `test_init`;
`BootFirst` follows. `Wakeable` ties the pull-up and the level of the wake-up pin to
the calls of system off; `PressWakes` follows. `Scripted` ties
the buffer to the place in a sensor's script; `ScriptKept` and `SensorsKept`
follow. `TypeCorrect` needs `Scripted` for the place. `SessionKept`
ties the composition to `ShellSession` from above, as `Refinement` does from below:
`Watch` asks no more of it than it offers. `Power` needs no such theorem, since
`Watch` moves it by its own actions only. `VerdictIsBmp390` is what holds next to
`boot_told`: the verdict is exact about the pressure sensor and says nothing of any
other part.

**LcdProofs.** The invariant is `TypeOK`, `Loop` (while a display is drawn the
buffer is the one worked out for it, and the bands have their full height up to
the last), `EveryLineOnce`, `Free` (no step before the allocation holds
anything) and `LitAsAsked`. `BufferLargeEnough` adds the arithmetic of the
formats (`PixelsOfBand`, `BufSizeHolds`, `LowerBand`) for every width, height and
format. `OnlyTheWrapPasses` needs a period of at least 100 (the code's is
3906250 ns; below 100 the division by 100 lets larger duty cycles round into the
period): the only duty above 100 that the driver accepts is one whose product
wrapped. `FlatNeverEnds` shows that the bound of five lines in `DrawingEnds` is
exact.

Model-checked only: liveness (`SupplyTracked`, `CommandEnds`,
`DrawingEnds` and the two `CommandReturns`), because tlapm has no rules for
fairness and `ENABLED`, and all violations. No module has a recursive operator.

The three violated PMIC runs let the clock stand while events wait
(`PromptWorker`), so that they show the order of events and not a slow worker.

## 6. Not modelled

* The scale factors of the magnetometer's samples and the formatting of what is
  printed (`test_bmm350.c:142, 178, 205`).
* `clock_init` (`main.c:10-75`), `lsm6dso_powerdown` and `bmm3_shutdown`, which
  nothing calls, and the output data rates for a time above 0, which
  `init_bmm350` never asks for.
* `bluetooth.c:51-110`, the callbacks that only log.
* The levels `test_button.c` reads and prints, and the messages by which the parts
  report their own failures.
* The samples of `audio_file.h`: 2200 of the 2500 lines of the files that are not
  tests by name are this table. It is one value of `CodecStream`; a model of more
  of it would be a copy of data.
* The board files, the device tree, `prj.conf` (its numbers are constants of the
  models) and the scripts under `tools/`, which share no state with the firmware.

## 7. What could follow

The refinements tie `PmicEvents` and `BtShell` to `Watch` through abstract
specifications that are checked and proved; the same could be done for
`CodecStream`, `Bmm350` and `Lcd`, which today share nothing with the rest that a
property could tell apart. The liveness of `Watch` could be refined into the
promises of each driver call. With a prover that knows fairness the ranking
theorems of section 5 become the liveness properties. Should the firmware get a lock, a second command
thread or a bus that is shared at boot, `BootBeforeCommands` is where to start.
