------------------------------ MODULE PmicEvents ------------------------------
(***************************************************************************)
(* The power-management part of the watch: src/test_pmic.c.                *)
(*                                                                         *)
(* The nPM1300 latches events of its SHPHLD button and of the USB supply.  *)
(* A worker of the PMIC driver (the system work queue) takes the latched   *)
(* events and runs event_callback; the main thread at boot, and the shell  *)
(* thread later, run configure_events.  The two share vbus_connected with  *)
(* no lock.  Ship mode cuts the power of the whole watch; pressing the     *)
(* button or plugging USB starts it again from reset.  System off          *)
(* (src/test_systemoff.c) stops the processor only: the PMIC goes on.      *)
(***************************************************************************)
EXTENDS Integers

CONSTANTS
    PRESS_SHORT_MS,   \* a shorter hold is a short press
    PRESS_MEDIUM_MS,  \* a hold of at least this is a long press
    INT_HALF,         \* 2^31: the int press_t lies in -INT_HALF .. INT_HALF-1
    FaultyLdos,       \* load switches whose regulator calls may fail
    ReadySets,        \* the sets of ready devices a boot may end up with
    PromptWorker,     \* TRUE: the clock stands while events or a call wait
    MaxUptime         \* bound on the uptime

Ldos == {"ldo1", "ldo2"}
Devices == {"pmic", "regulators", "ldo1", "charger", "leds"}

Press == "SHIPHOLD_PRESS"
Release == "SHIPHOLD_RELEASE"
Detected == "VBUS_DETECTED"
Removed == "VBUS_REMOVED"
VbusEvents == {Detected, Removed}
Gestures == {Press, Release}
Events == Gestures \cup VbusEvents

FAST_FLASH_MS == "fast"
SLOW_FLASH_MS == "slow"

None == -1           \* no such time
NoGesture == "none"

ASSUME PmicAssumption ==
    /\ PRESS_SHORT_MS \in Nat \ {0}
    /\ PRESS_MEDIUM_MS \in Nat /\ PRESS_SHORT_MS < PRESS_MEDIUM_MS
    /\ INT_HALF \in Nat /\ PRESS_MEDIUM_MS < INT_HALF
    /\ FaultyLdos \subseteq Ldos
    /\ ReadySets \subseteq SUBSET Devices
    /\ PromptWorker \in BOOLEAN
    /\ MaxUptime \in Nat

VARIABLES
    \* The board: uptime, power, button, USB supply, readiness, and the load
    \* switches as the regulator driver has them.
    now, power, heldSince, usb, ldo, ready,
    \* The PMIC's event register, and the mask the worker has taken from it.
    latched, pins,
    \* Static variables of test_pmic.c (registered: event_cb is on the list).
    registered, press_t, vbus_connected, flash_time_ms,
    \* configure_events: where its caller is, and the supply status it read.
    conf, sample,
    \* History: a full hold since boot; the gesture that came last of those in
    \* `pins`; when the press of the hold that goes on was handled, and whether
    \* the release before it was in the same mask; the load switches are as
    \* another boot left them; a supply event raced with the read; the flag was
    \* upset.
    longHeld, newest, pressSeen, crossed, carried, raced, doubt

button == <<heldSince, longHeld>>
hold == <<newest, pressSeen, crossed>>
worker == <<pins, press_t, flash_time_ms, ldo, hold, carried>>
config == <<conf, sample, registered, ready>>
flag == <<vbus_connected, raced, doubt>>
vars == <<now, power, usb, latched, button, worker, config, flag>>

-------------------------------------------------------------------------------
(* Operators *)

\* Storing an int64 in the int press_t keeps its value modulo 2^32.
ToInt(x) == ((x + INT_HALF) % (2 * INT_HALF)) - INT_HALF

\* Mutants: VBUS_DETECTED tested last; an else-if chain after the gestures.
AfterMask_DetectedLast(connected, mask) ==
    Detected \in mask \/ (connected /\ Removed \notin mask)
AfterMask_ElseIf(connected, mask) ==
    IF mask \subseteq VbusEvents
    THEN (connected \/ Detected \in mask) /\ Removed \notin mask
    ELSE connected

\* The supply status after a mask is handled: VBUS_REMOVED is tested last.
AfterMask(connected, mask) ==
    (connected \/ Detected \in mask) /\ Removed \notin mask

Outstanding == IF registered THEN latched \cup pins ELSE {}

Latch(e) == latched' = latched \cup {e}

-------------------------------------------------------------------------------
(* Reset *)

Init ==
    /\ now = 0 /\ power = "on" /\ longHeld = FALSE
    /\ heldSince \in {None, 0} /\ usb \in BOOLEAN /\ ready \in ReadySets
    /\ ldo = [l \in Ldos |-> FALSE]
    /\ latched = {} /\ pins = {} /\ registered = FALSE
    /\ press_t = 0 /\ vbus_connected = FALSE /\ flash_time_ms = SLOW_FLASH_MS
    /\ conf = "boot" /\ sample = FALSE
    /\ newest = NoGesture /\ pressSeen = None /\ crossed = FALSE
    /\ carried = FALSE /\ raced = FALSE /\ doubt = FALSE

\* What the processor loses in every reset.  A button that is held stays so.
LoseMemory ==
    /\ now' = 0 /\ longHeld' = FALSE
    /\ pins' = {} /\ registered' = FALSE
    /\ press_t' = 0 /\ vbus_connected' = FALSE /\ flash_time_ms' = SLOW_FLASH_MS
    /\ conf' = "boot" /\ sample' = FALSE
    /\ newest' = NoGesture /\ pressSeen' = None /\ crossed' = FALSE
    /\ raced' = FALSE /\ doubt' = FALSE

HoldFromReset == IF heldSince = None THEN None ELSE 0

\* Ship mode ends when the button is pressed or USB is plugged.
Wake ==
    /\ power = "ship" /\ power' = "on"
    /\ \/ heldSince = None /\ heldSince' = 0 /\ UNCHANGED usb
       \/ ~usb /\ usb' = TRUE /\ heldSince' = HoldFromReset
    /\ ldo' = [l \in Ldos |-> FALSE] /\ carried' = FALSE
    /\ latched' = {} /\ ready' \in ReadySets
    /\ LoseMemory

\* Mutant: the program goes on after system off as if nothing had been lost.
SystemOff_Resumes ==
    /\ power = "on" /\ conf \in {"ok", "failed"}
    /\ power' = "off" /\ conf' = "boot" /\ carried' = TRUE
    /\ UNCHANGED <<now, usb, latched, button, pins, press_t, flash_time_ms, ldo,
                   hold, sample, registered, ready, flag>>

\* cmd_test_systemoff runs on the shell thread, never inside configure_events.
\* The PMIC goes on: it keeps its switches and latches what happens.
SystemOff ==
    /\ power = "on" /\ conf \in {"ok", "failed"}
    /\ power' = "off" /\ carried' = TRUE
    /\ heldSince' = HoldFromReset
    /\ LoseMemory
    /\ UNCHANGED <<usb, latched, ldo, ready>>

\* The button that test_systemoff.c has armed starts the processor again.  The
\* regulator driver may or may not find the switches on.
Restart ==
    /\ power = "off" /\ power' = "on"
    /\ ldo' \in {ldo, [l \in Ldos |-> FALSE]}
    /\ ready' \in ReadySets
    /\ UNCHANGED <<now, usb, latched, button, pins, press_t, flash_time_ms,
                   hold, carried, conf, sample, registered, flag>>

-------------------------------------------------------------------------------
(* The user and the clock *)

Tick ==
    /\ power = "on" /\ now < MaxUptime
    /\ PromptWorker => Outstanding = {} /\ conf \in {"ok", "failed"}
    /\ now' = now + 1
    /\ UNCHANGED <<power, usb, latched, button, worker, config, flag>>

PressButton ==
    /\ power # "ship" /\ heldSince = None
    /\ heldSince' = now
    /\ Latch(Press)
    /\ UNCHANGED <<now, power, usb, longHeld, worker, config, flag>>

ReleaseButton ==
    /\ heldSince # None
    /\ heldSince' = None
    /\ IF power # "ship"
       THEN /\ longHeld' = (longHeld \/ now - heldSince >= PRESS_MEDIUM_MS)
            /\ Latch(Release)
       ELSE UNCHANGED <<longHeld, latched>>
    /\ UNCHANGED <<now, power, usb, worker, config, flag>>

PlugUsb ==
    /\ power # "ship" /\ ~usb
    /\ usb' = TRUE
    /\ Latch(Detected)
    /\ doubt' = (Removed \in latched)
    /\ raced' = (raced \/ (conf = "sampled" /\ Removed \in latched))
    /\ UNCHANGED <<now, power, button, worker, config, vbus_connected>>

UnplugUsb ==
    /\ usb
    /\ usb' = FALSE
    /\ IF power # "ship" THEN Latch(Removed) ELSE UNCHANGED latched
    /\ doubt' = FALSE
    /\ UNCHANGED <<now, power, button, worker, config, vbus_connected, raced>>

-------------------------------------------------------------------------------
(* The worker *)

\* The gesture that came last, while its event is latched.
Newest == IF heldSince = None THEN Release ELSE Press

\* The driver's work handler takes every latched event at once: the mask does
\* not tell in which order they came.
FetchEvents ==
    /\ power = "on" /\ registered
    /\ pins = {} /\ latched # {}
    /\ pins' = latched /\ latched' = {}
    /\ newest' = IF Newest \in latched THEN Newest ELSE NoGesture
    /\ UNCHANGED <<now, power, usb, button, config, flag,
                   press_t, flash_time_ms, ldo, pressSeen, crossed, carried>>

\* Mutant: the state of ldo1 decides for both load switches.
Drive_ByLdo1(on) ==
    IF ldo["ldo1"] = on
    THEN UNCHANGED ldo
    ELSE \E failed \in SUBSET FaultyLdos :
            ldo' = [l \in Ldos |-> IF l \in failed THEN ldo[l] ELSE on]

\* Every load switch that is not yet `on` is driven there by its own call;
\* the next one is tried whether or not the call succeeded.
Drive(on) ==
    \E failed \in SUBSET {l \in FaultyLdos : ldo[l] # on} :
        ldo' = [l \in Ldos |-> IF l \in failed THEN ldo[l] ELSE on]

ShortPress ==
    /\ Drive(TRUE)
    /\ flash_time_ms' = FAST_FLASH_MS /\ carried' = FALSE
    /\ UNCHANGED power

MediumPress ==
    /\ Drive(FALSE)
    /\ flash_time_ms' = SLOW_FLASH_MS /\ carried' = FALSE
    /\ UNCHANGED power

\* The call that enters ship mode may fail; nothing looks at its result.
LongPress ==
    /\ IF vbus_connected THEN UNCHANGED power ELSE power' \in {"on", "ship"}
    /\ UNCHANGED <<ldo, flash_time_ms, carried>>

\* Mutants: a 64-bit press time; a press time taken only when none is there.
PressTime_Wide == IF Press \in pins THEN now ELSE press_t
PressTime_Once == IF Press \in pins /\ press_t = 0 THEN ToInt(now) ELSE press_t

\* press_t holds the time of the press until the release turns it into the
\* duration of the hold.
PressTime == IF Press \in pins THEN ToInt(now) ELSE press_t

\* Mutants: a duration that is not cut to 32 bits; a forgotten subtraction.
HoldTime_Wide == now - PressTime
HoldTime_Uptime == ToInt(now)
HoldTime == ToInt(now - PressTime)

Classify ==
    IF Release \notin pins
    THEN /\ press_t' = PressTime
         /\ UNCHANGED <<power, ldo, flash_time_ms, carried>>
    ELSE /\ press_t' = HoldTime
         /\ \/ HoldTime < PRESS_SHORT_MS /\ ShortPress
            \/ HoldTime >= PRESS_SHORT_MS /\ HoldTime < PRESS_MEDIUM_MS
               /\ MediumPress
            \/ HoldTime >= PRESS_MEDIUM_MS /\ LongPress

\* History: a mask whose last gesture is a press leaves that press to be ended.
Remember ==
    /\ newest' = NoGesture
    /\ IF pins \cap Gestures = {}
       THEN UNCHANGED <<pressSeen, crossed>>
       ELSE /\ pressSeen' = IF newest = Press THEN now ELSE None
            /\ crossed' = (newest = Press /\ Release \in pins)

event_callback ==
    /\ power = "on" /\ pins # {}
    /\ Classify
    /\ vbus_connected' = AfterMask(vbus_connected, pins)
    /\ Remember
    /\ raced' = (raced \/ (conf = "sampled" /\ pins \cap VbusEvents # {}))
    /\ pins' = {}
    /\ UNCHANGED <<now, usb, latched, button, config, doubt>>

-------------------------------------------------------------------------------
(* configure_events, and its two callers *)

\* init_pmic calls it once, from main; cmd_test_pmic whenever its user asks,
\* and only if the LEDs are ready.
DevicesReady == {"pmic", "regulators", "ldo1", "charger"} \subseteq ready

Called ==
    /\ power = "on"
    /\ conf = "boot" \/ (conf \in {"ok", "failed"} /\ "leds" \in ready)

NotReady ==
    /\ Called /\ ~DevicesReady
    /\ conf' = "failed"
    /\ UNCHANGED <<now, power, usb, latched, button, worker, flag,
                   sample, registered, ready>>

\* Mutant: the callback is never added.
AddCallback_Forgotten ==
    /\ Called /\ DevicesReady
    /\ conf' = "attached"
    /\ UNCHANGED <<now, power, usb, latched, button, worker, flag,
                   sample, registered, ready>>

\* History: a press that was handled, or is about to be, is no longer the one
\* the next release ends once a gesture after it is gone.
Forget ==
    /\ newest' = IF newest = Press THEN NoGesture ELSE newest
    /\ pressSeen' = IF pins \cap Gestures = {} THEN None ELSE pressSeen

\* Adding event_cb again leaves it on the list once.  The driver may discard
\* what was latched before.
AddCallback ==
    /\ Called /\ DevicesReady
    /\ conf' = "attached"
    /\ registered' = TRUE
    /\ latched' \in {latched, {}}
    /\ IF latched' \cap Gestures = latched \cap Gestures
       THEN UNCHANGED <<newest, pressSeen>>
       ELSE Forget
    /\ UNCHANGED <<now, power, usb, button, pins, press_t, flash_time_ms, ldo,
                   crossed, carried, flag, sample, ready>>

\* sensor_attr_get: the charger says whether USB supplies the watch.
ReadSupply ==
    /\ power = "on" /\ conf = "attached"
    /\ conf' = "sampled"
    /\ sample' = usb
    /\ raced' = ((latched \cup pins) \cap VbusEvents # {})
    /\ UNCHANGED <<now, power, usb, latched, button, worker, registered, ready,
                   vbus_connected, doubt>>

ReadSupplyFails ==
    /\ power = "on" /\ conf = "attached"
    /\ conf' = "failed"
    /\ UNCHANGED <<now, power, usb, latched, button, worker, flag,
                   sample, registered, ready>>

SetSupply ==
    /\ power = "on" /\ conf = "sampled"
    /\ conf' = "ok"
    /\ vbus_connected' = sample /\ sample' = FALSE
    /\ doubt' = raced /\ raced' = FALSE
    /\ UNCHANGED <<now, power, usb, latched, button, worker, registered, ready>>

-------------------------------------------------------------------------------

Worker == FetchEvents \/ event_callback

Configure ==
    NotReady \/ AddCallback \/ ReadSupply \/ ReadSupplyFails \/ SetSupply

Environment == Tick \/ PressButton \/ ReleaseButton \/ PlugUsb \/ UnplugUsb

Next == Wake \/ SystemOff \/ Restart \/ Environment \/ Worker \/ Configure

Spec == Init /\ [][Next]_vars

\* The work queue is served before every other thread, and a call of
\* configure_events that has begun returns.
Fairness ==
    /\ WF_vars(Worker)
    /\ WF_vars(ReadSupply \/ ReadSupplyFails \/ SetSupply)

FairSpec == Spec /\ Fairness

-------------------------------------------------------------------------------
(* Properties *)

\* Every variable keeps to the values its C object or device can hold.
TypeOK ==
    /\ now \in Nat /\ power \in {"on", "off", "ship"}
    /\ heldSince \in Nat \cup {None} /\ longHeld \in BOOLEAN
    /\ usb \in BOOLEAN /\ ldo \in [Ldos -> BOOLEAN] /\ ready \in SUBSET Devices
    /\ latched \in SUBSET Events /\ pins \in SUBSET Events
    /\ registered \in BOOLEAN /\ vbus_connected \in BOOLEAN
    /\ press_t \in -INT_HALF .. (INT_HALF - 1)
    /\ flash_time_ms \in {FAST_FLASH_MS, SLOW_FLASH_MS}
    /\ conf \in {"boot", "attached", "sampled", "ok", "failed"}
    /\ sample \in BOOLEAN /\ raced \in BOOLEAN /\ doubt \in BOOLEAN
    /\ newest \in Gestures \cup {NoGesture} /\ pressSeen \in Nat \cup {None}
    /\ crossed \in BOOLEAN /\ carried \in BOOLEAN

\* No supply event is on its way to the flag.
SupplySettled == (latched \cup pins) \cap VbusEvents = {}

\* Once configure_events has succeeded and every supply event is handled,
\* vbus_connected is right, unless an event raced with the read of the charger
\* or a removal and the plugging after it reached the worker in one mask.
VbusFlagExact ==
    power = "on" /\ conf = "ok" /\ SupplySettled /\ ~doubt
        => vbus_connected = usb

\* Where the flag will be when the outstanding masks are handled, from what it
\* is now or from what configure_events is about to store: the strengthening
\* that makes VbusFlagExact inductive.
Foreseen(connected) == AfterMask(AfterMask(connected, pins), latched)

VbusFlagForeseen ==
    power # "ship" =>
        /\ conf = "ok" /\ ~doubt => Foreseen(vbus_connected) = usb
        /\ conf = "sampled" /\ ~raced => Foreseen(sample) = usb

\* A load switch whose regulator works is on exactly when the last gesture was
\* a short press, whatever happened to the other one in the same gesture, but
\* not between a wake from system off and the first gesture after it.
RailsFollowGesture ==
    ~carried => \A l \in Ldos \ FaultyLdos : ldo[l] = (flash_time_ms = FAST_FLASH_MS)

\* When the worker handled the press that the last release in `pins` ends.
PressedAt == IF Press \in pins THEN now ELSE pressSeen

\* The release in `pins` ends a press that was handled, and that press did not
\* share an earlier mask with the release before it.
TimedRelease ==
    /\ newest = Release /\ PressedAt # None
    /\ Press \in pins \/ ~crossed

Handled(e) == power = "on" /\ e \in pins /\ pins' = {} /\ power' # "off"

\* A hold below 2^31 ms both ends of which were handled is measured exactly,
\* also when the 32-bit press_t has wrapped in between, unless its press was in
\* one mask with the release before it: the code tests the press first, and
\* that hold has lost its beginning (ShipNeedsLongHold shows the outcome).
HoldMeasured ==
    [][Handled(Release) /\ TimedRelease /\ now - PressedAt < INT_HALF
         => press_t' = now - PressedAt]_vars

\* Ship mode is entered by a release that comes in a later mask than its press,
\* on a hold of which the worker saw the full length, or whose press it never
\* handled, or whose press was in one mask with the release before it.
ShipMeasured ==
    [][power = "on" /\ power' = "ship"
         => /\ Press \notin pins
            /\ \/ now - pressSeen >= PRESS_MEDIUM_MS
               \/ pressSeen = None \/ crossed]_vars

\* While a handled press is being held, press_t is the time it was handled; if
\* its mask also held the release before it, press_t is 0 and the hold counts
\* from boot.
PressTimeKept ==
    pressSeen # None =>
        /\ pressSeen <= now
        /\ press_t = IF crossed THEN 0 ELSE ToInt(pressSeen)

\* Ship mode is entered only by what this boot has registered: the callbacks,
\* gestures and resets implement Power.
Supply == INSTANCE Power WITH armed <- registered
PowerSpec == Supply!Spec

\* When the supply stays as it is and nothing upset the flag, the flag ends up
\* telling the truth: the worker gets to every event.
SupplyTracked ==
    \A b \in BOOLEAN :
        <>[](power = "on" /\ conf = "ok" /\ usb = b /\ ~doubt)
            => <>[](vbus_connected = b)

\* What the source says of the program, and the program does not keep.

\* "Initialise vbus detection status": after it the flag follows the supply.
VbusFlagCurrent ==
    power = "on" /\ conf = "ok" /\ SupplySettled => vbus_connected = usb

\* "Ship mode entry not possible with USB connected".
ShipNeverOnUsb == power = "ship" /\ latched \cap VbusEvents = {} => ~usb

\* PRESS_MEDIUM_MS: only a hold that long is a long press.
ShipNeedsLongHold == power = "ship" => longHeld

===============================================================================
