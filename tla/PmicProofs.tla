------------------------------ MODULE PmicProofs ------------------------------
(* What TLAPS proves of PmicEvents, for every value of its constants. *)
EXTENDS PmicEvents, TLAPS

\* A stored press time is an int.
LEMMA ToIntRange ==
    ASSUME NEW x \in Int
    PROVE  ToInt(x) \in -INT_HALF .. (INT_HALF - 1)
<1>. DEFINE m == 2 * INT_HALF
<1>1. INT_HALF \in Nat /\ INT_HALF > 0  BY PmicAssumption
<1>2. m \in Nat /\ m > 0  BY <1>1
<1>3. (x + INT_HALF) % m \in 0 .. (m - 1)
  <2>. HIDE DEF m
  <2>. QED  BY <1>1, <1>2
<1>. QED  BY <1>1, <1>3 DEF ToInt


\* The integers that pass through press_t stay ints.
LEMMA PressIsInt ==
    ASSUME TypeOK
    PROVE  /\ PressTime \in -INT_HALF .. (INT_HALF - 1)
           /\ HoldTime \in -INT_HALF .. (INT_HALF - 1)
<1>1. now \in Int /\ press_t \in -INT_HALF .. (INT_HALF - 1) /\ INT_HALF \in Int
  BY PmicAssumption DEF TypeOK
<1>2. PressTime \in -INT_HALF .. (INT_HALF - 1)
  BY <1>1, ToIntRange DEF PressTime
<1>3. now - PressTime \in Int  BY <1>1, <1>2
<1>. QED  BY <1>2, <1>3, ToIntRange DEF HoldTime

\* What the load switches hold after a gesture.
LEMMA DriveType ==
    ASSUME TypeOK, NEW on \in BOOLEAN, Drive(on)
    PROVE  ldo' \in [Ldos -> BOOLEAN]
BY DEF TypeOK, Drive

\* Every variable keeps to the values its C object or device can hold.
THEOREM TypeCorrect == Spec => []TypeOK
<1>1. Init => TypeOK
  <2>. SUFFICES ASSUME Init PROVE TypeOK
    OBVIOUS
  <2>1. ready \in SUBSET Devices  BY PmicAssumption DEF Init
  <2>2. ldo \in [Ldos -> BOOLEAN]  BY DEF Init
  <2>3. press_t \in -INT_HALF .. (INT_HALF - 1)  BY PmicAssumption DEF Init
  <2>4. heldSince \in Nat \cup {None} /\ pressSeen \in Nat \cup {None}
    BY DEF Init
  <2>5. latched \in SUBSET Events /\ pins \in SUBSET Events  BY DEF Init
  <2>6. /\ longHeld \in BOOLEAN /\ usb \in BOOLEAN /\ registered \in BOOLEAN
        /\ vbus_connected \in BOOLEAN /\ sample \in BOOLEAN
        /\ raced \in BOOLEAN /\ doubt \in BOOLEAN /\ carried \in BOOLEAN
        /\ newest = NoGesture /\ crossed \in BOOLEAN
    BY DEF Init
  <2>7. /\ now \in Nat /\ power = "on" /\ conf = "boot"
        /\ flash_time_ms = SLOW_FLASH_MS
    BY DEF Init
  <2>. QED  BY <2>1, <2>2, <2>3, <2>4, <2>5, <2>6, <2>7 DEF TypeOK
<1>2. TypeOK /\ [Next]_vars => TypeOK'
  <2>. SUFFICES ASSUME TypeOK, [Next]_vars PROVE TypeOK'
    OBVIOUS
  <2>. USE DEF TypeOK, button, hold, worker, config, flag, Latch
  <2>1. ASSUME LoseMemory
        PROVE  /\ press_t' \in -INT_HALF .. (INT_HALF - 1)
               /\ longHeld' \in BOOLEAN /\ registered' \in BOOLEAN
               /\ vbus_connected' \in BOOLEAN /\ sample' \in BOOLEAN
               /\ raced' \in BOOLEAN /\ doubt' \in BOOLEAN
               /\ pins' \in SUBSET Events /\ now' \in Nat /\ conf' = "boot"
               /\ flash_time_ms' = SLOW_FLASH_MS /\ pressSeen' = None
               /\ newest' = NoGesture /\ crossed' = FALSE
    <3>1. press_t' \in -INT_HALF .. (INT_HALF - 1)
      BY <2>1, PmicAssumption DEF LoseMemory
    <3>. QED  BY <2>1, <3>1 DEF LoseMemory
  <2>11. CASE Wake
    <3>1. ready' \in SUBSET Devices  BY <2>11, PmicAssumption DEF Wake
    <3>2. heldSince' \in Nat \cup {None}
      BY <2>11 DEF Wake, HoldFromReset
    <3>3. ldo' \in [Ldos -> BOOLEAN]  BY <2>11 DEF Wake
    <3>4. /\ usb' \in BOOLEAN /\ carried' \in BOOLEAN /\ power' = "on"
          /\ latched' \in SUBSET Events /\ LoseMemory
      BY <2>11 DEF Wake
    <3>. QED  BY <2>1, <3>1, <3>2, <3>3, <3>4
  <2>12. CASE SystemOff
    <3>1. heldSince' \in Nat \cup {None}
      BY <2>12 DEF SystemOff, HoldFromReset
    <3>2. /\ power' = "off" /\ carried' \in BOOLEAN /\ LoseMemory
          /\ UNCHANGED <<usb, latched, ldo, ready>>
      BY <2>12 DEF SystemOff
    <3>. QED  BY <2>1, <3>1, <3>2
  <2>13. CASE Restart
    <3>1. ready' \in SUBSET Devices  BY <2>13, PmicAssumption DEF Restart
    <3>2. ldo' \in [Ldos -> BOOLEAN]  BY <2>13 DEF Restart
    <3>3. /\ power' = "on"
          /\ UNCHANGED <<now, usb, latched, button, pins, press_t, flash_time_ms,
                         hold, carried, conf, sample, registered, flag>>
      BY <2>13 DEF Restart
    <3>. QED  BY <3>1, <3>2, <3>3
  <2>2. CASE Tick  BY <2>2 DEF Tick
  <2>3. CASE PressButton  BY <2>3 DEF PressButton, Events, Gestures
  <2>4. CASE ReleaseButton
    <3>1. latched' \in SUBSET Events  BY <2>4 DEF ReleaseButton, Events, Gestures
    <3>2. longHeld' \in BOOLEAN  BY <2>4 DEF ReleaseButton
    <3>3. heldSince' \in Nat \cup {None}  BY <2>4 DEF ReleaseButton
    <3>. QED  BY <2>4, <3>1, <3>2, <3>3 DEF ReleaseButton
  <2>5. CASE PlugUsb
    <3>1. latched' \in SUBSET Events  BY <2>5 DEF PlugUsb, Events, VbusEvents
    <3>2. doubt' \in BOOLEAN /\ raced' \in BOOLEAN  BY <2>5 DEF PlugUsb
    <3>. QED  BY <2>5, <3>1, <3>2 DEF PlugUsb
  <2>6. CASE UnplugUsb
    <3>1. latched' \in SUBSET Events
      BY <2>6 DEF UnplugUsb, Events, VbusEvents
    <3>2. usb' \in BOOLEAN /\ doubt' \in BOOLEAN
      BY <2>6 DEF UnplugUsb
    <3>3. UNCHANGED <<now, power, button, worker, config, vbus_connected, raced>>
      BY <2>6 DEF UnplugUsb
    <3>4. /\ now' \in Nat /\ power' \in {"on", "off", "ship"}
          /\ heldSince' \in Nat \cup {None} /\ longHeld' \in BOOLEAN
      BY <3>3
    <3>. QED  BY <3>1, <3>2, <3>3, <3>4
  <2>7. CASE FetchEvents
    <3>1. newest' \in Gestures \cup {NoGesture}
      BY <2>7 DEF FetchEvents, Newest, Gestures
    <3>. QED  BY <2>7, <3>1 DEF FetchEvents
  <2>8. CASE event_callback
    <3>1. press_t' \in -INT_HALF .. (INT_HALF - 1)
      BY <2>8, PressIsInt DEF event_callback, Classify
    <3>2. /\ ldo' \in [Ldos -> BOOLEAN] /\ power' \in {"on", "ship"}
          /\ flash_time_ms' \in {FAST_FLASH_MS, SLOW_FLASH_MS}
          /\ carried' \in BOOLEAN
      BY <2>8, DriveType
      DEF event_callback, Classify, ShortPress, MediumPress, LongPress
    <3>3. vbus_connected' \in BOOLEAN /\ raced' \in BOOLEAN
      BY <2>8 DEF event_callback, AfterMask
    <3>4. /\ pressSeen' \in Nat \cup {None} /\ pins' \in SUBSET Events
          /\ newest' = NoGesture /\ crossed' \in BOOLEAN
      BY <2>8 DEF event_callback, Remember
    <3>. QED  BY <2>8, <3>1, <3>2, <3>3, <3>4 DEF event_callback
  <2>9. CASE Configure
    <3>1. CASE NotReady  BY <3>1 DEF NotReady
    <3>2. CASE AddCallback
      <4>1. latched' \in SUBSET Events  BY <3>2 DEF AddCallback
      <4>2. newest' \in {newest, NoGesture} /\ pressSeen' \in {pressSeen, None}
        BY <3>2 DEF AddCallback, Forget
      <4>. QED  BY <3>2, <4>1, <4>2 DEF AddCallback
    <3>3. CASE ReadSupply
      <4>1. raced' \in BOOLEAN  BY <3>3 DEF ReadSupply
      <4>. QED  BY <3>3, <4>1 DEF ReadSupply
    <3>4. CASE ReadSupplyFails  BY <3>4 DEF ReadSupplyFails
    <3>5. CASE SetSupply  BY <3>5 DEF SetSupply
    <3>. QED  BY <2>9, <3>1, <3>2, <3>3, <3>4, <3>5 DEF Configure
  <2>10. CASE UNCHANGED vars  BY <2>10 DEF vars
  <2>. QED
    BY <2>11, <2>12, <2>13, <2>2, <2>3, <2>4, <2>5, <2>6, <2>7, <2>8, <2>9, <2>10
    DEF Next, Environment, Worker
<1>. QED  BY <1>1, <1>2, PTL DEF Spec

-------------------------------------------------------------------------------
(* The supply flag *)

\* A mask without supply events leaves the flag as it is.
LEMMA QuietMask ==
    ASSUME NEW c \in BOOLEAN, NEW mask, mask \cap VbusEvents = {}
    PROVE  AfterMask(c, mask) = c
BY DEF AfterMask, VbusEvents

\* VbusFlagForeseen is inductive relative to TypeOK.
THEOREM ForeseenInductive ==
    TypeOK /\ VbusFlagForeseen /\ [Next]_vars => VbusFlagForeseen'
<1>. SUFFICES ASSUME TypeOK, VbusFlagForeseen, [Next]_vars, power' # "ship"
              PROVE  /\ conf' = "ok" /\ ~doubt' => Foreseen(vbus_connected)' = usb'
                     /\ conf' = "sampled" /\ ~raced' => Foreseen(sample)' = usb'
  BY DEF VbusFlagForeseen
<1>. USE DEF button, worker, config, flag
<1>1. CASE Wake \/ SystemOff \/ Restart
  <2>1. CASE Wake \/ SystemOff  BY <2>1 DEF Wake, SystemOff, LoseMemory
  <2>2. CASE Restart
    <3>1. /\ power # "ship" /\ usb' = usb /\ conf' = conf /\ doubt' = doubt
          /\ raced' = raced /\ sample' = sample /\ pins' = pins
          /\ latched' = latched /\ vbus_connected' = vbus_connected
      BY <2>2 DEF Restart
    <3>. QED  BY <3>1 DEF VbusFlagForeseen, Foreseen, AfterMask
  <2>. QED  BY <1>1, <2>1, <2>2
<1>2. CASE Tick \/ UNCHANGED vars
  <2>1. /\ power # "ship" /\ usb' = usb /\ conf' = conf /\ doubt' = doubt
        /\ raced' = raced /\ sample' = sample /\ pins' = pins
        /\ latched' = latched /\ vbus_connected' = vbus_connected
    BY <1>2 DEF Tick, vars
  <2>. QED  BY <2>1 DEF VbusFlagForeseen, Foreseen, AfterMask
<1>3. CASE PressButton \/ ReleaseButton
  <2>1. /\ power # "ship" /\ usb' = usb /\ conf' = conf /\ doubt' = doubt
        /\ raced' = raced /\ sample' = sample /\ pins' = pins
        /\ vbus_connected' = vbus_connected
        /\ latched' \in {latched \cup {Press}, latched \cup {Release}}
    BY <1>3 DEF PressButton, ReleaseButton, Latch
  <2>2. \A e \in VbusEvents : e \in latched' <=> e \in latched
    BY <2>1 DEF VbusEvents, Press, Release, Detected, Removed
  <2>. QED  BY <2>1, <2>2 DEF VbusFlagForeseen, Foreseen, AfterMask, VbusEvents
<1>4. CASE PlugUsb
  <2>1. /\ conf' = conf /\ sample' = sample /\ vbus_connected' = vbus_connected
        /\ pins' = pins /\ Detected \in latched' /\ usb' = TRUE
        /\ Removed \in latched' <=> Removed \in latched
    BY <1>4 DEF PlugUsb, Latch, Detected, Removed
  <2>2. doubt' = (Removed \in latched)
    BY <1>4 DEF PlugUsb
  <2>3. raced' = (raced \/ (conf = "sampled" /\ Removed \in latched))
    BY <1>4 DEF PlugUsb
  <2>. QED  BY <2>1, <2>2, <2>3 DEF Foreseen, AfterMask
<1>5. CASE UnplugUsb
  <2>1. /\ conf' = conf /\ usb' = FALSE /\ Removed \in latched'
    BY <1>5 DEF UnplugUsb, Latch
  <2>. QED  BY <2>1 DEF Foreseen, AfterMask
<1>6. CASE FetchEvents
  <2>1. /\ power = "on" /\ usb' = usb /\ conf' = conf /\ doubt' = doubt
        /\ raced' = raced /\ sample' = sample /\ pins = {} /\ pins' = latched
        /\ latched' = {} /\ vbus_connected' = vbus_connected
    BY <1>6 DEF FetchEvents
  <2>. QED  BY <2>1 DEF VbusFlagForeseen, Foreseen, AfterMask
<1>7. CASE event_callback
  <2>1. /\ power = "on" /\ usb' = usb /\ conf' = conf /\ doubt' = doubt
        /\ sample' = sample /\ pins' = {} /\ latched' = latched
        /\ vbus_connected' = AfterMask(vbus_connected, pins)
    BY <1>7 DEF event_callback
  <2>2. conf = "sampled" /\ ~raced' => ~raced /\ pins \cap VbusEvents = {}
    BY <1>7 DEF event_callback
  <2>3. conf = "sampled" /\ ~raced' => AfterMask(sample, pins) = sample
    BY <2>2, QuietMask DEF TypeOK
  <2>4. Foreseen(vbus_connected)' = Foreseen(vbus_connected)
    BY <2>1 DEF Foreseen, AfterMask
  <2>5. conf = "sampled" /\ ~raced' => Foreseen(sample)' = Foreseen(sample)
    BY <2>1, <2>3 DEF Foreseen, AfterMask
  <2>. QED  BY <2>1, <2>2, <2>4, <2>5 DEF VbusFlagForeseen
<1>8. CASE NotReady \/ AddCallback \/ ReadSupplyFails
  BY <1>8 DEF NotReady, AddCallback, ReadSupplyFails
<1>9. CASE ReadSupply
  <2>1. /\ conf' = "sampled" /\ sample' = usb /\ usb' = usb
        /\ pins' = pins /\ latched' = latched
    BY <1>9 DEF ReadSupply
  <2>2. raced' = ((latched \cup pins) \cap VbusEvents # {})
    BY <1>9 DEF ReadSupply
  <2>3. ~raced' => pins \cap VbusEvents = {} /\ latched \cap VbusEvents = {}
    BY <2>2
  <2>. QED  BY <2>1, <2>3, QuietMask DEF Foreseen, TypeOK
<1>10. CASE SetSupply
  <2>1. /\ power = "on" /\ conf = "sampled" /\ conf' = "ok"
        /\ vbus_connected' = sample /\ doubt' = raced /\ usb' = usb
        /\ pins' = pins /\ latched' = latched
    BY <1>10 DEF SetSupply
  <2>. QED  BY <2>1 DEF VbusFlagForeseen, Foreseen, AfterMask
<1>. QED
  BY <1>1, <1>2, <1>3, <1>4, <1>5, <1>6, <1>7, <1>8, <1>9, <1>10
  DEF Next, Environment, Worker, Configure

\* Once configure_events has succeeded and every supply event is handled,
\* vbus_connected is right, unless an event raced with the read of the charger
\* or a removal and the plugging after it came in one mask.
THEOREM FlagExact == Spec => []VbusFlagExact
<1>1. Init => VbusFlagForeseen
  BY DEF Init, VbusFlagForeseen
<1>2. TypeOK /\ VbusFlagForeseen => VbusFlagExact
  <2>. SUFFICES ASSUME TypeOK, VbusFlagForeseen, power = "on", conf = "ok",
                       SupplySettled, ~doubt
                PROVE  vbus_connected = usb
    BY DEF VbusFlagExact
  <2>1. pins \cap VbusEvents = {} /\ latched \cap VbusEvents = {}
    BY DEF SupplySettled
  <2>2. Foreseen(vbus_connected) = vbus_connected
    BY <2>1, QuietMask DEF Foreseen, TypeOK
  <2>. QED  BY <2>2 DEF VbusFlagForeseen
<1>. QED
  BY <1>1, <1>2, TypeCorrect, ForeseenInductive, PTL DEF Spec

\* What is true of "Ship mode entry not possible with USB connected": ship mode
\* is entered on USB in three cases only.  configure_events has not succeeded
\* yet, or is being run again; the flag was upset; or VBUS_DETECTED is still on
\* its way, if only because it comes in the mask of the release.
THEOREM ShipOnUsbCauses ==
    Spec => [][power = "on" /\ power' = "ship" /\ usb
                 => conf # "ok" \/ doubt \/ Detected \in latched \cup pins]_vars
<1>1. Init => VbusFlagForeseen
  BY DEF Init, VbusFlagForeseen
<1>2. VbusFlagForeseen /\ [Next]_vars
        => [power = "on" /\ power' = "ship" /\ usb
              => conf # "ok" \/ doubt \/ Detected \in latched \cup pins]_vars
  <2>. SUFFICES ASSUME VbusFlagForeseen, Next, power = "on", power' = "ship",
                       usb, conf = "ok", ~doubt
                PROVE  Detected \in latched \cup pins
    OBVIOUS
  <2>1. event_callback
    BY DEF Next, Wake, SystemOff, Restart, Environment, Tick, PressButton,
           ReleaseButton, PlugUsb, UnplugUsb, Worker, FetchEvents, Configure,
           NotReady, AddCallback, ReadSupply, ReadSupplyFails, SetSupply
  <2>2. LongPress
    BY <2>1 DEF event_callback, Classify, ShortPress, MediumPress
  <2>3. ~vbus_connected  BY <2>2 DEF LongPress
  <2>4. Foreseen(vbus_connected) = usb  BY DEF VbusFlagForeseen
  <2>. QED  BY <2>3, <2>4 DEF Foreseen, AfterMask
<1>. QED  BY <1>1, <1>2, TypeCorrect, ForeseenInductive, PTL DEF Spec

-------------------------------------------------------------------------------
(* The way of a supply event *)

\* The most steps of the worker until no supply event is on its way.
StepsToSettle ==
    (IF latched \cap VbusEvents # {} THEN 2 ELSE 0) + (IF pins # {} THEN 1 ELSE 0)

\* As long as a supply event is on its way, each step of the worker brings the
\* flag nearer, three at most do it, and no gesture or configure_events of the
\* same boot sets it back; only another supply event does.  With the fairness of
\* the work queue this is what SupplyTracked needs.
THEOREM SupplyDrains ==
    Spec => /\ [](~SupplySettled => StepsToSettle \in 1 .. 3)
            /\ [][~SupplySettled /\ Worker => StepsToSettle' < StepsToSettle]_vars
            /\ [][~SupplySettled /\ UNCHANGED <<usb, power>>
                    => StepsToSettle' <= StepsToSettle]_vars
<1>1. ~SupplySettled => StepsToSettle \in 1 .. 3
  BY DEF SupplySettled, StepsToSettle
<1>2. ASSUME ~SupplySettled, Worker PROVE StepsToSettle' < StepsToSettle
  <2>1. CASE FetchEvents
    <3>1. pins = {} /\ latched' = {} /\ latched \cap VbusEvents # {}
      BY <1>2, <2>1 DEF FetchEvents, SupplySettled
    <3>. QED  BY <3>1 DEF StepsToSettle
  <2>2. CASE event_callback
    <3>1. pins # {} /\ pins' = {} /\ latched' = latched
      BY <2>2 DEF event_callback
    <3>. QED  BY <3>1 DEF StepsToSettle
  <2>. QED  BY <1>2, <2>1, <2>2 DEF Worker
<1>3. ASSUME ~SupplySettled, Next, UNCHANGED <<usb, power>>
      PROVE  StepsToSettle' <= StepsToSettle
  <2>1. CASE Worker
    <3>1. StepsToSettle' < StepsToSettle  BY <1>2, <1>3, <2>1
    <3>. QED  BY <3>1 DEF StepsToSettle
  <2>2. CASE UNCHANGED pins /\ latched' \cap VbusEvents \subseteq latched \cap VbusEvents
    BY <2>2 DEF StepsToSettle
  <2>3. PressButton \/ ReleaseButton
          => UNCHANGED pins /\ latched' \cap VbusEvents \subseteq latched \cap VbusEvents
    BY DEF PressButton, ReleaseButton, Latch, worker, VbusEvents,
           Press, Release, Detected, Removed
  <2>4. Tick \/ Configure
          => UNCHANGED pins /\ latched' \cap VbusEvents \subseteq latched \cap VbusEvents
    BY DEF Tick, Configure, NotReady, AddCallback, ReadSupply, ReadSupplyFails,
           SetSupply, worker
  <2>5. ~(Wake \/ SystemOff \/ Restart \/ PlugUsb \/ UnplugUsb)
    BY <1>3 DEF Wake, SystemOff, Restart, PlugUsb, UnplugUsb
  <2>. QED  BY <1>3, <2>1, <2>2, <2>3, <2>4, <2>5 DEF Next, Environment
<1>. QED  BY <1>1, <1>2, <1>3, PTL DEF Spec

\* configure_events has its callback on the list before it reads the charger,
\* so no supply event after the read is without a handler.
THEOREM CallbackBeforeRead ==
    Spec => [](conf \in {"attached", "sampled", "ok"} => registered)
<1>. DEFINE Listed == conf \in {"attached", "sampled", "ok"} => registered
<1>1. Init => Listed  BY DEF Init
<1>2. Listed /\ [Next]_vars => Listed'
  <2>. SUFFICES ASSUME Listed, [Next]_vars PROVE Listed'
    OBVIOUS
  <2>1. CASE Wake \/ SystemOff  BY <2>1 DEF Wake, SystemOff, LoseMemory
  <2>2. CASE Configure
    BY <2>2 DEF Configure, NotReady, AddCallback, ReadSupply, ReadSupplyFails,
                SetSupply
  <2>3. CASE UNCHANGED <<conf, registered>>  BY <2>3
  <2>4. Restart \/ Environment \/ Worker \/ UNCHANGED vars
          => UNCHANGED <<conf, registered>>
    BY DEF Restart, Environment, Tick, PressButton, ReleaseButton, PlugUsb,
           UnplugUsb, Worker, FetchEvents, event_callback, vars, config
  <2>. QED  BY <2>1, <2>2, <2>3, <2>4 DEF Next
<1>. QED  BY <1>1, <1>2, PTL DEF Spec

-------------------------------------------------------------------------------
(* The load switches *)

\* A load switch whose regulator works is on exactly when the last gesture was
\* a short press.
THEOREM RailsFollow == Spec => []RailsFollowGesture
<1>. DEFINE OffCarries == power = "off" => carried
<1>1. Init => RailsFollowGesture /\ OffCarries
  BY DEF Init, RailsFollowGesture, FAST_FLASH_MS, SLOW_FLASH_MS
<1>2. ASSUME NEW on \in BOOLEAN, Drive(on)
      PROVE  \A l \in Ldos \ FaultyLdos : ldo'[l] = on
  BY <1>2 DEF Drive
<1>3. RailsFollowGesture /\ OffCarries /\ [Next]_vars
        => RailsFollowGesture' /\ OffCarries'
  <2>. SUFFICES ASSUME RailsFollowGesture, OffCarries, [Next]_vars
                PROVE  RailsFollowGesture' /\ OffCarries'
    OBVIOUS
  <2>1. CASE Wake
    BY <2>1
    DEF Wake, LoseMemory, RailsFollowGesture, FAST_FLASH_MS, SLOW_FLASH_MS
  <2>2. CASE SystemOff  BY <2>2 DEF SystemOff, RailsFollowGesture
  <2>3. CASE Restart  BY <2>3 DEF Restart, RailsFollowGesture
  <2>4. CASE event_callback
    <3>1. power = "on" /\ power' # "off"
      BY <2>4
      DEF event_callback, Classify, ShortPress, MediumPress, LongPress
    <3>2. CASE ShortPress
      BY <3>1, <3>2, <1>2 DEF ShortPress, RailsFollowGesture
    <3>3. CASE MediumPress
      BY <3>1, <3>3, <1>2
      DEF MediumPress, RailsFollowGesture, FAST_FLASH_MS, SLOW_FLASH_MS
    <3>4. CASE UNCHANGED <<ldo, flash_time_ms, carried>>
      BY <3>1, <3>4 DEF RailsFollowGesture
    <3>. QED
      BY <2>4, <3>2, <3>3, <3>4 DEF event_callback, Classify, LongPress
  <2>5. CASE UNCHANGED <<power, ldo, flash_time_ms, carried>>
    BY <2>5 DEF RailsFollowGesture
  <2>6. Environment \/ FetchEvents \/ Configure \/ UNCHANGED vars
          => UNCHANGED <<power, ldo, flash_time_ms, carried>>
    BY DEF Environment, Tick, PressButton, ReleaseButton, PlugUsb, UnplugUsb,
           FetchEvents, Configure, NotReady, AddCallback, ReadSupply,
           ReadSupplyFails, SetSupply, vars, worker
  <2>. QED  BY <2>1, <2>2, <2>3, <2>4, <2>5, <2>6 DEF Next, Worker
<1>. QED  BY <1>1, <1>3, PTL DEF Spec

-------------------------------------------------------------------------------
(* The measure of a hold *)

\* An integer is fixed by its residue once it is known to lie in one period.
LEMMA ModUnique ==
    ASSUME NEW m \in Nat, m > 0, NEW a \in 0 .. (m - 1), NEW k \in Int
    PROVE  (a + m * k) % m = a
<1>. DEFINE x == a + m * k
            q == x \div m
<1>1. x \in Int /\ q \in Int /\ x % m \in 0 .. (m - 1)
  OBVIOUS
<1>2. x = m * q + (x % m)
  OBVIOUS
<1>3. m * (q - k) = a - (x % m)
  BY <1>1, <1>2
<1>4. q - k \in Int /\ -m < a - (x % m) /\ a - (x % m) < m
  BY <1>1
<1>5. q - k < 1
  <2>. SUFFICES ASSUME q - k >= 1 PROVE FALSE
    BY <1>4
  <2>. QED  BY <1>3, <1>4
<1>6. q - k > -1
  <2>. SUFFICES ASSUME q - k <= -1 PROVE FALSE
    BY <1>4
  <2>. QED  BY <1>3, <1>4
<1>7. q - k = 0
  BY <1>4, <1>5, <1>6
<1>. QED  BY <1>1, <1>3, <1>7

\* The difference of two times survives their truncation to 32 bits.
LEMMA HoldSurvivesWrap ==
    ASSUME NEW n \in Nat, NEW p \in Nat, p <= n, n - p < INT_HALF
    PROVE  ToInt(n - ToInt(p)) = n - p
<1>. DEFINE m == 2 * INT_HALF
            k == (p + INT_HALF) \div m
<1>1. INT_HALF \in Nat /\ INT_HALF > 0 /\ m \in Nat /\ m > 0
  BY PmicAssumption
<1>2. k \in Int /\ p + INT_HALF = m * k + ((p + INT_HALF) % m)
  <2>. HIDE DEF m
  <2>. QED  BY <1>1
<1>3. ToInt(p) = p - m * k
  BY <1>1, <1>2 DEF ToInt
<1>4. (n - p) + INT_HALF \in 0 .. (m - 1)
  BY <1>1
<1>5. (n - ToInt(p)) + INT_HALF = ((n - p) + INT_HALF) + m * k
  <2>. HIDE DEF m, k
  <2>. QED  BY <1>1, <1>2, <1>3
<1>6. ((n - ToInt(p)) + INT_HALF) % m = (n - p) + INT_HALF
  <2>. HIDE DEF m, k
  <2>. QED  BY <1>1, <1>2, <1>4, <1>5, ModUnique
<1>. QED  BY <1>1, <1>6 DEF ToInt

\* A press that is handled in a mask with a release leaves press_t at 0.
LEMMA CrossedIsZero ==
    ASSUME TypeOK, Press \in pins
    PROVE  HoldTime = 0
<1>1. now \in Nat /\ now <= now /\ now - now < INT_HALF
  BY PmicAssumption DEF TypeOK
<1>2. ToInt(now - ToInt(now)) = now - now
  BY <1>1, HoldSurvivesWrap
<1>. QED  BY <1>1, <1>2 DEF HoldTime, PressTime

\* The last gesture of a mask is in it.
LEMMA NewestInMask == Spec => [](newest # NoGesture => newest \in pins)
<1>. DEFINE InMask == newest # NoGesture => newest \in pins
<1>1. Init => InMask  BY DEF Init
<1>2. InMask /\ [Next]_vars => InMask'
  <2>. SUFFICES ASSUME InMask, [Next]_vars PROVE InMask'
    OBVIOUS
  <2>1. CASE Wake \/ SystemOff  BY <2>1 DEF Wake, SystemOff, LoseMemory
  <2>2. CASE FetchEvents  BY <2>2 DEF FetchEvents
  <2>3. CASE event_callback  BY <2>3 DEF event_callback, Remember
  <2>4. CASE AddCallback  BY <2>4 DEF AddCallback, Forget
  <2>5. CASE UNCHANGED <<pins, newest>>  BY <2>5
  <2>6. [Next]_vars => \/ Wake \/ SystemOff \/ FetchEvents \/ event_callback
                       \/ AddCallback \/ UNCHANGED <<pins, newest>>
    BY DEF Next, Restart, Environment, Worker, Tick, PressButton, ReleaseButton,
           PlugUsb, UnplugUsb, Configure, NotReady, ReadSupply,
           ReadSupplyFails, SetSupply, vars, worker, hold
  <2>. QED  BY <2>1, <2>2, <2>3, <2>4, <2>5, <2>6
<1>. QED  BY <1>1, <1>2, PTL DEF Spec

\* While a handled press is being held, press_t is the time it was handled, or 0
\* if its mask also held the release before it.
THEOREM PressKept == Spec => []PressTimeKept
<1>. DEFINE InMask == newest # NoGesture => newest \in pins
<1>1. Init => PressTimeKept
  BY DEF Init, PressTimeKept
<1>2. TypeOK /\ InMask /\ PressTimeKept /\ [Next]_vars => PressTimeKept'
  <2>. SUFFICES ASSUME TypeOK, InMask, PressTimeKept, [Next]_vars
                PROVE  PressTimeKept'
    OBVIOUS
  <2>. USE DEF PressTimeKept
  <2>1. CASE Wake \/ SystemOff  BY <2>1 DEF Wake, SystemOff, LoseMemory
  <2>2. CASE Tick  BY <2>2 DEF Tick, worker, hold, TypeOK
  <2>3. CASE event_callback
    <3>1. CASE pins \cap Gestures = {}
      <4>1. UNCHANGED <<now, press_t, pressSeen, crossed>>
        BY <2>3, <3>1
        DEF event_callback, Remember, Classify, PressTime, Gestures
      <4>. QED  BY <4>1 DEF ToInt
    <3>2. CASE pins \cap Gestures # {} /\ newest # Press
      BY <2>3, <3>2 DEF event_callback, Remember
    <3>3. CASE newest = Press
      <4>1. Press \in pins
        BY <3>3 DEF Press, NoGesture
      <4>2. /\ pressSeen' = now /\ now' = now
            /\ crossed' = (Release \in pins)
        BY <2>3, <3>3, <4>1 DEF event_callback, Remember, Gestures
      <4>3. press_t' = IF Release \in pins THEN 0 ELSE ToInt(now)
        BY <2>3, <4>1, CrossedIsZero DEF event_callback, Classify, PressTime
      <4>4. ToInt(pressSeen') = ToInt(now)  BY <4>2
      <4>5. pressSeen' <= now'  BY <4>2 DEF TypeOK
      <4>6. press_t' = IF crossed' THEN 0 ELSE ToInt(pressSeen')
        BY <4>2, <4>3, <4>4
      <4>. QED  BY <4>5, <4>6
    <3>. QED  BY <3>1, <3>2, <3>3
  <2>4. CASE AddCallback  BY <2>4 DEF AddCallback, Forget, ToInt
  <2>5. CASE UNCHANGED <<now, press_t, pressSeen, crossed>>
    BY <2>5 DEF ToInt
  <2>6. [Next]_vars => \/ Wake \/ SystemOff \/ Tick \/ event_callback
                       \/ AddCallback
                       \/ UNCHANGED <<now, press_t, pressSeen, crossed>>
    BY DEF Next, Restart, Environment, Worker, PressButton, ReleaseButton, PlugUsb,
           UnplugUsb, FetchEvents, Configure, NotReady,
           ReadSupply, ReadSupplyFails, SetSupply, vars, worker, hold
  <2>. QED  BY <2>1, <2>2, <2>3, <2>4, <2>5, <2>6
<1>. QED  BY <1>1, <1>2, TypeCorrect, NewestInMask, PTL DEF Spec

\* The worker's measure of a hold whose press it handled in a mask without the
\* release before it.
LEMMA HoldIsExact ==
    ASSUME TypeOK, PressTimeKept, Press \in pins \/ ~crossed,
           PressedAt # None, now - PressedAt < INT_HALF
    PROVE  HoldTime = now - PressedAt
<1>1. PressedAt \in Nat /\ PressedAt <= now /\ now \in Nat
  BY DEF PressedAt, TypeOK, PressTimeKept
<1>2. PressTime = ToInt(PressedAt)
  BY DEF PressTime, PressedAt, PressTimeKept
<1>. QED  BY <1>1, <1>2, HoldSurvivesWrap DEF HoldTime

\* A hold both ends of which were handled is measured exactly, also when press_t
\* has wrapped in between, unless its press was in one mask with the release
\* before it.
THEOREM HoldsMeasured == Spec => HoldMeasured
<1>1. ASSUME TypeOK, PressTimeKept, [Next]_vars, Handled(Release),
             TimedRelease, now - PressedAt < INT_HALF
      PROVE  press_t' = now - PressedAt
  <2>1. power = "on" /\ power' # "off" /\ pins # {} /\ pins' # pins
    BY <1>1 DEF Handled
  <2>2. event_callback
    BY <1>1, <2>1
    DEF Next, Wake, SystemOff, Restart, Environment, Tick, PressButton,
        ReleaseButton, PlugUsb, UnplugUsb, Worker, FetchEvents, Configure,
        NotReady, AddCallback, ReadSupply, ReadSupplyFails, SetSupply, vars, worker
  <2>3. press_t' = HoldTime
    BY <1>1, <2>2 DEF event_callback, Classify, Handled
  <2>. QED  BY <1>1, <2>3, HoldIsExact DEF TimedRelease
<1>. QED  BY <1>1, TypeCorrect, PressKept, PTL DEF Spec, HoldMeasured

\* A short or medium hold makes the worker enter ship mode only if the worker
\* never handled its press, or handled it in one mask with the release before
\* it.
THEOREM ShipsMeasured == Spec => ShipMeasured
<1>1. ASSUME TypeOK, PressTimeKept, [Next]_vars, power = "on", power' = "ship"
      PROVE  /\ Press \notin pins
             /\ \/ now - pressSeen >= PRESS_MEDIUM_MS
                \/ pressSeen = None \/ crossed
  <2>1. event_callback
    BY <1>1
    DEF Next, Wake, SystemOff, Restart, Environment, Tick, PressButton,
        ReleaseButton, PlugUsb, UnplugUsb, Worker, FetchEvents, Configure,
        NotReady, AddCallback, ReadSupply, ReadSupplyFails, SetSupply, vars
  <2>2. Release \in pins /\ HoldTime >= PRESS_MEDIUM_MS
    BY <1>1, <2>1 DEF event_callback, Classify, ShortPress, MediumPress
  <2>3. Press \notin pins
    BY <1>1, <2>2, CrossedIsZero, PmicAssumption
  <2>4. ASSUME pressSeen # None, ~crossed
        PROVE  now - pressSeen >= PRESS_MEDIUM_MS
    <3>1. PressedAt = pressSeen  BY <2>3 DEF PressedAt
    <3>2. now \in Nat /\ pressSeen \in Nat
      BY <1>1, <2>4 DEF TypeOK
    <3>3. now - pressSeen < INT_HALF => HoldTime = now - pressSeen
      BY <1>1, <2>4, <3>1, HoldIsExact
    <3>. QED  BY <2>2, <3>2, <3>3, PmicAssumption
  <2>. QED  BY <2>3, <2>4
<1>. QED  BY <1>1, TypeCorrect, PressKept, PTL DEF Spec, ShipMeasured

-------------------------------------------------------------------------------
(* What the rest of the watch may rely on *)

\* The callbacks, gestures and resets implement Power: ship mode is entered only
\* by a callback that this boot has registered.
THEOREM SupplyRefinement == Spec => PowerSpec
<1>. DEFINE Quiet == registered \/ pins = {}
            Asleep == power = "off" => ~registered
<1>1. Init => Quiet /\ Asleep /\ Supply!Init
  BY DEF Init, Supply!Init
<1>2. Quiet /\ Asleep /\ [Next]_vars => Quiet' /\ Asleep' /\ [Supply!Next]_(Supply!vars)
  <2>. SUFFICES ASSUME Quiet, Asleep, [Next]_vars
                PROVE  Quiet' /\ Asleep' /\ [Supply!Next]_(Supply!vars)
    OBVIOUS
  <2>. USE DEF Supply!Next, Supply!vars
  <2>1. CASE Wake  BY <2>1 DEF Wake, LoseMemory, Supply!Start
  <2>2. CASE SystemOff  BY <2>2 DEF SystemOff, LoseMemory, Supply!Off
  <2>3. CASE Restart  BY <2>3 DEF Restart, Supply!Start
  <2>4. CASE event_callback
    <3>1. /\ power = "on" /\ power' \in {"on", "ship"} /\ registered
          /\ registered' = registered /\ pins' = {}
      BY <2>4
      DEF event_callback, Classify, ShortPress, MediumPress, LongPress, config
    <3>. QED  BY <3>1 DEF Supply!Ship
  <2>5. CASE AddCallback
    <3>1. power = "on" /\ power' = "on" /\ registered'
      BY <2>5 DEF AddCallback, Called
    <3>. QED  BY <3>1 DEF Supply!Arm, AddCallback
  <2>6. CASE FetchEvents  BY <2>6 DEF FetchEvents, config
  <2>7. CASE UNCHANGED <<power, pins, registered>>  BY <2>7
  <2>8. Environment \/ NotReady \/ ReadSupply \/ ReadSupplyFails \/ SetSupply
          \/ UNCHANGED vars => UNCHANGED <<power, pins, registered>>
    BY DEF Environment, Tick, PressButton, ReleaseButton, PlugUsb, UnplugUsb,
           NotReady, ReadSupply, ReadSupplyFails, SetSupply, vars, worker, hold, config
  <2>. QED
    BY <2>1, <2>2, <2>3, <2>4, <2>5, <2>6, <2>7, <2>8 DEF Next, Worker, Configure
<1>. QED  BY <1>1, <1>2, PTL DEF Spec, PowerSpec, Supply!Spec

===============================================================================
