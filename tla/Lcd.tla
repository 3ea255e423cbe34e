---------------------------------- MODULE Lcd ----------------------------------
(***************************************************************************)
(* The display test: src/test_lcd.c.                                       *)
(*                                                                         *)
(* The command sets the backlight to a duty cycle, works out the height of *)
(* a band and the size of a buffer from what the display says of itself,   *)
(* and draws the display band by band from that one buffer, with the       *)
(* display blanked.  Nothing that is asked of the display is looked at.    *)
(***************************************************************************)
EXTENDS Integers

CONSTANTS
    Displays,  \* what display_get_capabilities may say
    Duties,    \* the duty cycles a command may ask for
    Period,    \* of the backlight's PWM
    Wrap,      \* the numbers a uint32_t has, in the unit of Period
    Heap       \* CONFIG_HEAP_MEM_POOL_SIZE

ASSUME LcdAssumption ==
    /\ Displays \subseteq [x : Nat, y : Nat, format : STRING, tiled : BOOLEAN]
    /\ Duties \subseteq Nat
    /\ Period \in Nat \ {0} /\ Wrap \in Nat \ {0} /\ Heap \in Nat

VARIABLES
    at,        \* the next step of the command, or "idle"
    disp,      \* the display of the watch
    ready,     \* the display and the PWM are ready
    duty,      \* what the running command asked for
    lit,       \* the pulse width the PWM has
    litFor,    \* history: the duty cycle it was set for
    buf,       \* bytes of the allocated buffer, or 0
    height,    \* buf_desc.height
    idx,       \* the line the loop is at
    drawn,     \* history: lines this command has drawn
    blanked,   \* the display is blanked
    offFailed  \* history: so it is because it could not be switched on again

backlight == <<lit, litFor>>
loop == <<buf, height, idx, drawn>>
screen == <<blanked, offFailed>>
vars == <<at, disp, ready, duty, backlight, loop, screen>>

-------------------------------------------------------------------------------
(* Geometry *)

RectW(d) == IF d.tiled THEN 16 ELSE 2
RectH(d) == IF d.tiled THEN 8 ELSE 1

Small(d) == d.x < 3 * RectW(d) \/ d.y < 3 * RectH(d) \/ d.x < 8 * RectH(d)

\* Mutant: the percentage is taken before the multiplication.
h_step_Percent(d) == IF Small(d) THEN d.y * (20 \div 100) ELSE RectH(d)

\* The height of a band.
h_step(d) == IF Small(d) THEN (d.y * 20) \div 100 ELSE RectH(d)

Scale(d) == (d.x \div 8) \div RectH(d)

Rectangle(d) ==
    IF Small(d)
    THEN ((d.x * 40) \div 100) * ((d.y * 40) \div 100)
    ELSE (RectW(d) * Scale(d)) * (RectH(d) * Scale(d))

\* Mutant: the buffer holds the rectangle, as in the sample it comes from.
Pixels_Rectangle(d) == Rectangle(d)

\* The buffer holds the rectangle or the band, whichever has more pixels.
Pixels(d) ==
    IF Rectangle(d) < d.x * h_step(d) THEN d.x * h_step(d) ELSE Rectangle(d)

Bits == [ARGB_8888 |-> 32, RGB_888 |-> 24, RGB_565 |-> 16, BGR_565 |-> 16,
         MONO01 |-> 1, MONO10 |-> 1]

BufSize(d) ==
    IF Bits[d.format] = 1
    THEN (Pixels(d) + 7) \div 8
    ELSE Pixels(d) * (Bits[d.format] \div 8)

-------------------------------------------------------------------------------

Init ==
    /\ at = "idle" /\ disp \in Displays /\ ready \in BOOLEAN
    /\ duty = 0 /\ lit = 0 /\ litFor = 0
    /\ buf = 0 /\ height = 0 /\ idx = 0 /\ drawn = 0
    /\ blanked = FALSE /\ offFailed = FALSE

\* The command, with its arguments; on devices that are not ready it returns.
cmd_test_lcd(d) ==
    /\ at = "idle"
    /\ at' = IF ready THEN "backlight" ELSE "idle"
    /\ duty' = d
    /\ UNCHANGED <<disp, ready, backlight, loop, screen>>

\* Mutant: the percentage is taken before the multiplication.
PulseWidth_Percent(d) == (Period \div 100) * d

\* Mutant: the product is an int.
PulseWidth_Signed(d) ==
    LET product == (Period * d) % Wrap
    IN  (IF product < Wrap \div 2 THEN product ELSE product - Wrap) \div 100

\* period * duty is a uint32_t.
PulseWidth(d) == ((Period * d) % Wrap) \div 100

\* The driver takes no pulse that is longer than its period.
SetBacklight ==
    /\ at = "backlight" /\ at' = "buffer"
    /\ PulseWidth(duty) <= Period
    /\ lit' = PulseWidth(duty) /\ litFor' = duty
    /\ UNCHANGED <<disp, ready, duty, loop, screen>>

SetBacklightFails ==
    /\ at = "backlight" /\ at' = "idle"
    /\ UNCHANGED <<disp, ready, duty, backlight, loop, screen>>

\* Mutant: the buffer is had before the format is looked at.
NoBuffer_Held ==
    /\ at = "buffer" /\ at' = "idle"
    /\ buf' = 1
    /\ UNCHANGED <<disp, ready, duty, backlight, height, idx, drawn, screen>>

\* A format the switch does not name, or no memory.
NoBuffer ==
    /\ at = "buffer" /\ at' = "idle"
    /\ UNCHANGED <<disp, ready, duty, backlight, loop, screen>>

\* The buffer is allocated and the display blanked, if it does as it is told.
Allocate ==
    /\ at = "buffer" /\ at' = "draw"
    /\ disp.format \in DOMAIN Bits /\ BufSize(disp) <= Heap
    /\ buf' = BufSize(disp) /\ height' = h_step(disp)
    /\ idx' = 0 /\ drawn' = 0
    /\ blanked' \in {blanked, TRUE}
    /\ UNCHANGED <<disp, ready, duty, backlight, offFailed>>

\* Mutant: the last band is as high as the others.
BandHeight_Full == height

\* The last band ends where the display does.
BandHeight == IF disp.y - idx < h_step(disp) THEN disp.y - idx ELSE height

\* One turn of the loop.
Draw ==
    /\ at = "draw" /\ idx < disp.y
    /\ height' = BandHeight
    /\ drawn' = drawn + BandHeight
    /\ idx' = idx + h_step(disp)
    /\ UNCHANGED <<at, disp, ready, duty, backlight, buf, screen>>

\* The end of the loop: the display is switched on, the buffer freed.
Finish ==
    /\ at = "draw" /\ idx >= disp.y
    /\ at' = "idle" /\ buf' = 0
    /\ \/ blanked' = FALSE /\ offFailed' = FALSE
       \/ UNCHANGED blanked /\ offFailed' = blanked
    /\ UNCHANGED <<disp, ready, duty, backlight, height, idx, drawn>>

test_lcd == SetBacklight \/ SetBacklightFails \/ NoBuffer \/ Allocate \/ Draw \/ Finish

Next == (\E d \in Duties : cmd_test_lcd(d)) \/ test_lcd

Spec == Init /\ [][Next]_vars

\* The shell thread runs on; no call of it waits for ever.
FairSpec == Spec /\ WF_vars(test_lcd)

-------------------------------------------------------------------------------
(* Properties *)

\* The variables keep to their values.
TypeOK ==
    /\ at \in {"idle", "backlight", "buffer", "draw"}
    /\ disp \in Displays /\ ready \in BOOLEAN
    /\ duty \in Duties \cup {0} /\ lit \in 0 .. Period /\ litFor \in Duties \cup {0}
    /\ buf \in 0 .. Heap /\ height \in Nat /\ idx \in Nat /\ drawn \in Nat
    /\ blanked \in BOOLEAN /\ offFailed \in BOOLEAN
    /\ at = "draw" => disp.format \in DOMAIN Bits

\* Each band begins where the one before it ended, and the last one ends with
\* the display: no line is drawn twice, left out, or outside.
EveryLineOnce ==
    at = "draw" => drawn = IF idx < disp.y THEN idx ELSE disp.y

\* The one buffer holds every band that is drawn from it.
BufferHolds ==
    at = "draw" /\ idx < disp.y
        => disp.x * BandHeight * Bits[disp.format] <= 8 * buf

\* Whichever way the command ends, it keeps no memory, and the display stays
\* blanked only when it could not be switched on again.
NothingHeld == at = "idle" => buf = 0 /\ (blanked => offFailed)

\* Through every command that was refused, the backlight has the duty cycle of
\* the last one that was not, unless that one was so large that it wrapped.
LitAsAsked == Period * litFor < Wrap => lit = (Period * litFor) \div 100

\* The loop ends on every display that is not flatter than five lines.
DrawingEnds == at = "draw" /\ disp.y >= 5 ~> at = "idle"

===============================================================================
