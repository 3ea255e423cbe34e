------------------------------- MODULE LcdProofs -------------------------------
(* What TLAPS proves of Lcd, for every display and every duty cycle. *)
EXTENDS Lcd, TLAPS

\* While a display is drawn the buffer is the one worked out for it, and the
\* bands have their full height up to the last.
Loop ==
    at = "draw" => /\ buf = BufSize(disp)
                   /\ idx < disp.y => height = h_step(disp)

\* The steps before the buffer hold as little as the prompt does.
Free == at # "draw" => buf = 0 /\ (blanked => offFailed)

\* The inductive invariant: EveryLineOnce needs the height of Loop, NothingHeld
\* the steps of Free.
IInv == TypeOK /\ Loop /\ EveryLineOnce /\ Free /\ LitAsAsked

-------------------------------------------------------------------------------
(* Arithmetic *)

\* The height of a band is a number, and zero only on a flat display.
LEMMA StepType ==
    ASSUME NEW d \in Displays
    PROVE  /\ d.x \in Nat /\ d.y \in Nat /\ h_step(d) \in Nat
           /\ d.tiled \in BOOLEAN
BY LcdAssumption DEF h_step, RectH

\* A product of naturals is one.
LEMMA Product ==
    ASSUME NEW m \in Nat, NEW n \in Nat
    PROVE  m * n \in Nat
OBVIOUS

\* The pixels the buffer is for are those of the band at least.
LEMMA PixelsOfBand ==
    ASSUME NEW d \in Displays
    PROVE  Pixels(d) \in Nat /\ d.x * h_step(d) <= Pixels(d)
<1>1. d.x * h_step(d) \in Nat  BY StepType, Product
<1>2. Rectangle(d) \in Nat
  <2>1. CASE Small(d)
    <3>1. (d.x * 40) \div 100 \in Nat /\ (d.y * 40) \div 100 \in Nat
      BY StepType
    <3>. QED  BY <2>1, <3>1, Product DEF Rectangle
  <2>2. CASE ~Small(d)
    <3>1. RectW(d) \in Nat /\ RectH(d) \in Nat /\ Scale(d) \in Nat
      BY StepType DEF RectW, RectH, Scale
    <3>2. RectW(d) * Scale(d) \in Nat /\ RectH(d) * Scale(d) \in Nat
      BY <3>1, Product
    <3>. QED  BY <2>2, <3>2, Product DEF Rectangle
  <2>. QED  BY <2>1, <2>2
<1>. QED  BY <1>1, <1>2 DEF Pixels

\* A buffer of BufSize bytes holds that many pixels of any format.
LEMMA BufSizeHolds ==
    ASSUME NEW d \in Displays, d.format \in DOMAIN Bits
    PROVE  /\ BufSize(d) \in Nat
           /\ Pixels(d) * Bits[d.format] <= 8 * BufSize(d)
<1>1. Pixels(d) \in Nat  BY PixelsOfBand
<1>2. Bits[d.format] \in {1, 16, 24, 32}  BY DEF Bits
<1>. QED  BY <1>1, <1>2 DEF BufSize

\* A lower band has no more pixels.
LEMMA LowerBand ==
    ASSUME NEW x \in Nat, NEW h \in Nat, NEW k \in 0 .. h, NEW p \in Nat,
           x * h <= p, NEW bits \in {1, 16, 24, 32}
    PROVE  x * k * bits <= p * bits
<1>1. PICK e \in Nat : k + e = h  OBVIOUS
<1>2. x * k + x * e = x * h  BY <1>1
<1>3. x * k \in Nat /\ x * e \in Nat  BY <1>1, Product
<1>. QED  BY <1>2, <1>3

-------------------------------------------------------------------------------
(* The invariant *)

\* It holds before the first command.
LEMMA InitInv == Init => IInv
<1>. SUFFICES ASSUME Init PROVE IInv
  OBVIOUS
<1>1. lit = (Period * litFor) \div 100  BY LcdAssumption DEF Init
<1>2. TypeOK
  <2>1. at = "idle" /\ ready \in BOOLEAN /\ disp \in Displays
        /\ blanked \in BOOLEAN /\ offFailed \in BOOLEAN
    BY DEF Init
  <2>2. duty = 0 /\ lit \in 0 .. Period /\ litFor = 0 /\ buf \in 0 .. Heap
        /\ height \in Nat /\ idx \in Nat /\ drawn \in Nat
    BY LcdAssumption DEF Init
  <2>. QED  BY <2>1, <2>2 DEF TypeOK
<1>. QED
  BY <1>1, <1>2 DEF Init, IInv, Loop, EveryLineOnce, Free, LitAsAsked

\* The pulse width that is set is that of the duty cycle, below the wrap.
LEMMA PulseInv == IInv /\ SetBacklight => IInv'
<1>. SUFFICES ASSUME IInv, SetBacklight PROVE IInv'
  OBVIOUS
<1>1. duty \in Nat /\ Period * duty \in Nat
  BY LcdAssumption, Product DEF IInv, TypeOK
<1>2. PulseWidth(duty) \in Nat
  BY <1>1, LcdAssumption DEF PulseWidth
<1>3. Period * duty < Wrap => PulseWidth(duty) = (Period * duty) \div 100
  <2>1. Period * duty < Wrap => (Period * duty) % Wrap = Period * duty
    BY <1>1, LcdAssumption
  <2>. QED  BY <2>1 DEF PulseWidth
<1>4. TypeOK'
  BY <1>2, LcdAssumption DEF SetBacklight, IInv, TypeOK, loop, screen
<1>5. LitAsAsked'
  BY <1>3 DEF SetBacklight, LitAsAsked
<1>. QED
  BY <1>4, <1>5 DEF SetBacklight, IInv, Loop, EveryLineOnce, Free, loop, screen

\* A turn of the loop draws the next band, and the last one no further than the
\* display goes.
LEMMA DrawInv == IInv /\ Draw => IInv'
<1>. SUFFICES ASSUME IInv, Draw PROVE IInv'
  OBVIOUS
<1>1. /\ at = "draw" /\ at' = "draw" /\ idx < disp.y /\ disp' = disp
      /\ height = h_step(disp) /\ drawn = idx
      /\ idx \in Nat /\ disp.y \in Nat /\ h_step(disp) \in Nat
  BY StepType DEF IInv, TypeOK, Loop, EveryLineOnce, Draw
<1>2. /\ idx' = idx + h_step(disp) /\ height' = BandHeight
      /\ drawn' = drawn + BandHeight
      /\ UNCHANGED <<ready, duty, lit, litFor, buf, blanked, offFailed>>
  BY DEF Draw, backlight, screen
<1>3. \/ BandHeight = h_step(disp) /\ idx + h_step(disp) <= disp.y
      \/ BandHeight = disp.y - idx /\ idx + h_step(disp) > disp.y
  BY <1>1 DEF BandHeight
<1>. HIDE DEF h_step
<1>4. height' \in Nat /\ idx' \in Nat /\ drawn' \in Nat
  BY <1>1, <1>2, <1>3
<1>5. TypeOK'  BY <1>1, <1>2, <1>4 DEF IInv, TypeOK
<1>6. Loop' /\ EveryLineOnce'
  <2>1. h_step(disp)' = h_step(disp) /\ BufSize(disp)' = BufSize(disp)
        /\ buf = BufSize(disp)
    BY <1>1 DEF IInv, Loop
  <2>. QED  BY <1>1, <1>2, <1>3, <2>1 DEF Loop, EveryLineOnce
<1>7. Free' /\ LitAsAsked'
  BY <1>1, <1>2 DEF IInv, Free, LitAsAsked
<1>. QED  BY <1>5, <1>6, <1>7 DEF IInv

\* Every step keeps the invariant.
LEMMA Inductive == IInv /\ [Next]_vars => IInv'
<1>. SUFFICES ASSUME IInv, [Next]_vars PROVE IInv'
  OBVIOUS
<1>. USE DEF IInv, TypeOK, Loop, EveryLineOnce, Free, LitAsAsked,
             backlight, loop, screen
<1>1. ASSUME NEW d \in Duties, cmd_test_lcd(d) PROVE IInv'
  BY <1>1 DEF cmd_test_lcd
<1>2. CASE SetBacklightFails \/ NoBuffer
  <2>1. /\ at # "draw" /\ at' = "idle"
        /\ UNCHANGED <<disp, ready, duty, backlight, loop, screen>>
    BY <1>2 DEF SetBacklightFails, NoBuffer
  <2>. QED  BY <2>1
<1>4. CASE Allocate
  <2>1. BufSize(disp) \in 0 .. Heap /\ h_step(disp) \in Nat /\ disp.y \in Nat
    BY <1>4, BufSizeHolds, StepType, LcdAssumption DEF Allocate
  <2>. HIDE DEF h_step, BufSize
  <2>2. /\ at' = "draw" /\ disp' = disp /\ buf' = BufSize(disp)
        /\ height' = h_step(disp) /\ idx' = 0 /\ drawn' = 0
        /\ blanked' \in BOOLEAN /\ disp.format \in DOMAIN Bits
        /\ UNCHANGED <<ready, duty, lit, litFor, offFailed>>
    BY <1>4 DEF Allocate
  <2>3. h_step(disp)' = h_step(disp) /\ BufSize(disp)' = BufSize(disp)
    BY <2>2
  <2>. QED  BY <2>1, <2>2, <2>3
<1>5. CASE Finish
  <2>1. /\ at' = "idle" /\ buf' = 0
        /\ UNCHANGED <<disp, ready, duty, lit, litFor, height, idx, drawn>>
    BY <1>5 DEF Finish
  <2>2. \/ blanked' = FALSE /\ offFailed' = FALSE
        \/ blanked' = blanked /\ offFailed' = blanked
    BY <1>5 DEF Finish
  <2>3. \/ blanked' = FALSE /\ offFailed' = FALSE
        \/ blanked' = TRUE /\ offFailed' = TRUE
    <3>1. blanked = TRUE \/ blanked = FALSE  OBVIOUS
    <3>. QED  BY ONLY <2>2, <3>1, Zenon
  <2>4. blanked' \in BOOLEAN /\ offFailed' \in BOOLEAN /\ (blanked' => offFailed')
    BY ONLY <2>3, Zenon
  <2>. QED  BY <2>1, <2>4, LcdAssumption
<1>6. CASE UNCHANGED vars  BY <1>6 DEF vars
<1>. QED
  BY <1>1, <1>2, <1>4, <1>5, <1>6, PulseInv, DrawInv DEF Next, test_lcd

\* The variables keep to their values; every line is drawn once; no command
\* keeps memory, or leaves the display blanked unless it could not help it; the
\* backlight follows the duty cycle below the wrap.
THEOREM Invariant == Spec => [](/\ TypeOK /\ EveryLineOnce /\ NothingHeld
                                /\ LitAsAsked)
<1>1. Spec => []IInv  BY InitInv, Inductive, PTL DEF Spec
<1>2. IInv => TypeOK /\ EveryLineOnce /\ NothingHeld /\ LitAsAsked
  BY DEF IInv, Free, NothingHeld
<1>. QED  BY <1>1, <1>2, PTL

\* The buffer holds every band, on every display of every format.
THEOREM BufferLargeEnough == Spec => []BufferHolds
<1>1. IInv => BufferHolds
  <2>. SUFFICES ASSUME IInv, at = "draw", idx < disp.y
                PROVE  disp.x * BandHeight * Bits[disp.format] <= 8 * buf
    BY DEF BufferHolds
  <2>1. /\ disp \in Displays /\ disp.format \in DOMAIN Bits /\ idx \in Nat
        /\ buf = BufSize(disp) /\ height = h_step(disp)
    BY DEF IInv, TypeOK, Loop
  <2>2. BandHeight \in 0 .. h_step(disp)
    BY <2>1, StepType DEF BandHeight
  <2>3. Bits[disp.format] \in {1, 16, 24, 32}  BY <2>1 DEF Bits
  <2>4. disp.x * BandHeight * Bits[disp.format] <= Pixels(disp) * Bits[disp.format]
    BY <2>1, <2>2, <2>3, StepType, PixelsOfBand, LowerBand
  <2>5. BandHeight \in Nat /\ disp.x \in Nat /\ Pixels(disp) \in Nat
        /\ disp.x * BandHeight \in Nat /\ BufSize(disp) \in Nat
    BY <2>1, <2>2, StepType, PixelsOfBand, Product, BufSizeHolds
  <2>6. Pixels(disp) * Bits[disp.format] <= 8 * BufSize(disp)
    BY <2>1, BufSizeHolds
  <2>. QED  BY <2>1, <2>3, <2>4, <2>5, <2>6
<1>2. Spec => []IInv  BY InitInv, Inductive, PTL DEF Spec
<1>. QED  BY <1>1, <1>2, PTL

-------------------------------------------------------------------------------
(* The backlight *)

\* Below the wrap, exactly the duty cycles to 100 give a pulse the driver takes.
LEMMA PulseTaken ==
    ASSUME Period >= 100, NEW d \in Nat, Period * d < Wrap
    PROVE  PulseWidth(d) <= Period <=> d <= 100
<1>. DEFINE p == Period * d
<1>1. p \in Nat /\ p % Wrap = p /\ PulseWidth(d) = p \div 100
  BY LcdAssumption, Product DEF PulseWidth
<1>2. CASE d <= 100
  <2>1. PICK e \in Nat : d + e = 100  BY <1>2
  <2>2. p + Period * e = 100 * Period /\ Period * e \in Nat
    BY <2>1, LcdAssumption, Product
  <2>3. p <= 100 * Period  BY <1>1, <2>2, LcdAssumption
  <2>. HIDE DEF p
  <2>. QED  BY <1>1, <1>2, <2>3, LcdAssumption
<1>3. CASE d > 100
  <2>1. PICK e \in Nat : d = 101 + e  BY <1>3
  <2>2. p = 101 * Period + Period * e /\ Period * e \in Nat
    BY <2>1, LcdAssumption, Product
  <2>3. p >= 100 * Period + 100  BY <1>1, <2>2, LcdAssumption
  <2>. HIDE DEF p
  <2>. QED  BY <1>1, <1>3, <2>3, LcdAssumption
<1>. QED  BY <1>2, <1>3

\* A duty cycle above a hundred is never the one the backlight was set for,
\* unless its product wrapped.
AboveOnlyByWrap == litFor <= 100 \/ Period * litFor >= Wrap

\* The driver, and no test of the command's own, keeps the duty cycle at a
\* hundred or less; only the wrap of the uint32_t gets past it.
THEOREM OnlyTheWrapPasses ==
    ASSUME Period >= 100
    PROVE  Spec => []AboveOnlyByWrap
<1>1. Init => AboveOnlyByWrap  BY DEF Init, AboveOnlyByWrap
<1>2. IInv /\ AboveOnlyByWrap /\ [Next]_vars => AboveOnlyByWrap'
  <2>. SUFFICES ASSUME IInv, AboveOnlyByWrap, [Next]_vars
                PROVE  AboveOnlyByWrap'
    OBVIOUS
  <2>1. CASE SetBacklight
    <3>1. litFor' = duty /\ PulseWidth(duty) <= Period /\ duty \in Nat
      BY <2>1, LcdAssumption DEF SetBacklight, IInv, TypeOK
    <3>2. Period * duty < Wrap => duty <= 100  BY <3>1, PulseTaken
    <3>3. Period * duty \in Nat  BY <3>1, LcdAssumption, Product
    <3>. QED  BY <3>1, <3>2, <3>3, LcdAssumption DEF AboveOnlyByWrap
  <2>2. CASE UNCHANGED litFor  BY <2>2 DEF AboveOnlyByWrap
  <2>. QED
    BY <2>1, <2>2 DEF Next, test_lcd, cmd_test_lcd, SetBacklightFails, NoBuffer,
                      Allocate, Draw, Finish, backlight, vars
<1>3. Spec => []IInv  BY InitInv, Inductive, PTL DEF Spec
<1>. QED  BY <1>1, <1>2, <1>3, PTL DEF Spec

-------------------------------------------------------------------------------
(* The loop *)

\* The band has no height exactly on a display of less than five lines that is
\* small, so that its height is a part of the display's.
LEMMA NoHeight ==
    ASSUME NEW d \in Displays
    PROVE  h_step(d) = 0 <=> Small(d) /\ d.y < 5
BY StepType, LcdAssumption DEF h_step, RectH

\* The lines that are left to draw.
LinesLeft == IF idx < disp.y THEN disp.y - idx ELSE 0

\* Once a display of five lines or more is being drawn, every step ends the
\* command or leaves fewer lines, of which there are finitely many: what
\* DrawingEnds needs besides the fairness of the shell thread.
THEOREM LinesDecrease ==
    Spec => /\ [](at = "draw" => LinesLeft \in Nat)
            /\ [][at = "draw" /\ disp.y >= 5
                    => at' = "idle" \/ LinesLeft' < LinesLeft]_vars
<1>1. IInv => (at = "draw" => LinesLeft \in Nat)
  BY LcdAssumption DEF IInv, TypeOK, LinesLeft
<1>2. IInv /\ [Next]_vars
        => [at = "draw" /\ disp.y >= 5 => at' = "idle" \/ LinesLeft' < LinesLeft]_vars
  <2>. SUFFICES ASSUME IInv, Next, at = "draw", disp.y >= 5
                PROVE  at' = "idle" \/ LinesLeft' < LinesLeft
    OBVIOUS
  <2>1. CASE Draw
    <3>1. /\ idx \in Nat /\ disp.y \in Nat /\ h_step(disp) \in Nat /\ idx < disp.y
          /\ idx' = idx + h_step(disp) /\ disp' = disp
      BY <2>1, StepType DEF Draw, IInv, TypeOK
    <3>2. h_step(disp) # 0  BY <3>1, NoHeight DEF IInv, TypeOK
    <3>. HIDE DEF h_step
    <3>. QED  BY <3>1, <3>2 DEF LinesLeft
  <2>2. CASE Finish  BY <2>2 DEF Finish
  <2>. QED
    BY <2>1, <2>2 DEF Next, test_lcd, cmd_test_lcd, SetBacklight,
                      SetBacklightFails, NoBuffer, Allocate
<1>3. Spec => []IInv  BY InitInv, Inductive, PTL DEF Spec
<1>. QED  BY <1>1, <1>2, <1>3, PTL DEF Spec

\* On the others the loop that has begun stays at its line for ever, with the
\* buffer allocated and the display blanked: the bound of DrawingEnds is exact.
THEOREM FlatNeverEnds ==
    Spec => [][at = "draw" /\ idx < disp.y /\ disp.y < 5 /\ Small(disp)
                 => at' = "draw" /\ UNCHANGED <<idx, disp, buf, blanked>>]_vars
<1>1. IInv /\ [Next]_vars
        => [at = "draw" /\ idx < disp.y /\ disp.y < 5 /\ Small(disp)
              => at' = "draw" /\ UNCHANGED <<idx, disp, buf, blanked>>]_vars
  <2>. SUFFICES ASSUME IInv, Next, at = "draw", idx < disp.y, disp.y < 5, Small(disp)
                PROVE  at' = "draw" /\ UNCHANGED <<idx, disp, buf, blanked>>
    OBVIOUS
  <2>1. CASE Draw
    <3>1. idx' = idx + h_step(disp) /\ h_step(disp) = 0 /\ idx \in Nat
      BY <2>1, NoHeight DEF Draw, IInv, TypeOK
    <3>. QED  BY <2>1, <3>1 DEF Draw, screen
  <2>2. ~Finish
    <3>1. idx \in Nat /\ disp.y \in Nat  BY StepType DEF IInv, TypeOK
    <3>. QED  BY <3>1 DEF Finish
  <2>. QED
    BY <2>1, <2>2 DEF Next, test_lcd, cmd_test_lcd, SetBacklight,
                      SetBacklightFails, NoBuffer, Allocate
<1>2. Spec => []IInv  BY InitInv, Inductive, PTL DEF Spec
<1>. QED  BY <1>1, <1>2, PTL DEF Spec

===============================================================================
