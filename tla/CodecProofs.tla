------------------------------ MODULE CodecProofs ------------------------------
(* What TLAPS proves of CodecStream, for every size of its tables. *)
EXTENDS CodecStream, TLAPS

\* A test is made only while the command has tests to make.
Counting == pc \in {"start", "write", "sleep", "drop"} => tests > 0

\* What Return assigns.
Returned ==
    /\ result' \in {"none", "OK", "error"}
    /\ dropless' \in BOOLEAN
    /\ tests' \in 0 .. Repeats /\ pc' \in {"start", "idle"}
    /\ pc' = "start" => tests' > 0

\* Return, from any of the steps that call it, leaves values of the right kind
\* and starts another test only while there is one to make.
LEMMA ReturnType ==
    ASSUME TypeOK, Counting, pc \in {"start", "write", "sleep", "drop"},
           NEW ret \in {"OK", "error"}, NEW drops \in BOOLEAN, Return(ret, drops)
    PROVE  Returned
<1>1. result' = ret /\ dropless' = (dropless \/ ~drops)
  BY DEF Return
<1>2. tests \in 1 .. Repeats /\ tests' = tests - 1
  BY CodecAssumption DEF Return, TypeOK, Counting
<1>3. result' \in {"none", "OK", "error"}
  BY <1>1 DEF TypeOK
<1>4. dropless' \in BOOLEAN
  BY <1>1 DEF Return, TypeOK
<1>5. tests' \in 0 .. Repeats /\ (tests > 1 => tests' > 0)
  BY <1>2, CodecAssumption
<1>. QED  BY <1>3, <1>4, <1>5 DEF Return, Returned

\* Every variable keeps to its values: the queue stays within its room, and
\* the count of tests does not run below 0.
THEOREM TypeCorrect == Spec => [](TypeOK /\ Counting)
<1>1. Init => TypeOK /\ Counting
  <2>. SUFFICES ASSUME Init PROVE TypeOK /\ Counting
    OBVIOUS
  <2>1. result \in {"none", "OK", "error"}  BY DEF Init
  <2>2. written \in 0 .. NumRegs /\ queue \in 0 .. TxBlocks /\ tests \in 0 .. Repeats
    BY CodecAssumption DEF Init
  <2>. QED  BY <2>1, <2>2 DEF Init, TypeOK, Counting
<1>2. TypeOK /\ Counting /\ [Next]_vars => TypeOK' /\ Counting'
  <2>. SUFFICES ASSUME TypeOK, Counting, [Next]_vars
                PROVE  TypeOK' /\ Counting'
    OBVIOUS
  <2>. USE CodecAssumption DEF codec, table, i2s, history
  <2>1. CASE init_audio
    <3>1. CASE WriteReg  BY <3>1 DEF WriteReg, TypeOK, Counting
    <3>2. CASE WriteRegFails  BY <3>2 DEF WriteRegFails, TypeOK, Counting
    <3>3. CASE SetPll  BY <3>3 DEF SetPll, TypeOK, Counting, PllRegisters
    <3>4. CASE init_codec  BY <3>4 DEF init_codec, TypeOK, Counting
    <3>. QED  BY <2>1, <3>1, <3>2, <3>3, <3>4 DEF init_audio
  <2>2. CASE cmd_test_codec
    <3>1. Repeats \in 0 .. Repeats /\ Repeats > 0  OBVIOUS
    <3>. QED  BY <2>2, <3>1 DEF cmd_test_codec, TypeOK, Counting
  <2>3. CASE Start
    <3>1. stream' \in {"unconfigured", "ready", "running", "error"}
      BY <2>3 DEF Start, Started, StartFails, TypeOK
    <3>2. CASE pc' = "write" /\ UNCHANGED <<tests, history>>
      BY <2>3, <3>1, <3>2 DEF Start, TypeOK, Counting
    <3>3. CASE Return("error", TRUE)
      <4>1. Returned  BY <2>3, <3>3, ReturnType DEF Start
      <4>. QED  BY <2>3, <3>1, <4>1 DEF Start, Returned, TypeOK, Counting
    <3>. QED  BY <2>3, <3>2, <3>3 DEF Start
  <2>4. CASE Write  BY <2>4 DEF Write, CanWrite, TypeOK, Counting
  <2>5. CASE WriteFails
    <3>1. Returned  BY <2>5, ReturnType DEF WriteFails
    <3>. QED  BY <2>5, <3>1 DEF WriteFails, Returned, TypeOK, Counting
  <2>6. CASE Sleep  BY <2>6 DEF Sleep, TypeOK, Counting
  <2>7. CASE DropStream
    <3>1. CASE Drop /\ Return("OK", TRUE)
      <4>1. stream' = "ready" /\ queue' \in 0 .. TxBlocks  BY <3>1 DEF Drop
      <4>3. /\ head' \in {i2s_test_data, "slab", "table"}
            /\ free_list' \in {"slab", "table"} /\ whole' = whole
        BY <3>1 DEF Drop, Free, TypeOK
      <4>2. Returned  BY <2>7, <3>1, ReturnType DEF DropStream
      <4>. QED  BY <2>7, <4>1, <4>2, <4>3 DEF DropStream, Returned, TypeOK, Counting
    <3>2. CASE Return("error", FALSE) /\ UNCHANGED i2s
      <4>1. /\ stream' = stream /\ queue' = queue
            /\ UNCHANGED <<head, free_list, whole>>
        BY <3>2
      <4>2. Returned  BY <2>7, <3>2, ReturnType DEF DropStream
      <4>. QED  BY <2>7, <4>1, <4>2 DEF DropStream, Returned, TypeOK, Counting
    <3>. QED  BY <2>7, <3>1, <3>2 DEF DropStream
  <2>8. CASE Interrupt
    <3>1. CASE Send
      <4>1. queue' \in 0 .. TxBlocks  BY <3>1 DEF Send, TypeOK
      <4>2. /\ head' \in {"slab", "table"} /\ free_list' = "table"
            /\ whole' \in Nat
        BY <3>1 DEF Send, Free, TypeOK
      <4>. QED  BY <3>1, <4>1, <4>2 DEF Send, TypeOK, Counting
    <3>2. CASE Underrun  BY <3>2 DEF Underrun, TypeOK, Counting
    <3>. QED  BY <2>8, <3>1, <3>2 DEF Interrupt
  <2>9. CASE UNCHANGED vars  BY <2>9 DEF vars, TypeOK, Counting
  <2>. QED
    BY <2>1, <2>2, <2>3, <2>4, <2>5, <2>6, <2>7, <2>8, <2>9 DEF Next, test_codec
<1>. QED  BY <1>1, <1>2, PTL DEF Spec

\* StreamKept is inductive relative to TypeOK.
LEMMA StreamKeptInductive ==
    TypeOK /\ StreamKept /\ [Next]_vars => StreamKept'
<1>. SUFFICES ASSUME TypeOK, StreamKept, [Next]_vars PROVE StreamKept'
  OBVIOUS
<1>. USE DEF codec, table, i2s, history, StreamKept
<1>1. CASE init_audio
  BY <1>1
  DEF init_audio, WriteReg, WriteRegFails, SetPll, init_codec, TypeOK
<1>2. CASE cmd_test_codec  BY <1>2 DEF cmd_test_codec
<1>3. CASE Start
  <2>1. CASE Started /\ pc' = "write" /\ UNCHANGED <<tests, history>>
    BY <1>3, <2>1 DEF Start, Started
  <2>2. CASE StartFails /\ Return("error", TRUE)
    BY <1>3, <2>2 DEF Start, StartFails, Return, TypeOK
  <2>. QED  BY <1>3, <2>1, <2>2 DEF Start
<1>4. CASE Write  BY <1>4 DEF Write, CanWrite
<1>5. CASE WriteFails  BY <1>5 DEF WriteFails, Return
<1>6. CASE Sleep  BY <1>6 DEF Sleep
<1>7. CASE DropStream
  <2>1. CASE Drop /\ Return("OK", TRUE)
    BY <1>7, <2>1 DEF DropStream, Drop, Return
  <2>2. CASE Return("error", FALSE) /\ UNCHANGED i2s
    BY <1>7, <2>2 DEF DropStream, Return
  <2>. QED  BY <1>7, <2>1, <2>2 DEF DropStream
<1>8. CASE Interrupt  BY <1>8 DEF Interrupt, Send, Underrun, TypeOK
<1>9. CASE UNCHANGED vars  BY <1>9 DEF vars
<1>. QED
  BY <1>1, <1>2, <1>3, <1>4, <1>5, <1>6, <1>7, <1>8, <1>9 DEF Next, test_codec

\* A started transmitter is made ready only by a drop.
THEOREM Kept == Spec => []StreamKept
<1>1. Init => StreamKept  BY DEF Init, StreamKept
<1>2. Spec => []TypeOK  BY TypeCorrect, PTL
<1>. QED  BY <1>1, <1>2, StreamKeptInductive, PTL DEF Spec

\* i2s_write always finds the transmitter's queue empty.
THEOREM RoomForWrite == Spec => []WriteFindsRoom
<1>1. StreamKept => WriteFindsRoom  BY DEF StreamKept, WriteFindsRoom
<1>. QED  BY <1>1, Kept, PTL

\* After a test that had started returned without a drop, no test says OK
\* before the next reset.
THEOREM DroplessIsFinal == Spec => []NoOkWithoutDrop
<1>1. StreamKept => NoOkWithoutDrop  BY DEF StreamKept, NoOkWithoutDrop
<1>. QED  BY <1>1, Kept, PTL

-------------------------------------------------------------------------------
(* The table *)

\* As long as the table is whole no block was sent, and the list of free blocks
\* never leads to the table's contents.
TableKept ==
    /\ free_list # i2s_test_data
    /\ head = i2s_test_data => whole = 0
    /\ whole \in {0, 1}

\* A queue of one block: what WriteFindsRoom adds to.
OneBlock == queue \in {0, 1}

\* Both are inductive next to StreamKept.
LEMMA TableInductive ==
    TypeOK /\ StreamKept /\ TableKept /\ OneBlock /\ [Next]_vars
        => TableKept' /\ OneBlock' /\ (head' # head => queue' = 0)
<1>. SUFFICES ASSUME TypeOK, StreamKept, TableKept, OneBlock, [Next]_vars
              PROVE  TableKept' /\ OneBlock' /\ (head' # head => queue' = 0)
  OBVIOUS
<1>. USE DEF codec, table, i2s, history, TableKept, OneBlock
<1>1. CASE init_audio
  BY <1>1 DEF init_audio, WriteReg, WriteRegFails, SetPll, init_codec
<1>2. CASE cmd_test_codec  BY <1>2 DEF cmd_test_codec
<1>3. CASE Start  BY <1>3 DEF Start
<1>4. CASE Write  BY <1>4 DEF Write, StreamKept
<1>5. CASE WriteFails  BY <1>5 DEF WriteFails
<1>6. CASE Sleep  BY <1>6 DEF Sleep
<1>7. CASE DropStream  BY <1>7 DEF DropStream, Drop, Free, i2s_test_data
<1>8. CASE Send
  <2>1. queue = 1 /\ queue' = 0  BY <1>8 DEF Send
  <2>2. head' = free_list /\ free_list' = "table"  BY <1>8 DEF Send, Free
  <2>3. whole' = IF head = i2s_test_data THEN whole + 1 ELSE whole
    BY <1>8 DEF Send
  <2>. QED  BY <2>1, <2>2, <2>3 DEF i2s_test_data
<1>9. CASE Underrun  BY <1>9 DEF Underrun
<1>10. CASE UNCHANGED vars  BY <1>10 DEF vars
<1>. QED
  BY <1>1, <1>2, <1>3, <1>4, <1>5, <1>6, <1>7, <1>8, <1>9, <1>10
  DEF Next, test_codec, Interrupt

\* At most one block of a boot is sent as it was compiled.
THEOREM SentOnce == Spec => []SentWholeOnce
<1>1. Init => TableKept /\ OneBlock
  BY DEF Init, TableKept, OneBlock, i2s_test_data
<1>2. Spec => []TypeOK  BY TypeCorrect, PTL
<1>3. TableKept => SentWholeOnce  BY DEF TableKept, SentWholeOnce
<1>. QED  BY <1>1, <1>2, <1>3, Kept, TableInductive, PTL DEF Spec

\* The table is written by no one while it waits to be sent.
THEOREM Steady == Spec => TableSteady
<1>1. Init => TableKept /\ OneBlock
  BY DEF Init, TableKept, OneBlock, i2s_test_data
<1>2. Spec => []TypeOK  BY TypeCorrect, PTL
<1>3. TypeOK /\ StreamKept /\ TableKept /\ OneBlock /\ [Next]_vars
        => [head' # head => queue' = 0]_vars
  BY TableInductive
<1>. QED  BY <1>1, <1>2, <1>3, Kept, TableInductive, PTL DEF Spec, TableSteady

-------------------------------------------------------------------------------
(* The PLL *)

\* Division of a Q13 value in two steps.
LEMMA Divides ==
    ASSUME NEW a \in Nat, NEW m \in Nat \ {0}
    PROVE  /\ a \div m \in Nat /\ a % m \in Nat
           /\ a = m * (a \div m) + (a % m) /\ a % m < m
OBVIOUS

\* What a bound on the dividend says of the quotient.
LEMMA Bounded ==
    ASSUME NEW m \in Nat \ {0}, NEW q \in Nat, NEW r \in Nat, r < m
    PROVE  m * q + r < m * 256 <=> q <= 255
<1>1. CASE q <= 255
  <2>1. PICK d \in Nat : q + d = 255  BY <1>1
  <2>2. m * q + m * d = m * 255  BY <2>1
  <2>3. m * d \in Nat /\ m * q \in Nat  OBVIOUS
  <2>. QED  BY <1>1, <2>2, <2>3
<1>2. CASE q > 255
  <2>1. PICK d \in Nat : q = 256 + d  BY <1>2
  <2>2. m * q = m * 256 + m * d  BY <2>1
  <2>3. m * d \in Nat  OBVIOUS
  <2>. QED  BY <1>2, <2>2, <2>3
<1>. QED  BY <1>1, <1>2

\* The integer part of the divider fits its byte exactly for the clocks above
\* 2 MHz, which is why the firmware cannot be built for the other clock that
\* test_codec.h names.
THEOREM IntegerFits ==
    ASSUME NEW b \in [rate : Nat, clock : Nat \ {0}]
    PROVE  b.clock > MASTER_CLOCK_FREQ_2MHZ <=> Dividend(b) \div b.clock <= 255
<1>. DEFINE m == b.clock
            q == Dividend(b) \div m
            r == Dividend(b) % m
<1>1. SysClock(b.rate) \in {56448, 61440}  BY DEF SysClock
<1>2. Dividend(b) \in Nat
  BY <1>1 DEF Dividend, SAMPLE_BIT_WIDTH, InDivider
<1>3. m \in Nat \ {0} /\ q \in Nat /\ r \in Nat /\ r < m /\ Dividend(b) = m * q + r
  BY <1>2, Divides
<1>4. Dividend(b) < m * 256 <=> q <= 255
  <2>. HIDE DEF m, q, r
  <2>. QED  BY <1>3, Bounded
<1>5. m > MASTER_CLOCK_FREQ_2MHZ => Dividend(b) < m * 256
  BY <1>1 DEF Dividend, SAMPLE_BIT_WIDTH, InDivider, MASTER_CLOCK_FREQ_2MHZ
<1>6. ~(m > MASTER_CLOCK_FREQ_2MHZ) => Dividend(b) >= m * 256
  BY <1>1 DEF Dividend, SAMPLE_BIT_WIDTH, InDivider, MASTER_CLOCK_FREQ_2MHZ
<1>7. Dividend(b) >= m * 256 => ~(Dividend(b) < m * 256)  BY <1>2, <1>3
<1>. QED  BY <1>4, <1>5, <1>6, <1>7

\* In every build whose clock is above 2 MHz the registers hold the divider.
THEOREM InTune == Spec => []PllInTune
<1>1. ASSUME NEW b \in Builds PROVE Tuned(b)
  <2>. DEFINE m == b.clock
              a == Dividend(b)
              q == a \div m
              r == a % m
              f == (r * 8192) \div m
  <2>1. m \in Nat \ {0} /\ m > MASTER_CLOCK_FREQ_2MHZ
        /\ b \in [rate : Nat, clock : Nat \ {0}]
    BY CodecAssumption DEF MASTER_CLOCK_FREQ_2MHZ
  <2>2. a \in Nat
    BY <2>1 DEF Dividend, SAMPLE_BIT_WIDTH, InDivider, SysClock
  <2>3. q \in Nat /\ r \in Nat /\ a = m * q + r /\ r < m
    BY <2>1, <2>2, Divides
  <2>4. q <= 255  BY <2>1, IntegerFits
  <2>5. PllInteger(b) = q
    <3>. HIDE DEF q
    <3>1. q % 256 = q  BY <2>3, <2>4
    <3>. QED  BY <3>1 DEF PllInteger, q
  <2>6. a = SysClock(b.rate) * SAMPLE_BIT_WIDTH
              * <<2, 4, 8, 16>>[1 + InDivider(m).indiv \div 4]
    BY <2>1 DEF Dividend, InDivider
  <2>7. /\ f \in Nat
        /\ m * f <= r * 8192 /\ r * 8192 < m * f + m
    <3>. HIDE DEF r, m
    <3>1. PICK n \in Nat : n = r * 8192  BY <2>3
    <3>2. PICK d \in Nat, g \in Nat : d = n \div m /\ n = m * d + g /\ g < m
      BY <2>1, Divides
    <3>3. f = d  BY <3>1, <3>2
    <3>4. m * d \in Nat  BY <2>1
    <3>. HIDE DEF f
    <3>. QED  BY <2>1, <3>1, <3>2, <3>3, <3>4
  <2>8. f < 8192
    <3>. HIDE DEF r, m, f
    <3>1. CASE f >= 8192
      <4>1. PICK d \in Nat : f = 8192 + d  BY <2>7, <3>1
      <4>2. m * f = m * 8192 + m * d /\ m * d \in Nat  BY <2>1, <4>1
      <4>. QED  BY <2>1, <2>3, <2>7, <4>2
    <3>. QED  BY <2>7, <3>1
  <2>9. PllFractional(b) = f  BY DEF PllFractional
  <2>10. q * m = m * q /\ f * m = m * f /\ (f + 1) * m = m * f + m
    <3>. HIDE DEF q, m, f
    <3>. QED  BY <2>1, <2>3, <2>7
  <2>11. f \div 256 < 256
    <3>. HIDE DEF f
    <3>. QED  BY <2>7, <2>8
  <2>. HIDE DEF a, q, r, f
  <2>. QED
    BY <2>1, <2>2, <2>3, <2>5, <2>6, <2>7, <2>9, <2>10, <2>11 DEF Tuned
<1>2. TypeOK => PllInTune  BY <1>1 DEF TypeOK, PllInTune
<1>. QED  BY <1>2, TypeCorrect, PTL

-------------------------------------------------------------------------------
(* The length of a command *)

Testing == {"start", "write", "sleep", "drop"}

CallsFrom == [start |-> 4, write |-> 3, sleep |-> 2, drop |-> 1]

\* The most calls that are left of the command: four for every further test.
CallsLeft == IF pc \in Testing THEN 4 * (tests - 1) + CallsFrom[pc] ELSE 0

\* It is a number, and none is left exactly outside a command.
LEMMA CallsLeftType ==
    ASSUME TypeOK, Counting
    PROVE  /\ CallsLeft \in Nat /\ (CallsLeft = 0 <=> pc \notin Testing)
           /\ CallsLeft <= 4 * Repeats
<1>1. tests \in 0 .. Repeats /\ Repeats \in Nat
  BY CodecAssumption DEF TypeOK
<1>. QED  BY <1>1 DEF Testing, CallsFrom, CallsLeft, Counting

\* A test that returns leaves no more than the tests after it.
LEMMA ReturnDecreases ==
    ASSUME TypeOK, Counting, pc \in Testing, NEW ret, NEW drops, Return(ret, drops)
    PROVE  CallsLeft' < CallsLeft
<1>1. tests \in Nat /\ tests > 0 /\ tests' = tests - 1
  BY CodecAssumption DEF TypeOK, Counting, Testing, Return
<1>2. CallsLeft > 4 * (tests - 1)
  BY <1>1 DEF CallsLeft, CallsFrom, Testing
<1>3. CASE tests > 1
  <2>1. CallsLeft' = 4 * (tests - 2) + 4
    BY <1>1, <1>3 DEF Return, CallsLeft, CallsFrom, Testing
  <2>. HIDE DEF CallsLeft
  <2>2. CallsLeft \in Nat  BY CallsLeftType
  <2>. QED  BY <1>1, <1>2, <2>1, <2>2
<1>4. CASE ~(tests > 1)
  <2>1. CallsLeft' = 0  BY <1>4 DEF Return, CallsLeft, Testing
  <2>. HIDE DEF CallsLeft
  <2>2. CallsLeft \in Nat  BY CallsLeftType
  <2>. QED  BY <1>1, <1>2, <2>1, <2>2
<1>. QED  BY <1>3, <1>4

\* However its calls end, and whatever the interrupt does between them, a
\* command makes at most four for each of its tests, and each leaves fewer:
\* with the fairness of the shell thread this is CommandReturns.
THEOREM CommandShrinks ==
    Spec => /\ [](/\ CallsLeft \in 0 .. 4 * Repeats
                  /\ CallsLeft = 0 <=> pc \notin Testing)
            /\ [][test_codec => CallsLeft' < CallsLeft]_vars
            /\ [][(pc \in Testing) => \/ CallsLeft' < CallsLeft
                                      \/ UNCHANGED <<pc, tests>>]_vars
<1>1. TypeOK /\ Counting => /\ CallsLeft \in 0 .. 4 * Repeats
                            /\ CallsLeft = 0 <=> pc \notin Testing
  <2>. SUFFICES ASSUME TypeOK, Counting
                PROVE  /\ CallsLeft \in 0 .. 4 * Repeats
                       /\ CallsLeft = 0 <=> pc \notin Testing
    OBVIOUS
  <2>1. 4 * Repeats \in Nat  BY CodecAssumption
  <2>. QED  BY <2>1, CallsLeftType
<1>2. TypeOK /\ Counting /\ test_codec => CallsLeft' < CallsLeft
  <2>. SUFFICES ASSUME TypeOK, Counting, test_codec PROVE CallsLeft' < CallsLeft
    OBVIOUS
  <2>1. pc \in Testing
    BY DEF test_codec, Start, Write, WriteFails, Sleep, DropStream, Testing
  <2>2. CASE \E ret, drops : Return(ret, drops)
    BY <2>1, <2>2, ReturnDecreases
  <2>3. CASE /\ \/ pc = "start" /\ pc' = "write"
                \/ pc = "write" /\ pc' = "sleep"
                \/ pc = "sleep" /\ pc' = "drop"
             /\ tests' = tests
    <3>1. tests \in Nat  BY DEF TypeOK
    <3>. QED  BY <2>3, <3>1 DEF CallsLeft, CallsFrom, Testing
  <2>. QED
    BY <2>2, <2>3 DEF test_codec, Start, Write, WriteFails, Sleep, DropStream
<1>3. TypeOK /\ Counting /\ [Next]_vars /\ pc \in Testing
        => CallsLeft' < CallsLeft \/ UNCHANGED <<pc, tests>>
  <2>. SUFFICES ASSUME TypeOK, Counting, [Next]_vars, pc \in Testing
                PROVE  CallsLeft' < CallsLeft \/ UNCHANGED <<pc, tests>>
    OBVIOUS
  <2>1. CASE test_codec  BY <1>2, <2>1
  <2>2. ~init_audio /\ ~cmd_test_codec
    BY DEF init_audio, WriteReg, WriteRegFails, SetPll, init_codec,
           cmd_test_codec, Testing
  <2>3. CASE Interrupt \/ UNCHANGED vars
    BY <2>3 DEF Interrupt, Send, Underrun, vars
  <2>. QED  BY <2>1, <2>2, <2>3 DEF Next
<1>. QED  BY <1>1, <1>2, <1>3, TypeCorrect, PTL DEF Spec

\* A stream that a test has left undropped is never made ready again, so the
\* loss lasts until the next reset, whatever the later commands do.
THEOREM LostStreamStays ==
    Spec => [][dropless => dropless' /\ stream' # "ready" /\ result' = "error"]_vars
<1>1. ASSUME [Next]_vars, dropless PROVE dropless'
  <2>1. CASE \E ret, drops : Return(ret, drops)
    BY <1>1, <2>1 DEF Return
  <2>2. CASE UNCHANGED dropless  BY <1>1, <2>2
  <2>. QED
    BY <1>1, <2>1, <2>2
    DEF Next, init_audio, WriteReg, WriteRegFails, SetPll, init_codec,
        cmd_test_codec, test_codec, Start, Write, WriteFails, Sleep, DropStream,
        Interrupt, Send, Underrun, history, vars
<1>2. StreamKept' /\ dropless' => stream' # "ready" /\ result' = "error"
  BY DEF StreamKept
<1>3. StreamKept' /\ [Next]_vars
        => [dropless => dropless' /\ stream' # "ready" /\ result' = "error"]_vars
  BY <1>1, <1>2
<1>. QED  BY <1>3, Kept, PTL DEF Spec

===============================================================================
