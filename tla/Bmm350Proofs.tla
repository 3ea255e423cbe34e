----------------------------- MODULE Bmm350Proofs -----------------------------
(* What TLAPS proves of Bmm350, for any set of fields. *)
EXTENDS Bmm350, TLAPS

-------------------------------------------------------------------------------
(* The conversion *)

\* The modulus as a number of no particular value: all that most steps need.
LEMMA ModulusPositive ==
    /\ Modulus \in Int /\ TEMP_OFFSET \in Int
    /\ TEMP_OFFSET > 0 /\ Modulus > TEMP_OFFSET
BY SMT DEF Modulus, TEMP_OFFSET

\* A sample is within half the modulus of 0.
LEMMA SampleBounds ==
    \A v \in Sample : v \in Int /\ -Modulus <= 2 * v /\ 2 * v < Modulus
BY ModulusPositive, SMT DEF Sample

\* Three bytes, put together again, are the number they were taken from; and
\* for a negative sample that number is 2^24 too large, for every sample that
\* the sensor can give.
LEMMA BytesRoundTrip ==
    ASSUME NEW v \in Sample
    PROVE  FromBytes(ToBytes(v)) = Unsigned(v) /\ Unsigned(v) \in Reading
<1>. DEFINE u == v % Modulus
<1>1. u \in Int /\ u = Unsigned(v) /\ 0 <= u /\ u < Modulus
  BY SampleBounds, ModulusPositive, SMT DEF Unsigned
<1>2. FromBytes(ToBytes(v))
        = (u \div (256 * 256)) * 256 * 256 + ((u \div 256) % 256) * 256 + (u % 256)
  BY SMT DEF FromBytes, ToBytes
<1>. HIDE DEF u
<1>3. (u \div (256 * 256)) * 256 * 256 + ((u \div 256) % 256) * 256 + (u % 256) = u
  BY <1>1, SMT DEF Modulus
<1>4. u \in Reading  BY <1>1, ModulusPositive, SMT DEF Reading
<1>. QED  BY <1>1, <1>2, <1>3, <1>4

\* The sign is lost, without exception: what the code makes of a negative field
\* is a positive number that no field gives, and the branch of bmm3_temp_read
\* for a negative number is never taken.
THEOREM SignIsLost ==
    ASSUME NEW v \in Sample
    PROVE  /\ v < 0 => \A w \in Sample : FromBytes(ToBytes(v)) > w
           /\ ~(FromBytes(ToBytes(v)) < 0)
BY BytesRoundTrip, SampleBounds, ModulusPositive, SMT DEF Unsigned

\* So the offset is only ever subtracted, and a sample of 0 alone escapes it.
LEMMA OffsetSubtracted ==
    ASSUME NEW v \in Sample
    PROVE  /\ Compensated(FromBytes(ToBytes(v)))
                = IF v = 0 THEN 0 ELSE Unsigned(v) - TEMP_OFFSET
           /\ Compensated(FromBytes(ToBytes(v))) \in Corrected
<1>. DEFINE t == FromBytes(ToBytes(v))
<1>1. t = Unsigned(v) /\ t \in Reading  BY BytesRoundTrip
<1>2. t \in Int /\ 0 <= t /\ t < Modulus
  BY <1>1, ModulusPositive, SMT DEF Reading
<1>3. t = 0 <=> v = 0
  BY <1>1, SampleBounds, ModulusPositive, SMT DEF Unsigned
<1>. HIDE DEF t
<1>4. Compensated(t) = IF t = 0 THEN 0 ELSE t - TEMP_OFFSET
  BY <1>2, ModulusPositive, SMT DEF Compensated
<1>5. Compensated(t) \in Corrected
  BY <1>2, <1>4, ModulusPositive, SMT DEF Corrected
<1>. QED  BY <1>1, <1>3, <1>4, <1>5 DEF t

-------------------------------------------------------------------------------
(* The command *)

\* A command that has met no failed transfer has its measurement under way or
\* done; past the first wait it is done, and what has been read is what the
\* sensor still holds.
Measuring ==
    /\ pc \notin {"init", "idle"} => field \in seen
    /\ pc \in {"sleep", "mag_poll"} /\ ~faulted => measuring \/ data \in seen
    /\ pc \in {"mag_data", "temp_poll", "temp_data", "print"} /\ ~faulted =>
           ~measuring /\ data \in seen
    /\ pc \in {"temp_poll", "temp_data", "print"} /\ ~faulted =>
           data # Garbage /\ mag = Unsigned(data.mag)
    /\ pc = "print" /\ ~faulted =>
           temp = IF data.temp = 0 THEN 0 ELSE Unsigned(data.temp) - TEMP_OFFSET

\* What is measured are samples.
LEMMA FieldsAreSamples ==
    \A f \in Fields : f.mag \in Sample /\ f.temp \in Sample
BY BmmAssumption

\* The sensor is set once; before that nobody has been told of success.
Set ==
    /\ pc = "init" => initRet = 1
    /\ OdrCacheHonest

\* Every variable keeps to its values, whichever transfers fail.
THEOREM TypeCorrect == Spec => []TypeOK
<1>1. Init => TypeOK
  BY BmmAssumption DEF Init, TypeOK
<1>2. TypeOK /\ [Next]_vars => TypeOK'
  <2>. SUFFICES ASSUME TypeOK, [Next]_vars PROVE TypeOK'
    OBVIOUS
  <2>. USE DEF TypeOK, sensor, boot, locals
  <2>1. CASE FieldChanges  BY <2>1 DEF FieldChanges
  <2>2. CASE Measured  BY <2>2 DEF Measured
  <2>3. CASE cmd_test_bmm350  BY <2>3 DEF cmd_test_bmm350
  <2>4. CASE init_bmm350  BY <2>4 DEF init_bmm350
  <2>5. CASE bmm3_mag_oneshot  BY <2>5 DEF bmm3_mag_oneshot
  <2>6. CASE Sleep  BY <2>6 DEF Sleep
  <2>7. CASE bmm3_mag_data
    <3>1. data # Garbage => FromBytes(ToBytes(data.mag)) \in Reading
      BY FieldsAreSamples, BytesRoundTrip
    <3>. QED  BY <2>7, <3>1 DEF bmm3_mag_data
  <2>8. CASE bmm3_temp_data
    <3>1. data # Garbage => Compensated(FromBytes(ToBytes(data.temp))) \in Corrected
      BY FieldsAreSamples, OffsetSubtracted
    <3>. QED  BY <2>8, <3>1 DEF bmm3_temp_data
  <2>9. CASE PrintSample  BY <2>9 DEF PrintSample
  <2>10. CASE MagDone \/ TempDone  BY <2>10 DEF MagDone, TempDone, PollDone
  <2>11. CASE Repeat  BY <2>11 DEF Repeat, PollAgain
  <2>12. CASE UNCHANGED vars  BY <2>12 DEF vars
  <2>. QED
    BY <2>1, <2>2, <2>3, <2>4, <2>5, <2>6, <2>7, <2>8, <2>9, <2>10, <2>11, <2>12
       DEF Next, Straight
<1>. QED  BY <1>1, <1>2, PTL DEF Spec

\* When no transfer of a command failed, the field and the temperature it
\* prints come from one measurement, made while the command ran: the two waits
\* of bmm3_mag_read and bmm3_temp_read are enough for that.
THEOREM Fresh == Spec => []PrintedIsFresh
<1>1. Init => Measuring
  BY DEF Init, Measuring
<1>2. Measuring /\ TypeOK /\ [Next]_vars => Measuring'
  <2>. SUFFICES ASSUME Measuring, TypeOK, [Next]_vars PROVE Measuring'
    OBVIOUS
  <2>. seen \subseteq Fields /\ Garbage \notin seen
    BY BmmAssumption DEF TypeOK
  <2>. USE DEF Measuring, sensor, boot, locals
  <2>1. CASE FieldChanges  BY <2>1 DEF FieldChanges
  <2>2. CASE Measured  BY <2>2 DEF Measured
  <2>3. CASE cmd_test_bmm350  BY <2>3 DEF cmd_test_bmm350
  <2>4. CASE init_bmm350  BY <2>4 DEF init_bmm350
  <2>5. CASE bmm3_mag_oneshot  BY <2>5 DEF bmm3_mag_oneshot
  <2>6. CASE Sleep  BY <2>6 DEF Sleep
  <2>7. CASE bmm3_mag_data
    <3>1. data \in seen => FromBytes(ToBytes(data.mag)) = Unsigned(data.mag)
      BY FieldsAreSamples, BytesRoundTrip
    <3>. QED  BY <2>7, <3>1 DEF bmm3_mag_data
  <2>8. CASE bmm3_temp_data
    <3>1. data \in seen =>
            Compensated(FromBytes(ToBytes(data.temp)))
              = IF data.temp = 0 THEN 0 ELSE Unsigned(data.temp) - TEMP_OFFSET
      BY FieldsAreSamples, OffsetSubtracted
    <3>. QED  BY <2>8, <3>1 DEF bmm3_temp_data
  <2>9. CASE PrintSample  BY <2>9 DEF PrintSample
  <2>10. CASE MagDone \/ TempDone  BY <2>10 DEF MagDone, TempDone, PollDone
  <2>11. CASE Repeat  BY <2>11 DEF Repeat, PollAgain
  <2>12. CASE UNCHANGED vars  BY <2>12 DEF vars
  <2>. QED
    BY <2>1, <2>2, <2>3, <2>4, <2>5, <2>6, <2>7, <2>8, <2>9, <2>10, <2>11, <2>12
       DEF Next, Straight
<1>3. Measuring => PrintedIsFresh
  BY DEF Measuring, PrintedIsFresh
<1>. QED  BY <1>1, <1>2, <1>3, TypeCorrect, PTL DEF Spec

\* When init_bmm350 reported success, last_odr is what the sensor has.  The
\* cache is set before the register is written, so this rests on the results
\* of the three writes being or-ed together.
THEOREM CacheHonest == Spec => []OdrCacheHonest
<1>1. Init => Set
  BY DEF Init, Set, OdrCacheHonest
<1>2. Set /\ [Next]_vars => Set'
  <2>. SUFFICES ASSUME Set, [Next]_vars PROVE Set'
    OBVIOUS
  <2>. USE DEF Set, OdrCacheHonest
  <2>1. CASE init_bmm350
    <3>1. PICK failed \in SUBSET {"OTP_CMD_REG", "PMU_CMD_AGGR_SET", "PMU_CMD"} :
             /\ aggr_set' = IF "PMU_CMD_AGGR_SET" \in failed
                            THEN aggr_set ELSE PMU_CMD_SUS
             /\ initRet' = IF failed = {} THEN 0 ELSE -1
      BY <2>1 DEF init_bmm350
    <3>2. initRet' = 0 => aggr_set' = PMU_CMD_SUS
      BY <3>1
    <3>. QED  BY <2>1, <3>2 DEF init_bmm350
  <2>2. CASE UNCHANGED <<last_odr, initRet, aggr_set>> /\ (pc' = "init" => pc = "init")
    BY <2>2
  <2>3. ASSUME ~init_bmm350
        PROVE  UNCHANGED <<last_odr, initRet, aggr_set>> /\ (pc' = "init" => pc = "init")
    BY <2>3 DEF Next, Straight, FieldChanges, Measured, cmd_test_bmm350,
         bmm3_mag_oneshot, Sleep, bmm3_mag_data, bmm3_temp_data, PrintSample, MagDone,
         TempDone, Repeat, PollDone, PollAgain, sensor, boot, vars
  <2>. QED  BY <2>1, <2>2, <2>3
<1>3. Set => OdrCacheHonest
  BY DEF Set
<1>. QED  BY <1>1, <1>2, <1>3, PTL DEF Spec

-------------------------------------------------------------------------------
(* The waits *)

\* How many steps of the command are left, repeated status reads aside.
StepsLeft ==
    CASE pc = "oneshot"   -> 7
      [] pc = "sleep"     -> 6
      [] pc = "mag_poll"  -> 5
      [] pc = "mag_data"  -> 4
      [] pc = "temp_poll" -> 3
      [] pc = "temp_data" -> 2
      [] pc = "print"     -> 1
      [] OTHER            -> 0

Commanded == pc \notin {"init", "idle"}

\* A command only goes forward, whatever fails.  It stays where it is by the
\* two waits alone: nothing makes the sensor busy again while one lasts, and
\* when it is not, only a status read that fails is repeated.  With the
\* fairness of the thread, the sensor and the bus this is CommandReturns.
THEOREM OnlyWaitsRepeat ==
    Spec => /\ [][Commanded => StepsLeft' < StepsLeft \/ UNCHANGED pc]_vars
            /\ [][(Commanded /\ Straight) \/ MagDone \/ TempDone
                    => StepsLeft' < StepsLeft]_vars
            /\ [][(pc \in {"mag_poll", "temp_poll"}) /\ ~measuring
                    => ~measuring' /\ (Repeat => faulted')]_vars
<1>. USE DEF Commanded, StepsLeft, sensor, boot, locals
<1>1. ASSUME (Commanded /\ Straight) \/ MagDone \/ TempDone
      PROVE  StepsLeft' < StepsLeft
  BY <1>1 DEF Straight, init_bmm350, bmm3_mag_oneshot, Sleep, bmm3_mag_data,
     bmm3_temp_data, PrintSample, MagDone, TempDone, PollDone
<1>2. ASSUME Commanded, [Next]_vars
      PROVE  StepsLeft' < StepsLeft \/ UNCHANGED pc
  <2>1. CASE Straight \/ MagDone \/ TempDone  BY <1>1, <1>2, <2>1
  <2>2. CASE ~(Straight \/ MagDone \/ TempDone)
    BY <1>2, <2>2 DEF Next, FieldChanges, Measured, cmd_test_bmm350, Repeat,
       PollAgain, vars
  <2>. QED  BY <2>1, <2>2
<1>3. ASSUME pc \in {"mag_poll", "temp_poll"}, ~measuring, [Next]_vars
      PROVE  ~measuring' /\ (Repeat => faulted')
  <2>1. Repeat => faulted'  BY <1>3 DEF Repeat, PollAgain
  <2>2. UNCHANGED measuring
    BY <1>3 DEF Next, FieldChanges, Measured, cmd_test_bmm350, Straight, init_bmm350,
       bmm3_mag_oneshot, Sleep, bmm3_mag_data, bmm3_temp_data, PrintSample, MagDone,
       TempDone, PollDone, Repeat, PollAgain, vars
  <2>. QED  BY <1>3, <2>1, <2>2
<1>. QED  BY <1>1, <1>2, <1>3, PTL DEF Spec

===============================================================================
