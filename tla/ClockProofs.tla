---------------------------- MODULE ClockProofs ----------------------------
(***************************************************************************)
(* Proofs about the clock driver, for days, hours and minutes of any       *)
(* length, any word and any set of starting days.  Two facts carry them:   *)
(* reading the registers in any mode and converting them back gives the    *)
(* same calendar time, and an announced tick waits for as many accesses as *)
(* the reader still needs.                                                 *)
(***************************************************************************)
EXTENDS Clock, TLAPS

-----------------------------------------------------------------------------
(* Arithmetic.                                                             *)

\* The remainder is the number that leaves a multiple.
LEMMA Remainder ==
    ASSUME NEW m \in Nat \ {0}, NEW q \in Int, NEW r \in 0 .. m - 1
    PROVE  (m * q + r) % m = r
OBVIOUS

\* Small numbers are their own remainder.
LEMMA SmallRemainder ==
    ASSUME NEW m \in Nat \ {0}, NEW r \in 0 .. m - 1
    PROVE  r % m = r /\ (r + m) % m = r
OBVIOUS

\* Counting on is the same before and after taking the remainder.
LEMMA CountingOn ==
    ASSUME NEW m \in Nat \ {0}, NEW a \in Int
    PROVE  (a + 1) % m = ((a % m) + 1) % m
<1> DEFINE q == a \div m
           r == a % m
<1>1. q \in Int /\ r \in 0 .. m - 1 /\ a = m * q + r
  OBVIOUS
<1> HIDE DEF q, r
<1>2. CASE r + 1 = m
  <2>1. a + 1 = m * (q + 1) + 0
    BY <1>1, <1>2
  <2>2. (m * (q + 1) + 0) % m = 0
    <3>1. q + 1 \in Int /\ 0 \in 0 .. m - 1
      BY <1>1
    <3> QED BY <3>1, Remainder
  <2>3. m % m = 0
    <3>1. 0 \in 0 .. m - 1
      OBVIOUS
    <3> QED BY <3>1, SmallRemainder
  <2> QED BY <1>2, <2>1, <2>2, <2>3 DEF r
<1>3. CASE r + 1 # m
  <2>1. r + 1 \in 0 .. m - 1
    BY <1>1, <1>3
  <2>2. a + 1 = m * q + (r + 1)
    BY <1>1
  <2>3. (m * q + (r + 1)) % m = r + 1
    BY <1>1, <2>1, Remainder
  <2>4. (r + 1) % m = r + 1
    BY <2>1, SmallRemainder
  <2> QED BY <2>2, <2>3, <2>4 DEF r
<1> QED BY <1>2, <1>3

\* The hours have a half.
LEMMA HalfFacts == HALF \in Nat \ {0} /\ HOURS = 2 * HALF /\ HALF <= 40
BY ClockAssumption DEF HALF

-----------------------------------------------------------------------------
\* Two digits are read back as they were written.
LEMMA DigitsBack ==
    ASSUME NEW v \in 0 .. 99
    PROVE  Unpacked(Encoded(v)) = v
BY DEF Unpacked, Encoded

\* Days of months.
LEMMA DaysInFacts ==
    ASSUME NEW y \in Nat, NEW m \in 1 .. 12
    PROVE  DaysIn(y, m) \in 28 .. 31
BY DEF DaysIn

-----------------------------------------------------------------------------
(* Times, and what the driver makes of their registers.                    *)

Times ==
    {t \in [second : 0 .. SECONDS - 1, minute : 0 .. MINUTES - 1, hour : 0 .. HOURS - 1,
            day : 1 .. 31, month : 1 .. 12, year : Nat] :
        t.year >= CURRENT_YEAR /\ t.day <= DaysIn(t.year, t.month)}

Registers == {"second", "minute", "hour", "day", "month", "year"}

\* The registers of one time, all read at once.
AllRegisters(t) == [name \in DOMAIN NoTime |-> Register(t, name)]

LEMMA RegistersAre == DOMAIN RegisterAfter = Registers /\ DOMAIN NoTime = Registers
BY DEF RegisterAfter, NoTime, Registers

\* The hour survives both of its encodings, except in the hours called 12.
LEMMA HourBack ==
    ASSUME NEW t \in Times, registerB.binary \in BOOLEAN, registerB.hours24 \in BOOLEAN,
           ~TwelveOClock(t)
    PROVE  Hour(UnpackedHour(Register(t, "hour"))) = t.hour
<1>1. HALF \in Nat \ {0} /\ HOURS = 2 * HALF /\ HALF <= 40 /\ t.hour \in 0 .. HOURS - 1
  BY HalfFacts DEF Times
<1>2. CASE registerB.hours24
  <2>1. Register(t, "hour") = Encoded(t.hour)
    BY <1>2 DEF Register
  <2>2. t.hour \in 0 .. 79
    BY <1>1
  <2>3. UnpackedHour(Encoded(t.hour)) = t.hour
    BY <2>2 DEF UnpackedHour, Encoded
  <2> QED BY <1>2, <2>1, <2>3 DEF Hour
<1>3. CASE ~registerB.hours24
  <2> DEFINE h == t.hour % HALF
             after == IF t.hour >= HALF THEN 128 ELSE 0
  <2>1. h # 0
    BY <1>3 DEF TwelveOClock
  <2>2. t.hour = IF t.hour >= HALF THEN h + HALF ELSE h
    <3>1. CASE t.hour >= HALF
      <4>1. t.hour - HALF \in 0 .. HALF - 1
        BY <1>1, <3>1
      <4>2. ((t.hour - HALF) + HALF) % HALF = t.hour - HALF
        BY <1>1, <4>1, SmallRemainder
      <4>3. (t.hour - HALF) + HALF = t.hour
        BY <1>1
      <4> QED BY <1>1, <3>1, <4>2, <4>3
    <3>2. CASE ~(t.hour >= HALF)
      <4>1. t.hour \in 0 .. HALF - 1
        BY <1>1, <3>2
      <4> QED BY <1>1, <3>2, <4>1, SmallRemainder
    <3> QED BY <3>1, <3>2
  <2>3. h \in 1 .. HALF - 1
    BY <1>1, <2>1
  <2>4. Register(t, "hour") = Encoded(h) + after
    BY <1>3, <2>1 DEF Register
  <2> HIDE DEF h
  <2>5. h \in 1 .. 39
    BY <1>1, <2>3
  <2>6. UnpackedHour(Encoded(h) + after) = h + after
    BY <2>5 DEF UnpackedHour, Encoded
  <2>7. CASE t.hour >= HALF
    <3>1. (h + after) \div 128 = 1 /\ (h + after) % 128 = h
      BY <2>5, <2>7
    <3>2. h + HALF \in 0 .. HOURS - 1
      BY <1>1, <2>3
    <3>3. (h + HALF) % HOURS = h + HALF
      BY <3>2, <1>1, SmallRemainder
    <3> QED BY <1>3, <2>2, <2>4, <2>6, <2>7, <3>1, <3>3 DEF Hour
  <2>8. CASE ~(t.hour >= HALF)
    <3>1. after = 0 /\ h + after = h /\ h \div 128 = 0
      BY <2>5, <2>8
    <3> QED BY <1>3, <2>2, <2>4, <2>6, <2>8, <3>1 DEF Hour
  <2> QED BY <2>7, <2>8
<1> QED BY <1>2, <1>3

\* The two digits of a year are put back into their century.
LEMMA YearBack ==
    ASSUME NEW t \in Times, t.year <= CURRENT_YEAR + 99
    PROVE  FullYear(Unpacked(Register(t, "year"))) = t.year
<1>1. t.year \in Nat /\ t.year >= CURRENT_YEAR /\ CURRENT_YEAR \in Nat
  BY ClockAssumption DEF Times
<1>2. t.year % 100 \in 0 .. 99
  BY <1>1
<1>3. Unpacked(Register(t, "year")) = t.year % 100
  BY <1>2, DigitsBack DEF Register
<1> QED BY <1>1, <1>3 DEF FullYear

\* In every mode of the hardware the driver's conversions undo the registers.
LEMMA ReadBack ==
    ASSUME NEW t \in Times, registerB.binary \in BOOLEAN, registerB.hours24 \in BOOLEAN,
           Readable(t)
    PROVE  Converted(AllRegisters(t)) = t
<1> DEFINE r == AllRegisters(t)
<1>1. /\ r.second = Encoded(t.second) /\ r.minute = Encoded(t.minute)
      /\ r.day = Encoded(t.day) /\ r.month = Encoded(t.month)
      /\ r.hour = Register(t, "hour") /\ r.year = Register(t, "year")
  BY RegistersAre DEF AllRegisters, Registers, Register
<1>2. /\ t.second \in 0 .. 99 /\ t.minute \in 0 .. 99 /\ t.day \in 0 .. 99
      /\ t.month \in 0 .. 99
  BY ClockAssumption DEF Times
<1>3. /\ Unpacked(r.second) = t.second /\ Unpacked(r.minute) = t.minute
      /\ Unpacked(r.day) = t.day /\ Unpacked(r.month) = t.month
  BY <1>1, <1>2, DigitsBack
<1>4. Hour(UnpackedHour(r.hour)) = t.hour
  BY <1>1, HourBack DEF Readable
<1>5. FullYear(Unpacked(r.year)) = t.year
  BY <1>1, YearBack, ClockAssumption DEF Readable, Times
<1>6. t = [second |-> t.second, minute |-> t.minute, hour |-> t.hour,
           day |-> t.day, month |-> t.month, year |-> t.year]
  BY DEF Times
<1> QED BY <1>3, <1>4, <1>5, <1>6 DEF Converted

\* A day is followed by a day of the calendar.
LEMMA AfterIsTime ==
    ASSUME NEW t \in Times
    PROVE  After(t) \in Times
<1>1. /\ t.second \in 0 .. SECONDS - 1 /\ t.minute \in 0 .. MINUTES - 1
      /\ t.hour \in 0 .. HOURS - 1 /\ t.day \in 1 .. 31 /\ t.month \in 1 .. 12
      /\ t.year \in Nat /\ t.year >= CURRENT_YEAR /\ t.day <= DaysIn(t.year, t.month)
  BY DEF Times
<1> DEFINE u == After(t)
<1>2. /\ u.second \in 0 .. SECONDS - 1 /\ u.minute \in 0 .. MINUTES - 1
      /\ u.hour \in 0 .. HOURS - 1 /\ u.month \in 1 .. 12
      /\ u.year \in Nat /\ u.year >= CURRENT_YEAR
  BY <1>1, ClockAssumption DEF After
<1>3. DaysIn(u.year, u.month) \in 28 .. 31 /\ DaysIn(t.year, t.month) \in 28 .. 31
  BY <1>1, <1>2, DaysInFacts
<1>4. u.day = 1 \/ u.day = t.day \/ u.day = t.day + 1
  BY DEF After
<1>5. u.day \in 1 .. DaysIn(u.year, u.month)
  <2>1. CASE u.day = 1
    BY <1>3, <2>1
  <2>2. CASE u.day # 1
    <3>1. u.year = t.year /\ u.month = t.month /\ (u.day = t.day \/ t.day # DaysIn(t.year, t.month))
      BY <2>2 DEF After
    <3> QED BY <1>1, <1>3, <1>4, <3>1
  <2> QED BY <2>1, <2>2
<1>6. u \in [second : 0 .. SECONDS - 1, minute : 0 .. MINUTES - 1, hour : 0 .. HOURS - 1,
             day : 1 .. 31, month : 1 .. 12, year : Nat]
  <2>1. u.day \in 1 .. 31
    BY <1>3, <1>5
  <2>2. u = [second |-> u.second, minute |-> u.minute, hour |-> u.hour,
             day |-> u.day, month |-> u.month, year |-> u.year]
    BY DEF After
  <2> HIDE DEF u
  <2> QED BY <1>2, <2>1, <2>2
<1> HIDE DEF u
<1>7. u \in Times
  BY <1>2, <1>3, <1>5, <1>6 DEF Times
<1> QED BY <1>7 DEF u

-----------------------------------------------------------------------------
(* The reader and the tick.                                                *)

\* How far read_rtc has come.
Place ==
    [idle |-> 0, wait |-> 0, second |-> 1, minute |-> 2, hour |-> 3, day |-> 4, month |-> 5,
     year |-> 6, registerB |-> 7]

\* The state of the hardware and of the reader.
Shape ==
    /\ rtc \in Times
    /\ registerB \in [binary : BOOLEAN, hours24 : BOOLEAN]
    /\ uip \in BOOLEAN /\ slack \in Nat
    /\ step \in DOMAIN Place
    /\ regs \in [Registers -> Int]

\* A tick that is announced leaves time for the registers not yet read, so the
\* time does not change between the first and the last of them.
TickWaits ==
    /\ uip /\ Place[step] \in 1 .. 6 => slack >= 7 - Place[step]
    /\ Place[step] \in 2 .. 6 => begun = rtc

\* The registers read so far are those of the time when the reader began.
ReadSoFar ==
    /\ Place[step] \in 2 .. 7 => begun \in Times
    /\ \A name \in Registers :
         Place[name] < Place[step] => regs[name] = Register(begun, name)

\* What the last call returned is one time's registers, converted.
LastReading ==
    step \in {"idle", "wait"} /\ reading # NoTime
        => begun \in Times /\ reading = Converted(AllRegisters(begun))

ClockInv == Shape /\ TickWaits /\ ReadSoFar /\ LastReading

LEMMA PlaceFacts ==
    /\ DOMAIN Place = Registers \cup {"idle", "wait", "registerB"}
    /\ \A s \in DOMAIN Place : Place[s] \in 0 .. 7
    /\ \A s \in DOMAIN Place : Place[s] \in 1 .. 6 <=> s \in Registers
    /\ \A s \in DOMAIN Place : Place[s] = 0 <=> s \in {"idle", "wait"}
    /\ \A s \in DOMAIN Place : Place[s] = 1 <=> s = "second"
    /\ \A s \in Registers : RegisterAfter[s] \in DOMAIN Place
    /\ \A s \in Registers : Place[RegisterAfter[s]] = Place[s] + 1
    /\ \A s, n \in Registers : Place[n] = Place[s] => n = s
BY DEF Place, RegisterAfter, Registers

\* A register holds a number.
LEMMA RegisterIsNumber ==
    ASSUME NEW t \in Times, NEW name \in Registers, registerB.binary \in BOOLEAN
    PROVE  Register(t, name) \in Int
<1>1. ASSUME NEW v \in Nat PROVE Encoded(v) \in Int
  BY <1>1 DEF Encoded
<1>2. HALF \in Nat \ {0}
  BY HalfFacts
<1>3. CASE name = "year"
  <2>1. t.year % 100 \in Nat
    BY DEF Times
  <2> QED BY <1>1, <1>3, <2>1 DEF Register
<1>4. CASE name = "hour"
  <2>1. t.hour \in Nat /\ t.hour % HALF \in Nat
    BY <1>2 DEF Times
  <2> DEFINE h == IF t.hour % HALF = 0 THEN HALF ELSE t.hour % HALF
             after == IF t.hour >= HALF THEN 128 ELSE 0
  <2>2. Encoded(t.hour) \in Int /\ Encoded(h) \in Int /\ after \in Int
    BY <1>1, <1>2, <2>1
  <2>3. Register(t, "hour") = Encoded(h) + after \/ Register(t, "hour") = Encoded(t.hour)
    BY DEF Register
  <2> QED BY <1>4, <2>2, <2>3
<1>5. CASE name \notin {"year", "hour"}
  <2>1. t[name] \in Nat
    BY <1>5 DEF Times, Registers
  <2>2. Register(t, name) = Encoded(t[name])
    BY <1>5 DEF Register
  <2> QED BY <1>1, <2>1, <2>2
<1> QED BY <1>3, <1>4, <1>5

LEMMA InitClockInv == Init => ClockInv
<1> SUFFICES ASSUME Init PROVE ClockInv
  OBVIOUS
<1>1. PICK d \in StartDates, h \in {HALF - 1, HOURS - 1} :
         rtc = [second |-> SECONDS - 2, minute |-> MINUTES - 1, hour |-> h,
                day |-> d.day, month |-> d.month, year |-> d.year]
  BY DEF Init
<1>2. /\ d.year \in CURRENT_YEAR .. CURRENT_YEAR + 99 /\ d.month \in 1 .. 12
      /\ d.day \in 1 .. DaysIn(d.year, d.month)
  BY StartDatesAssumption
<1>3. d.year \in Nat /\ d.year >= CURRENT_YEAR
  BY <1>2, ClockAssumption
<1>4. DaysIn(d.year, d.month) \in 28 .. 31
  BY <1>2, <1>3, DaysInFacts
<1>5. h \in 0 .. HOURS - 1 /\ SECONDS - 2 \in 0 .. SECONDS - 1 /\ MINUTES - 1 \in 0 .. MINUTES - 1
  BY HalfFacts, ClockAssumption
<1>6. d.day \in 1 .. 31 /\ d.day <= DaysIn(d.year, d.month)
  BY <1>2, <1>4
<1>7. rtc \in Times
  BY <1>1, <1>2, <1>3, <1>5, <1>6 DEF Times
<1>8. /\ step = "idle" /\ uip = FALSE /\ slack = 0 /\ regs = NoTime /\ reading = NoTime
      /\ registerB \in [binary : BOOLEAN, hours24 : BOOLEAN]
  BY DEF Init
<1>9. regs \in [Registers -> Int]
  BY <1>8 DEF NoTime, RegisterAfter, Registers
<1>10. Place[step] = 0 /\ step \in DOMAIN Place
  BY <1>8 DEF Place
<1>11. Shape
  BY <1>7, <1>8, <1>9, <1>10 DEF Shape
<1>12. ReadSoFar
  <2>1. \A name \in Registers : ~(Place[name] < Place[step])
    BY <1>10, PlaceFacts
  <2> QED BY <1>10, <2>1 DEF ReadSoFar
<1> QED BY <1>8, <1>10, <1>11, <1>12 DEF ClockInv, TickWaits, LastReading

\* The reader's registers and its conversions depend on the modes alone.
LEMMA SameModes ==
    ASSUME registerB' = registerB, begun' = begun
    PROVE  /\ \A name \in Registers : Register(begun, name)' = Register(begun, name)
           /\ Converted(AllRegisters(begun))' = Converted(AllRegisters(begun))
BY DEF Register, Encoded, Converted, AllRegisters, Unpacked, UnpackedHour, Hour, FullYear, NoTime,
       RegisterAfter

\* While the reader stands still, what it has is kept.
LEMMA ReaderKept ==
    ASSUME ClockInv, UNCHANGED <<registerB, regs, begun, reading>>, step' = step
    PROVE  ReadSoFar' /\ LastReading'
<1>1. ReadSoFar'
  BY SameModes DEF ClockInv, ReadSoFar
<1>2. LastReading'
  BY SameModes DEF ClockInv, LastReading, NoTime
<1> QED BY <1>1, <1>2

\* The hardware announces a tick.
LEMMA AnnounceStep == ASSUME ClockInv, Announce PROVE ClockInv'
<1>1. Shape'
  BY ClockAssumption DEF ClockInv, Shape, Announce
<1>2. TickWaits'
  BY ClockAssumption DEF ClockInv, TickWaits, Announce
<1>3. ReadSoFar' /\ LastReading'
  BY ReaderKept DEF Announce
<1> QED BY <1>1, <1>2, <1>3 DEF ClockInv

\* A tick finds no reader between its first register and its last.
LEMMA TickStep == ASSUME ClockInv, Tick PROVE ClockInv'
<1>1. rtc' \in Times
  BY AfterIsTime DEF ClockInv, Shape, Tick
<1>2. Shape'
  BY <1>1 DEF ClockInv, Shape, Tick
<1>3. Place[step] \notin 1 .. 6
  <2>1. CASE step \in {"idle", "wait"}
    BY <2>1, PlaceFacts DEF ClockInv, Shape
  <2>2. CASE slack = 0
    <3>1. ASSUME Place[step] \in 1 .. 6 PROVE FALSE
      <4>1. slack >= 7 - Place[step]
        BY <3>1 DEF ClockInv, TickWaits, Tick
      <4> QED BY <2>2, <3>1, <4>1
    <3> QED BY <3>1
  <2> QED BY <2>1, <2>2 DEF Tick
<1>4. TickWaits'
  <2>1. step' = step
    BY DEF Tick
  <2>2. Place[step'] \notin 1 .. 6 /\ Place[step'] \notin 2 .. 6
    BY <1>3, <2>1
  <2> QED BY <2>2 DEF TickWaits
<1>5. ReadSoFar' /\ LastReading'
  BY ReaderKept DEF Tick
<1> QED BY <1>2, <1>4, <1>5 DEF ClockInv

\* The driver is called.
LEMMA CallStep == ASSUME ClockInv, Call PROVE ClockInv'
<1>1. step = "idle" /\ step' = "wait"
  BY DEF Call
<1>2. Place["idle"] = 0 /\ Place["wait"] = 0 /\ "wait" \in DOMAIN Place
  BY DEF Place
<1>3. UNCHANGED <<rtc, registerB, uip, slack, regs, begun, reading>>
  BY DEF Call, hardware
<1>4. Shape'
  BY <1>1, <1>2, <1>3 DEF ClockInv, Shape
<1>5. TickWaits'
  BY <1>1, <1>2 DEF TickWaits
<1>6. ReadSoFar'
  <2>1. \A name \in Registers : ~(Place[name] < Place[step'])
    BY <1>1, <1>2, PlaceFacts
  <2> QED BY <1>1, <1>2, <2>1 DEF ReadSoFar
<1>7. LastReading'
  BY <1>1, <1>3, SameModes DEF ClockInv, LastReading, NoTime
<1> QED BY <1>4, <1>5, <1>6, <1>7 DEF ClockInv

\* The driver sees the flag down, and goes on, or waits.
LEMMA FlagStep == ASSUME ClockInv, get_update_in_progress_flag PROVE ClockInv'
<1>1. step = "wait" /\ step' \in {"wait", "second"} /\ (step' = "second" => ~uip')
  BY DEF get_update_in_progress_flag, NoUpdateInProgress, Access
<1>2. /\ Place["wait"] = 0 /\ "wait" \in DOMAIN Place /\ Place["second"] = 1
      /\ "second" \in DOMAIN Place
  BY DEF Place
<1>3. UNCHANGED <<rtc, registerB, uip, regs, begun, reading>>
  BY DEF get_update_in_progress_flag, Access
<1>4. slack' \in Nat
  BY DEF ClockInv, Shape, get_update_in_progress_flag, Access
<1>5. Shape'
  BY <1>1, <1>2, <1>3, <1>4 DEF ClockInv, Shape
<1>6. TickWaits'
  BY <1>1, <1>2 DEF TickWaits
<1>7. ReadSoFar'
  <2>1. \A name \in Registers : ~(Place[name] < Place[step'])
    BY <1>1, <1>2, PlaceFacts
  <2> QED BY <1>1, <1>2, <2>1 DEF ReadSoFar
<1>8. LastReading'
  BY <1>1, <1>3, SameModes DEF ClockInv, LastReading, NoTime
<1> QED BY <1>5, <1>6, <1>7, <1>8 DEF ClockInv

\* The driver reads a register.
LEMMA RegisterStep == ASSUME ClockInv, get_RTC_register PROVE ClockInv'
<1>1. step \in Registers
  BY RegistersAre DEF get_RTC_register
<1>2. /\ regs' = [regs EXCEPT ![step] = Register(rtc, step)]
      /\ begun' = (IF step = "second" THEN rtc ELSE begun)
      /\ step' = RegisterAfter[step]
      /\ slack' = (IF uip /\ slack > 0 THEN slack - 1 ELSE slack)
      /\ UNCHANGED <<rtc, registerB, uip>>
  BY DEF get_RTC_register, Access
<1>3. /\ Place[step] \in 1 .. 6 /\ Place[step'] = Place[step] + 1 /\ step' \in DOMAIN Place
      /\ Place[step] = 1 <=> step = "second"
  BY <1>1, <1>2, PlaceFacts
<1>4. begun' = rtc
  <2>1. CASE step = "second"
    BY <1>2, <2>1
  <2>2. CASE step # "second"
    <3>1. Place[step] \in 2 .. 6
      BY <1>3, <2>2
    <3> QED BY <1>2, <2>2, <3>1 DEF ClockInv, TickWaits
  <2> QED BY <2>1, <2>2
<1>5. Register(rtc, step) \in Int
  BY <1>1, RegisterIsNumber DEF ClockInv, Shape
<1>6. Shape'
  <2>1. regs' \in [Registers -> Int]
    BY <1>1, <1>2, <1>5 DEF ClockInv, Shape
  <2>2. slack' \in Nat
    BY <1>2 DEF ClockInv, Shape
  <2> QED BY <1>2, <1>3, <2>1, <2>2 DEF ClockInv, Shape
<1>7. TickWaits'
  <2>1. ASSUME uip', Place[step'] \in 1 .. 6 PROVE slack' >= 7 - Place[step']
    <3>1. slack >= 7 - Place[step] /\ slack \in Nat
      BY <1>2, <1>3, <2>1 DEF ClockInv, TickWaits, Shape
    <3>2. slack' = slack - 1
      BY <1>2, <1>3, <2>1, <3>1
    <3> QED BY <1>3, <3>1, <3>2
  <2>2. begun' = rtc'
    BY <1>2, <1>4
  <2> QED BY <2>1, <2>2 DEF TickWaits
<1>8. ReadSoFar'
  <2>1. begun' \in Times
    BY <1>4 DEF ClockInv, Shape
  <2>2. ASSUME NEW name \in Registers, Place[name] < Place[step']
        PROVE  regs'[name] = Register(begun, name)'
    <3>1. Register(begun, name)' = Register(rtc, name)
      BY <1>2, <1>4 DEF Register, Encoded
    <3>2. CASE name = step
      BY <1>1, <1>2, <3>1, <3>2 DEF ClockInv, Shape
    <3>3. CASE name # step
      <4>1. Place[name] \in 1 .. 6 /\ Place[name] # Place[step]
        BY <1>1, <3>3, PlaceFacts
      <4>2. Place[name] < Place[step]
        BY <1>3, <2>2, <4>1
      <4>3. Place[step] \in 2 .. 6
        BY <1>3, <4>1, <4>2
      <4>4. begun = rtc /\ regs[name] = Register(begun, name)
        BY <4>2, <4>3 DEF ClockInv, TickWaits, ReadSoFar
      <4>5. regs'[name] = regs[name]
        BY <1>1, <1>2, <3>3 DEF ClockInv, Shape
      <4> QED BY <3>1, <4>4, <4>5
    <3> QED BY <3>2, <3>3
  <2> QED BY <2>1, <2>2 DEF ReadSoFar
<1>9. LastReading'
  <2>1. Place[step'] # 0
    BY <1>3
  <2>2. step' \notin {"idle", "wait"}
    BY <1>3, <2>1, PlaceFacts
  <2> QED BY <2>2 DEF LastReading
<1> QED BY <1>6, <1>7, <1>8, <1>9 DEF ClockInv

\* The driver converts what it has read, and returns.
LEMMA ReturnStep == ASSUME ClockInv, Returned PROVE ClockInv'
<1>1. /\ step = "registerB" /\ step' = "idle" /\ reading' = Converted(regs)
      /\ UNCHANGED <<rtc, registerB, uip, regs, begun>>
  BY DEF Returned, Access
<1>2. /\ Place["registerB"] = 7 /\ Place["idle"] = 0 /\ "idle" \in DOMAIN Place
  BY DEF Place
<1>3. slack' \in Nat
  BY DEF ClockInv, Shape, Returned, Access
<1>4. Shape'
  BY <1>1, <1>2, <1>3 DEF ClockInv, Shape
<1>5. TickWaits'
  BY <1>1, <1>2 DEF TickWaits
<1>6. ReadSoFar'
  <2>1. \A name \in Registers : ~(Place[name] < Place[step'])
    BY <1>1, <1>2, PlaceFacts
  <2> QED BY <1>1, <1>2, <2>1 DEF ReadSoFar
<1>7. begun \in Times /\ \A name \in Registers : regs[name] = Register(begun, name)
  <2>1. \A name \in Registers : Place[name] < Place[step]
    <3>1. ASSUME NEW name \in Registers PROVE Place[name] < Place[step]
      <4>1. Place[name] \in 1 .. 6
        BY <3>1, PlaceFacts
      <4> QED BY <1>1, <1>2, <4>1
    <3> QED BY <3>1
  <2> QED BY <1>1, <1>2, <2>1 DEF ClockInv, ReadSoFar
<1>8. regs = AllRegisters(begun)
  BY <1>7, RegistersAre DEF ClockInv, Shape, AllRegisters
<1>9. LastReading'
  BY <1>1, <1>7, <1>8, SameModes DEF LastReading
<1> QED BY <1>4, <1>5, <1>6, <1>9 DEF ClockInv

LEMMA NextClockInv == ClockInv /\ [Next]_vars => ClockInv'
<1> SUFFICES ASSUME ClockInv, [Next]_vars PROVE ClockInv'
  OBVIOUS
<1>1. CASE UNCHANGED vars
  <2>1. UNCHANGED <<rtc, registerB, uip, slack, regs, begun, reading>> /\ step' = step
    BY <1>1 DEF vars
  <2>2. Shape' /\ TickWaits'
    BY <2>1 DEF ClockInv, Shape, TickWaits
  <2> QED BY <2>1, <2>2, ReaderKept DEF ClockInv
<1>2. CASE SleepAgain
  <2>1. UNCHANGED <<rtc, registerB, uip, slack, regs, begun, reading>> /\ step' = step
    BY <1>2 DEF SleepAgain, hardware
  <2>2. Shape' /\ TickWaits'
    BY <2>1 DEF ClockInv, Shape, TickWaits
  <2> QED BY <2>1, <2>2, ReaderKept DEF ClockInv
<1> QED BY <1>1, <1>2, AnnounceStep, TickStep, CallStep, FlagStep, RegisterStep, ReturnStep
        DEF Next, sleep

THEOREM ClockInvariance == Spec => []ClockInv
BY InitClockInv, NextClockInv, PTL DEF Spec

\* What read_rtc returns is the time the hardware showed while it read, in any
\* mode of the hardware and with ticks between any two of its accesses.
THEOREM ClockNoTornRead == Spec => []NoTornRead
<1>1. ClockInv => NoTornRead
  <2> SUFFICES ASSUME ClockInv, step = "idle", reading # NoTime, Readable(begun)
               PROVE  reading = begun
    BY DEF NoTornRead
  <2>1. begun \in Times /\ reading = Converted(AllRegisters(begun))
    BY DEF ClockInv, LastReading
  <2>2. registerB.binary \in BOOLEAN /\ registerB.hours24 \in BOOLEAN
    BY DEF ClockInv, Shape
  <2> QED BY <2>1, <2>2, ReadBack
<1> QED BY <1>1, ClockInvariance, PTL

-----------------------------------------------------------------------------
(* The timestamp.                                                          *)

\* The days and the seconds that get_timestamp counts before it wraps.
DayCount(t) == (t.year - 1970) * 365 + LeapDays(t) + DaysBefore[t.month] + t.day - 1

SecondCount(t) == ((DayCount(t) * HOURS + t.hour) * MINUTES + t.minute) * SECONDS + t.second

LEMMA TimeFacts ==
    ASSUME NEW t \in Times
    PROVE  /\ t.second \in 0 .. SECONDS - 1 /\ t.minute \in 0 .. MINUTES - 1
           /\ t.hour \in 0 .. HOURS - 1 /\ t.day \in 1 .. 31 /\ t.month \in 1 .. 12
           /\ t.year \in Nat /\ t.year >= CURRENT_YEAR /\ t.day <= DaysIn(t.year, t.month)
BY DEF Times

\* Counts are whole numbers.
LEMMA CountsAreNumbers ==
    ASSUME NEW t \in Times
    PROVE  DayCount(t) \in Int /\ SecondCount(t) \in Int
<1>1. DayCount(t) \in Int
  <2>1. LeapDays(t) \in Int
    BY TimeFacts DEF LeapDays
  <2>2. DaysBefore[t.month] \in Int
    BY TimeFacts DEF DaysBefore
  <2> QED BY <2>1, <2>2, TimeFacts DEF DayCount
<1>2. /\ HOURS \in Int /\ MINUTES \in Int /\ SECONDS \in Int
      /\ t.hour \in Int /\ t.minute \in Int /\ t.second \in Int
  BY TimeFacts, ClockAssumption
<1> QED BY <1>1, <1>2 DEF SecondCount

\* The table of days[] and the leap days follow the calendar: the last day of a
\* month is followed by the next day's number.
LEMMA MonthEnds ==
    ASSUME NEW t \in Times, NEW u \in Times,
           t.day = DaysIn(t.year, t.month), u.day = 1,
           u.month = IF t.month = 12 THEN 1 ELSE t.month + 1,
           u.year = IF t.month = 12 THEN t.year + 1 ELSE t.year
    PROVE  DayCount(u) = DayCount(t) + 1
<1>1. t.month \in 1 .. 12 /\ t.year \in Nat
  BY TimeFacts
<1>2. CASE t.month = 12
  <2>1. DaysBefore[12] = 334 /\ DaysBefore[1] = 0 /\ t.day = 31
    BY <1>2 DEF DaysBefore, DaysIn
  <2>2. LeapDays(u) = LeapDays(t)
    BY <1>1, <1>2 DEF LeapDays
  <2>3. LeapDays(t) \in Int
    BY <1>1 DEF LeapDays
  <2> QED BY <1>1, <1>2, <2>1, <2>2, <2>3 DEF DayCount
<1>3. CASE t.month = 2
  <2>1. DaysBefore[3] = 59 /\ DaysBefore[2] = 31
    BY DEF DaysBefore
  <2>2. t.day = IF t.year % 4 = 0 THEN 29 ELSE 28
    BY <1>3 DEF DaysIn
  <2>3. LeapDays(u) = (t.year - 1968) \div 4 /\ LeapDays(t) = (t.year - 1969) \div 4
    BY <1>1, <1>3 DEF LeapDays
  <2>4. (t.year - 1968) \div 4 = ((t.year - 1969) \div 4) + (IF t.year % 4 = 0 THEN 1 ELSE 0)
    BY <1>1
  <2>5. (t.year - 1969) \div 4 \in Int
    BY <1>1
  <2>6. u.month = 3 /\ u.year = t.year
    BY <1>3
  <2>7. DayCount(u) = (t.year - 1970) * 365 + (t.year - 1968) \div 4 + 59
    BY <1>1, <2>1, <2>3, <2>6 DEF DayCount
  <2>8. DayCount(t) = (t.year - 1970) * 365 + (t.year - 1969) \div 4 + 31 + t.day - 1
    BY <1>3, <2>1, <2>3 DEF DayCount
  <2> QED BY <1>1, <2>2, <2>4, <2>5, <2>7, <2>8
<1>4. CASE t.month \notin {2, 12}
  <2>1. u.month = t.month + 1 /\ u.year = t.year
    BY <1>4
  <2>2. LeapDays(u) = LeapDays(t) /\ LeapDays(t) \in Int
    BY <1>1, <1>4, <2>1 DEF LeapDays
  <2>3. /\ DaysBefore[t.month + 1] = DaysBefore[t.month] + t.day
        /\ DaysBefore[t.month] \in Int /\ t.day \in Int
    BY <1>1, <1>4 DEF DaysBefore, DaysIn
  <2> QED BY <1>1, <2>1, <2>2, <2>3 DEF DayCount
<1> QED BY <1>2, <1>3, <1>4

\* A second later is counted as one second more.
LEMMA CountAdvances ==
    ASSUME NEW t \in Times
    PROVE  SecondCount(After(t)) = SecondCount(t) + 1
<1> DEFINE u == After(t)
           D == DayCount(t)
           E == DayCount(u)
           s == t.second = SECONDS - 1
           m == s /\ t.minute = MINUTES - 1
           h == m /\ t.hour = HOURS - 1
           d == h /\ t.day = DaysIn(t.year, t.month)
           y == d /\ t.month = 12
<1>1. u \in Times /\ D \in Int /\ E \in Int
  BY AfterIsTime, CountsAreNumbers
<1>2. /\ u.second = (IF s THEN 0 ELSE t.second + 1)
      /\ u.minute = (IF m THEN 0 ELSE IF s THEN t.minute + 1 ELSE t.minute)
      /\ u.hour = (IF h THEN 0 ELSE IF m THEN t.hour + 1 ELSE t.hour)
      /\ u.day = (IF d THEN 1 ELSE IF h THEN t.day + 1 ELSE t.day)
      /\ u.month = (IF y THEN 1 ELSE IF d THEN t.month + 1 ELSE t.month)
      /\ u.year = (IF y THEN t.year + 1 ELSE t.year)
  BY DEF After
<1> HIDE DEF u
<1>3. E = IF h THEN D + 1 ELSE D
  <2>1. CASE d
    <3>1. E = D + 1
      BY <1>1, <1>2, <2>1, MonthEnds
    <3> QED BY <2>1, <3>1
  <2>2. CASE ~d
    <3>1. u.month = t.month /\ u.year = t.year /\ u.day = IF h THEN t.day + 1 ELSE t.day
      BY <1>2, <2>2
    <3>2. LeapDays(u) = LeapDays(t) /\ LeapDays(t) \in Int
      BY <3>1, TimeFacts DEF LeapDays
    <3>3. DaysBefore[t.month] \in Int
      BY TimeFacts DEF DaysBefore
    <3> QED BY <3>1, <3>2, <3>3, TimeFacts DEF DayCount
  <2> QED BY <2>1, <2>2
<1> HIDE DEF D, E
<1>4. /\ HOURS \in Int /\ MINUTES \in Int /\ SECONDS \in Int
      /\ t.hour \in Int /\ t.minute \in Int /\ t.second \in Int
  BY TimeFacts, ClockAssumption
<1> DEFINE A == D * HOURS + t.hour
           B == E * HOURS + u.hour
<1>5. A \in Int /\ B \in Int /\ B = IF m THEN A + 1 ELSE A
  <2>1. CASE h
    BY <1>1, <1>2, <1>3, <1>4, <2>1
  <2>2. CASE ~h
    BY <1>1, <1>2, <1>3, <1>4, <2>2
  <2> QED BY <2>1, <2>2
<1> HIDE DEF A, B
<1> DEFINE F == A * MINUTES + t.minute
           G == B * MINUTES + u.minute
<1>6. F \in Int /\ G \in Int /\ G = IF s THEN F + 1 ELSE F
  <2>1. CASE m
    BY <1>2, <1>4, <1>5, <2>1
  <2>2. CASE ~m
    BY <1>2, <1>4, <1>5, <2>2
  <2> QED BY <2>1, <2>2
<1> HIDE DEF F, G
<1>7. G * SECONDS + u.second = F * SECONDS + t.second + 1
  <2>1. CASE s
    BY <1>2, <1>4, <1>6, <2>1
  <2>2. CASE ~s
    BY <1>2, <1>4, <1>6, <2>2
  <2> QED BY <2>1, <2>2
<1>8. SecondCount(u) = G * SECONDS + u.second /\ SecondCount(t) = F * SECONDS + t.second
  BY DEF SecondCount, G, F, A, B, D, E
<1>9. SecondCount(u) = SecondCount(t) + 1
  BY <1>7, <1>8
<1> QED BY <1>9 DEF u

\* Every tick moves the timestamp by exactly one, modulo the word: over the
\* ends of minutes, hours, days, months, leap days, years and centuries.
THEOREM ClockTimestampAdvances == Spec => TimestampAdvances
<1>1. ASSUME ClockInv, [Next]_vars, rtc' # rtc, Readable(rtc), Readable(rtc')
      PROVE  Stamp(rtc') = (Stamp(rtc) + 1) % WORD
  <2>1. rtc' = After(rtc)
    BY <1>1 DEF Next, sleep, vars, hardware, Announce, Tick, Call, get_update_in_progress_flag,
                get_RTC_register, Returned, SleepAgain, Access
  <2>2. rtc \in Times /\ rtc' \in Times
    BY <1>1, <2>1, AfterIsTime DEF ClockInv, Shape
  <2>3. registerB.binary \in BOOLEAN /\ registerB.hours24 \in BOOLEAN
    BY <1>1 DEF ClockInv, Shape
  <2>4. ASSUME NEW t \in Times, Readable(t)
        PROVE  Stamp(t) = SecondCount(t) % WORD
    <3>1. Converted([name \in DOMAIN NoTime |-> Register(t, name)]) = t
      BY <2>3, <2>4, ReadBack DEF AllRegisters
    <3> QED BY <3>1 DEF Stamp, get_timestamp, SecondCount, DayCount
  <2>5. Stamp(rtc) = SecondCount(rtc) % WORD /\ Stamp(rtc') = SecondCount(rtc') % WORD
    BY <1>1, <2>2, <2>4
  <2>6. SecondCount(rtc) \in Int /\ SecondCount(rtc') = SecondCount(rtc) + 1
    BY <2>1, <2>2, CountsAreNumbers, CountAdvances
  <2>7. (SecondCount(rtc) + 1) % WORD = ((SecondCount(rtc) % WORD) + 1) % WORD
    BY <2>6, CountingOn, ClockAssumption
  <2> QED BY <2>5, <2>6, <2>7
<1>2. ClockInv /\ [Next]_vars
        => [rtc' # rtc /\ Readable(rtc) /\ Readable(rtc')
              => Stamp(rtc') = (Stamp(rtc) + 1) % WORD]_vars
  BY <1>1
<1> QED BY <1>2, ClockInvariance, PTL DEF Spec, TimestampAdvances
=============================================================================
