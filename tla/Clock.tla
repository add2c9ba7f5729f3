-------------------------------- MODULE Clock --------------------------------
(* The clock driver of cmos.c and the shell's sleep().  The hardware clock    *)
(* ticks while read_rtc reads its registers one by one; it announces a tick   *)
(* with the update-in-progress flag some time ahead.  A call runs with        *)
(* interrupts off, so only the hardware comes between its steps.              *)
EXTENDS Integers, Sequences

CONSTANTS
    HOURS, MINUTES, SECONDS,  \* hours of a day, minutes of an hour, seconds of a minute
    CURRENT_YEAR,             \* the two-digit years are those from here on
    WORD,                     \* number of values of a uint32_t
    MARGIN,                   \* port accesses that fit between the flag and the tick
    MaxTicks,                 \* bound on the ticks of a behaviour
    StartDates                \* days at whose last seconds behaviours start

ASSUME ClockAssumption ==
    \* two BCD digits each; the hours leave room for the afternoon bit
    /\ HOURS \in 3 .. 80 /\ HOURS % 2 = 0 /\ MINUTES \in 2 .. 100 /\ SECONDS \in 2 .. 100
    /\ CURRENT_YEAR \in Nat /\ CURRENT_YEAR >= 1970
    /\ WORD \in Nat \ {0}
    /\ MARGIN \in Nat /\ MARGIN >= 7
    /\ MaxTicks \in Nat

VARIABLES
    rtc,          \* the time the hardware clock shows
    registerB,    \* its modes: BCD or binary, 12 or 24 hours
    uip,          \* the update-in-progress flag
    slack,        \* accesses before the announced tick can happen
    ticks,        \* ticks so far
    step,         \* of read_rtc: "idle", "wait" or the register to read
    regs,         \* the registers read
    begun,        \* the time when the first of them was read
    reading,      \* what the last call returned
    pc,           \* of sleep(): the variable the next call is for, or "awake"
    init_time, next_time

hardware == <<rtc, registerB, uip, slack, ticks>>
vars == <<rtc, registerB, uip, slack, ticks, step, regs, begun, reading,
          pc, init_time, next_time>>

-----------------------------------------------------------------------------
(* The hardware clock (external).                                            *)

HALF == HOURS \div 2

DaysIn(year, month) ==
    IF month = 2 /\ year % 4 = 0 THEN 29
    ELSE <<31, 28, 31, 30, 31, 30, 31, 31, 30, 31, 30, 31>>[month]

ASSUME StartDatesAssumption ==
    \A d \in StartDates :
        /\ d.year \in CURRENT_YEAR .. CURRENT_YEAR + 99
        /\ d.month \in 1 .. 12
        /\ d.day \in 1 .. DaysIn(d.year, d.month)

After(t) ==
    LET s == t.second = SECONDS - 1
        m == s /\ t.minute = MINUTES - 1
        h == m /\ t.hour = HOURS - 1
        d == h /\ t.day = DaysIn(t.year, t.month)
        y == d /\ t.month = 12
    IN  [second |-> IF s THEN 0 ELSE t.second + 1,
         minute |-> IF m THEN 0 ELSE IF s THEN t.minute + 1 ELSE t.minute,
         hour   |-> IF h THEN 0 ELSE IF m THEN t.hour + 1 ELSE t.hour,
         day    |-> IF d THEN 1 ELSE IF h THEN t.day + 1 ELSE t.day,
         month  |-> IF y THEN 1 ELSE IF d THEN t.month + 1 ELSE t.month,
         year   |-> IF y THEN t.year + 1 ELSE t.year]

Encoded(v) == IF registerB.binary THEN v ELSE (v \div 10) * 16 + (v % 10)

\* In 12-hour mode the hours are 12, 1, 2 ... with a bit for the afternoon.
Register(t, name) ==
    CASE name = "year" -> Encoded(t.year % 100)
      [] name = "hour" /\ ~registerB.hours24 ->
           Encoded(IF t.hour % HALF = 0 THEN HALF ELSE t.hour % HALF)
             + (IF t.hour >= HALF THEN 128 ELSE 0)
      [] OTHER -> Encoded(t[name])

Announce ==
    /\ ~uip
    /\ ticks < MaxTicks
    /\ uip' = TRUE
    /\ slack' = MARGIN
    /\ UNCHANGED <<rtc, registerB, ticks, step, regs, begun, reading, pc, init_time, next_time>>

\* A reader in the middle of its registers is ahead of an announced tick for
\* MARGIN accesses; nothing else keeps the tick back.
Tick ==
    /\ uip
    /\ step \in {"idle", "wait"} \/ slack = 0
    /\ rtc' = After(rtc)
    /\ uip' = FALSE
    /\ ticks' = ticks + 1
    /\ UNCHANGED <<registerB, slack, step, regs, begun, reading, pc, init_time, next_time>>

\* A port access takes its share of the time before the tick.
Access ==
    /\ slack' = IF uip /\ slack > 0 THEN slack - 1 ELSE slack
    /\ UNCHANGED <<rtc, registerB, uip, ticks>>

-----------------------------------------------------------------------------
(* What the driver makes of the registers.                                   *)

Unpacked(v) == IF registerB.binary THEN v ELSE (v % 16) + (v \div 16) * 10

\* The afternoon bit is kept apart from the digits.
UnpackedHour(v) ==
    IF registerB.binary THEN v
    ELSE (v % 16) + ((v % 128) \div 16) * 10 + 128 * (v \div 128)

Hour(v) ==
    IF ~registerB.hours24 /\ v \div 128 = 1 THEN ((v % 128) + HALF) % HOURS ELSE v

FullYear(v) ==
    LET y == v + (CURRENT_YEAR \div 100) * 100
    IN  IF y < CURRENT_YEAR THEN y + 100 ELSE y

Converted(r) ==
    [second |-> Unpacked(r.second), minute |-> Unpacked(r.minute),
     hour   |-> Hour(UnpackedHour(r.hour)),
     day    |-> Unpacked(r.day), month |-> Unpacked(r.month),
     year   |-> FullYear(Unpacked(r.year))]

\* The table days[] of get_timestamp.
DaysBefore == <<0, 31, 59, 90, 120, 151, 181, 212, 243, 273, 304, 334>>

\* Mutant: the leap day counts from the next year on.
LeapDaysByYear(t) == (t.year - 1969) \div 4

\* The leap days since 1970; this year's own counts from March on.
LeapDays(t) == (t.year - 1969 + (IF t.month > 2 THEN 1 ELSE 0)) \div 4

get_timestamp(t) ==
    LET days == (t.year - 1970) * 365 + LeapDays(t) + DaysBefore[t.month] + t.day - 1
    IN  (((days * HOURS + t.hour) * MINUTES + t.minute) * SECONDS + t.second) % WORD

-----------------------------------------------------------------------------
(* read_rtc, called by sleep() through get_timestamp.                        *)

\* The register read after each one.
RegisterAfter ==
    [second |-> "minute", minute |-> "hour", hour |-> "day", day |-> "month",
     month |-> "year", year |-> "registerB"]

NoTime == [name \in DOMAIN RegisterAfter |-> 0]

Init ==
    /\ \E d \in StartDates, h \in {HALF - 1, HOURS - 1} :
         rtc = [second |-> SECONDS - 2, minute |-> MINUTES - 1, hour |-> h,
                day |-> d.day, month |-> d.month, year |-> d.year]
    /\ registerB \in [binary : BOOLEAN, hours24 : BOOLEAN]
    /\ uip = FALSE /\ slack = 0 /\ ticks = 0
    /\ step = "idle" /\ regs = NoTime /\ begun = NoTime /\ reading = NoTime
    /\ pc = "init_time" /\ init_time = 0 /\ next_time = 0

Call ==
    /\ step = "idle"
    /\ pc # "awake"
    /\ step' = "wait"
    /\ UNCHANGED <<hardware, regs, begun, reading, pc, init_time, next_time>>

\* Mutant: the flag is not waited for.
NeverWaits == TRUE

NoUpdateInProgress == ~uip

get_update_in_progress_flag ==
    /\ step = "wait"
    /\ Access
    /\ step' = IF NoUpdateInProgress THEN "second" ELSE "wait"
    /\ UNCHANGED <<regs, begun, reading, pc, init_time, next_time>>

get_RTC_register ==
    /\ step \in DOMAIN RegisterAfter
    /\ Access
    /\ regs' = [regs EXCEPT ![step] = Register(rtc, step)]
    /\ begun' = IF step = "second" THEN rtc ELSE begun
    /\ step' = RegisterAfter[step]
    /\ UNCHANGED <<reading, pc, init_time, next_time>>

\* Mutant: the comparison does not wrap.
OneLater(from, to) == to >= from + 1

\* The loop's condition next_time - init_time < 1, over unsigned words.
Elapsed(from, to) == (to - from) % WORD >= 1

\* The seventh access reads register B; the conversions and the caller's test
\* follow before anything else can happen to them.
Returned ==
    /\ step = "registerB"
    /\ Access
    /\ step' = "idle"
    /\ reading' = Converted(regs)
    /\ LET t == get_timestamp(reading') IN
       \/ /\ pc = "init_time"
          /\ init_time' = t
          /\ pc' = "next_time"
          /\ UNCHANGED next_time
       \/ /\ pc = "next_time"
          /\ next_time' = t
          /\ pc' = IF Elapsed(init_time, t) THEN "awake" ELSE "next_time"
          /\ UNCHANGED init_time
    /\ UNCHANGED <<regs, begun>>

\* loading_bar and doors sleep again and again.
SleepAgain ==
    /\ pc = "awake"
    /\ pc' = "init_time"
    /\ UNCHANGED <<hardware, step, regs, begun, reading, init_time, next_time>>

sleep == Call \/ get_update_in_progress_flag \/ get_RTC_register \/ Returned \/ SleepAgain

Next == Announce \/ Tick \/ sleep

\* The clock keeps running, and the shell is scheduled again and again.
Spec == Init /\ [][Next]_vars /\ WF_vars(Announce) /\ WF_vars(Tick) /\ WF_vars(sleep)

-----------------------------------------------------------------------------
\* The driver's 12-hour conversion is wrong in the hours that the hardware
\* calls 12: noon becomes 0 and midnight 12.
TwelveOClock(t) == ~registerB.hours24 /\ t.hour % HALF = 0

\* The times that the driver can tell from the registers: two digits name a
\* year only up to 99 years after CURRENT_YEAR.
Readable(t) == ~TwelveOClock(t) /\ t.year \in CURRENT_YEAR .. CURRENT_YEAR + 99

\* What read_rtc returns is the time the hardware showed while it read, never
\* a mixture of two: the wait for the flag leaves enough time for all six
\* registers, and every mode is converted back to the same calendar time.
NoTornRead ==
    step = "idle" /\ reading # NoTime /\ Readable(begun) => reading = begun

\* The timestamp the driver makes of a time, when it reads it whole.
Stamp(t) == get_timestamp(Converted([name \in DOMAIN NoTime |-> Register(t, name)]))

\* Every tick of the hardware moves the timestamp by exactly one, modulo the
\* word, over the ends of months, leap days, years and the century.
TimestampAdvances ==
    [][rtc' # rtc /\ Readable(rtc) /\ Readable(rtc')
         => Stamp(rtc') = (Stamp(rtc) + 1) % WORD]_vars

\* A sleep that has read its start time ends once the clock ticks again, also
\* when the timestamp wraps to 0 meanwhile: the loop subtracts unsigned words.
SleepEnds == pc = "next_time" /\ ticks < MaxTicks ~> pc = "awake"
=============================================================================
