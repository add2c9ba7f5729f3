------------------------------- MODULE MCClock -------------------------------
(* Days of 4 hours of 3 minutes of 3 seconds, so that a timestamp fits TLC's  *)
(* integers, in real months and years; WORD is reached at the end of the day  *)
(* 2106-02-07, as 2^32 seconds are.                                           *)
EXTENDS Clock

Date(y, m, d) == [year |-> y, month |-> m, day |-> d]

MCStartDates ==
    {Date(2024, 2, 28), Date(2024, 2, 29), Date(2024, 12, 31), Date(2025, 2, 28),
     Date(2027, 12, 31), Date(2028, 2, 29), Date(2028, 4, 30), Date(2099, 12, 31),
     Date(2100, 9, 30), Date(2106, 2, 7), Date(2123, 11, 30)}
=============================================================================
