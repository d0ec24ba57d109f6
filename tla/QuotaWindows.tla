---------------------------- MODULE QuotaWindows ----------------------------
(***************************************************************************)
(* When FAIR's own accounting windows end (fair/embedded/quota.py,         *)
(* next_window_reset), in ticks of a scaled clock.  The zones' daylight    *)
(* saving is left out: the Pacific day is the UTC day at a fixed offset.   *)
(***************************************************************************)
EXTENDS Integers

CONSTANTS
    Hour, Day,       \* length of an hourly window and of a day, in ticks
    PacificOffset    \* how far the Pacific day is shifted from the UTC day

ASSUME WindowAssumption ==
    Hour \in Nat \ {0} /\ Day \in Nat \ {0} /\ PacificOffset \in 0..Day

Windows == {"HOURLY", "DAILY_UTC", "DAILY_PACIFIC"}

AtLeast(m, n) == IF m >= n THEN m ELSE n

NextMidnight(now, offset) == ((now + offset) \div Day + 1) * Day - offset

next_window_reset(window, now) ==
    CASE window = "HOURLY"        -> now + Hour
      [] window = "DAILY_UTC"     -> NextMidnight(now, 0)
      [] window = "DAILY_PACIFIC" -> NextMidnight(now, PacificOffset)
=============================================================================
