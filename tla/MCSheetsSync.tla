--------------------------- MODULE MCSheetsSync ---------------------------
EXTENDS SheetsSync, TLC

At(enabled, frequency, at, on) ==
    [enabled |-> enabled, frequency |-> frequency, at |-> at, on |-> on]

CONSTANTS c1, c2

\* The first edit of c1's sheet changes the row of day 2 and gives that of day 1
\* the date of day 3. The sheet of c2 stays as it is.
OneEdit == c1 :> <<{1, 2}, {2, 3}>> @@ c2 :> <<{2}>>

\* c1 is healthy and weekly, c2 fails now and then, and is hourly.
WeeklyAndHourly == c1 :> At(TRUE, "weekly", 1, 1) @@ c2 :> At(TRUE, "hourly", 0, 0)
===========================================================================
