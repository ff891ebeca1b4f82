------------------------------ MODULE DateInput ------------------------------
(***************************************************************************)
(* The date field, src/views/emrtd_date_input.c: three numbers stepped one *)
(* at a time, shown as a date and handed back as the six digits of the     *)
(* machine readable zone.  The scene that opens it, which says whether the *)
(* date lies ahead and what is stored, is in Settings.                     *)
(***************************************************************************)
EXTENDS Integers, Sequences

CONSTANTS
    CurrentYear,        \* what the clock said when the view was made
    Stored              \* what the scene may hand in: <<yy, mm, dd>>, or <<>> for
                        \* anything but six digits

ASSUME DateAssumption ==
    /\ CurrentYear \in 2000 .. 2099
    /\ \A s \in Stored : s = <<>> \/ s \in (0 .. 99) \X (0 .. 99) \X (0 .. 99)

VARIABLES day, month, year,     \* the three fields
          focus,                \* which of them the arrows change
          future,               \* a date of expiry, not of birth
          handed                \* the date the last key handed back, <<>> if none

fields == <<day, month, year>>
dateVars == <<fields, focus, future, handed>>

Parts == <<"day", "month", "year">>

\* The calendar of the firmware's datetime library.
LeapYear(y) == (y % 4 = 0 /\ y % 100 # 0) \/ y % 400 = 0
DaysPerMonth(leap, m) ==
    IF m = 2 THEN (IF leap THEN 29 ELSE 28) ELSE IF m \in {4, 6, 9, 11} THEN 30 ELSE 31

\* emrtd_date_input_resolve_year: a date of birth is not ahead of the clock.
ResolveYear == IF ~future /\ 2000 + year > CurrentYear THEN 1900 + year ELSE 2000 + year

\* A bug for the check to find: every February has 29 days.
IsValidAnyYear ==
    /\ month \in 1 .. 12
    /\ day >= 1
    /\ day <= DaysPerMonth(TRUE, month)

\* emrtd_date_input_is_valid
IsValid ==
    /\ month \in 1 .. 12
    /\ day >= 1
    /\ day <= DaysPerMonth(LeapYear(ResolveYear), month)

\* One field stepped, wrapping at its own limits whatever the other two say.
Wrapped(value, low, high) == IF value < low THEN high ELSE IF value > high THEN low ELSE value

\* emrtd_date_input_step
Step(delta) ==
    /\ day' = IF focus = 1 THEN Wrapped(day + delta, 1, 31) ELSE day
    /\ month' = IF focus = 2 THEN Wrapped(month + delta, 1, 12) ELSE month
    /\ year' = IF focus = 3 THEN Wrapped(year + delta, 0, 99) ELSE year
    /\ handed' = <<>>
    /\ UNCHANGED <<focus, future>>

\* Left and Right.
Turn(by) ==
    /\ focus' = ((focus - 1 + by) % Len(Parts)) + 1
    /\ handed' = <<>>
    /\ UNCHANGED <<fields, future>>

\* OK, as a short press: the date is handed back only if it exists.
Ok ==
    /\ handed' = IF IsValid THEN <<year, month, day>> ELSE <<>>
    /\ UNCHANGED <<fields, focus, future>>

\* emrtd_date_input_set_future and _set_value, as a scene opens the view: six
\* digits are taken as they are, anything else is the first of this year.
Open(ahead, stored) ==
    /\ future' = ahead
    /\ LET shown == IF stored = <<>> THEN <<CurrentYear % 100, 1, 1>> ELSE stored
       IN year' = shown[1] /\ month' = shown[2] /\ day' = shown[3]
    /\ focus' = 1
    /\ handed' = <<>>

\* emrtd_date_input_alloc
DateInit ==
    /\ day = 1 /\ month = 1 /\ year = CurrentYear % 100
    /\ focus = 1 /\ future = FALSE /\ handed = <<>>

DateNext ==
    \/ \E delta \in {-1, 1} : Step(delta)
    \/ \E by \in {1, 2} : Turn(by)
    \/ Ok
    \/ \E ahead \in BOOLEAN, stored \in Stored : Open(ahead, stored)

DateSpec == DateInit /\ [][DateNext]_dateVars
=============================================================================
