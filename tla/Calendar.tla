------------------------------ MODULE Calendar ------------------------------
(* The calendar arithmetic of evidence_receipt.py: which dates are dates,    *)
(* the day number of a date, and the stamps that transactions, deadlines and *)
(* source dates are written in.  Python's // and % are TLA+'s \div and %.    *)
(* A date is a record of numbers: that its text has digits and separators in *)
(* their places is left out.                                                 *)
EXTENDS Integers, Sequences

CONSTANTS
    HOURS,           \* hours of a day: 24 in the code
    SIXTY            \* minutes of an hour and seconds of a minute: 60

ASSUME ClockAssumption == HOURS \in Nat \ {0} /\ SIXTY \in Nat \ {0}

SecondsPerHour == SIXTY * SIXTY
SecondsPerDay == HOURS * SecondsPerHour

MonthLimits == <<31, 28, 31, 30, 31, 30, 31, 31, 30, 31, 30, 31>>

Fault_EveryFourthYear(year) == year % 4 = 0
LeapYear(year) == year % 4 = 0 /\ (year % 100 # 0 \/ year % 400 = 0)

\* _valid_date of a date with four-digit year.
ValidDate(d) ==
    /\ d.year \in 1970..9999
    /\ d.month \in 1..12
    /\ d.day >= 1
    /\ d.day <= IF d.month = 2 /\ LeapYear(d.year) THEN 29
                ELSE MonthLimits[d.month]

Fault_YearFromJanuary(d) == d.year

\* The year counted from March, so that a leap day is its last.
MarchYear(d) == IF d.month <= 2 THEN d.year - 1 ELSE d.year

DaysFromCivil(d) ==
    LET y == MarchYear(d)
        era == (IF y >= 0 THEN y ELSE y - 399) \div 400
        yoe == y - era * 400
        mp == IF d.month > 2 THEN d.month - 3 ELSE d.month + 9
        doy == (153 * mp + 2) \div 5 + d.day - 1
        doe == yoe * 365 + yoe \div 4 - yoe \div 100 + doy
    IN  era * 146097 + doe - 719468

\* A stamp is a date with a time of day.
ValidStamp(s) ==
    /\ ValidDate(s.date)
    /\ s.hour < HOURS /\ s.minute < SIXTY /\ s.second < SIXTY

IsoEpoch(s) ==
    DaysFromCivil(s.date) * SecondsPerDay
        + s.hour * SecondsPerHour + s.minute * SIXTY + s.second

Fault_NoCenturies(doe) == (doe - doe \div 1460 - doe \div 146096) \div 365

\* The year of its era of the day doe of that era.
YearOfEra(doe) ==
    (doe - doe \div 1460 + doe \div 36524 - doe \div 146096) \div 365

EpochIso(seconds) ==
    LET days == seconds \div SecondsPerDay
        rest == seconds - days * SecondsPerDay
        z == days + 719468
        era == (IF z >= 0 THEN z ELSE z - 146096) \div 146097
        doe == z - era * 146097
        yoe == YearOfEra(doe)
        doy == doe - (365 * yoe + yoe \div 4 - yoe \div 100)
        mp == (5 * doy + 2) \div 153
        m == IF mp < 10 THEN mp + 3 ELSE mp - 9
    IN  [date |-> [year |-> yoe + era * 400 + (IF m <= 2 THEN 1 ELSE 0),
                   month |-> m,
                   day |-> doy - (153 * mp + 2) \div 5 + 1],
         hour |-> rest \div SecondsPerHour,
         minute |-> (rest % SecondsPerHour) \div SIXTY,
         second |-> rest % SIXTY]
=============================================================================
