----------------------------- MODULE EasternDate -----------------------------
(***************************************************************************)
(* The US Eastern calendar date of a start stamp, by integer arithmetic    *)
(* (arbkit-feed live/discovery.rs).  Dates are <<year, month, day>>, days  *)
(* count from 1970-01-01, instants are seconds from its first.             *)
(***************************************************************************)
EXTENDS Integers

DaysFromCivil(y, m, d) ==
    LET yy == IF m <= 2 THEN y - 1 ELSE y
        era == yy \div 400
        yoe == yy - era * 400
        doy == (153 * ((m + 9) % 12) + 2) \div 5 + d - 1
    IN  era * 146097 + yoe * 365 + yoe \div 4 - yoe \div 100 + doy - 719468

CivilFromDays(days) ==
    LET z == days + 719468
        era == z \div 146097
        doe == z - era * 146097
        yoe == (doe - doe \div 1460 + doe \div 36524 - doe \div 146096) \div 365
        doy == doe - (365 * yoe + yoe \div 4 - yoe \div 100)
        mp == (5 * doy + 2) \div 153
        m == ((mp + 2) % 12) + 1
    IN  <<IF m <= 2 THEN yoe + era * 400 + 1 ELSE yoe + era * 400, m,
          doy - (153 * mp + 2) \div 5 + 1>>

WeekdayOf(days) == (days + 4) % 7     \* Sunday is 0

NthSunday(y, m, n) == 1 + ((7 - WeekdayOf(DaysFromCivil(y, m, 1))) % 7) + 7 * (n - 1)

\* Mutant: the first Sunday of March.
IsUsDstEarly(local) ==
    LET date == CivilFromDays(local \div 86400) IN
    CASE date[2] \in 4..10 -> TRUE
      [] date[2] = 3 -> date[3] >= NthSunday(date[1], 3, 1)
      [] date[2] = 11 -> date[3] < NthSunday(date[1], 11, 1)
      [] OTHER -> FALSE

\* Whole days: the switch at two o'clock is not looked at.
IsUsDst(local) ==
    LET date == CivilFromDays(local \div 86400) IN
    CASE date[2] \in 4..10 -> TRUE
      [] date[2] = 3 -> date[3] >= NthSunday(date[1], 3, 2)
      [] date[2] = 11 -> date[3] < NthSunday(date[1], 11, 1)
      [] OTHER -> FALSE

\* Only an offset behind UTC is read: a '+' counts where a '-' follows it.
ReadOffset(stamp) == IF stamp.sign = "-" THEN -stamp.offset ELSE 0

NoDate == <<>>

LegalStamp(stamp) ==
    /\ stamp.month \in 1..12 /\ stamp.day \in 1..31
    /\ stamp.hour \in 0..23 /\ stamp.minute \in 0..59
    /\ stamp.sign = "-" => stamp.offset \in 0..(14 * 3600 + 59 * 60)

EasternGameDate(stamp) ==
    LET utc == DaysFromCivil(stamp.year, stamp.month, stamp.day) * 86400
                  + stamp.hour * 3600 + stamp.minute * 60 - ReadOffset(stamp)
        behind == IF IsUsDst(utc - 4 * 3600) THEN 4 ELSE 5
    IN  IF LegalStamp(stamp) THEN CivilFromDays((utc - behind * 3600) \div 86400) ELSE NoDate
=============================================================================
