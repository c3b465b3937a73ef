------------------------------- MODULE Calendar -------------------------------
(***************************************************************************)
(* The dates of a manifest: what parse_rfc3339_utc makes of a timestamp     *)
(* (murl-core, time.rs) and what notBefore and expires say of a moment.     *)
(*                                                                         *)
(* A timestamp is a record of the numbers in its fixed places (of the year  *)
(* four digits, of the rest two). A moment is a number of seconds since     *)
(* 1970. A date a manifest may leave out is a set of at most one timestamp. *)
(***************************************************************************)
EXTENDS Integers

Timestamp ==
    [year : Nat, month : Nat, day : Nat, hour : Nat, minute : Nat, second : Nat]

IsLeap(year) == (year % 4 = 0 /\ year % 100 # 0) \/ year % 400 = 0

DaysInMonth(year, month) ==
    IF month \in {4, 6, 9, 11} THEN 30
    ELSE IF month = 2 THEN IF IsLeap(year) THEN 29 ELSE 28
    ELSE 31

ValidDate(year, month, day) ==
    1970 <= year /\ year <= 9999 /\ month \in 1 .. 12 /\ day \in 1 .. DaysInMonth(year, month)

ValidTimestamp(t) ==
    /\ ValidDate(t.year, t.month, t.day)
    /\ t.hour <= 23 /\ t.minute <= 59 /\ t.second <= 59

DaysBeforeEpoch == 719468   \* from 0000-03-01 to 1970-01-01

(* The year begins in March, so that the leap day is its last.              *)
DaysFromCivil(year, month, day) ==
    LET y == IF month <= 2 THEN year - 1 ELSE year
        era == y \div 400
        yearOfEra == y - era * 400
        dayOfYear == (153 * (IF month > 2 THEN month - 3 ELSE month + 9) + 2) \div 5 + day - 1
        dayOfEra == yearOfEra * 365 + yearOfEra \div 4 - yearOfEra \div 100 + dayOfYear
    IN  era * 146097 + dayOfEra - DaysBeforeEpoch

SecondsOfDay(hour, minute, second) == hour * 3600 + minute * 60 + second

Epoch(t) ==
    DaysFromCivil(t.year, t.month, t.day) * 86400 + SecondsOfDay(t.hour, t.minute, t.second)

-----------------------------------------------------------------------------
(* What validation asks of the two dates, and what resolution says of them. *)

ValidWindow(notBefore, expires) ==
    /\ \A t \in notBefore \cup expires : ValidTimestamp(t)
    /\ \A b \in notBefore, e \in expires : Epoch(b) < Epoch(e)

Expired(now, expires) == \E e \in expires : Epoch(e) <= now
Premature(now, notBefore) == \E b \in notBefore : now < Epoch(b)

Window(now, notBefore, expires) ==
    CASE Expired(now, expires) -> "expired"
      [] Premature(now, notBefore) -> "premature"
      [] OTHER -> "valid"
=============================================================================
