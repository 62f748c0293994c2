------------------------------- MODULE Clock -------------------------------
(***************************************************************************)
(* The real time clock: T-R and T-W (doscmd.c), rtc.c, which picks one of    *)
(* the clocks built in, and the clocks: the DS1307 and DS3231, the PCF8583,  *)
(* that of the LPC17xx and the software clock of the AVR builds.             *)
(***************************************************************************)
EXTENDS Integers, Sequences, FiniteSets, ErrorChannel

CONSTANTS
  Builds,      (* the sets of clocks built in *)
  Dates,       (* the dates, [year, mon, mday], at which a run may begin *)
  Times,       (* the seconds of the day at which it may begin *)
  Spans,       (* the days that may pass at once *)
  MaxPasses,   (* and how often time passes, by a second or by days *)
  None

ASSUME ClockAssumption ==
  /\ \A d \in Dates : d.year \in 80 .. 179 /\ d.mon \in 0 .. 11 /\ d.mday \in 1 .. 31
  /\ \A s \in Times : s \in Nat /\ s < 86400
  /\ \A d \in Spans : d \in Nat \ {0} /\ d <= 1095
  /\ MaxPasses \in Nat
  /\ None \notin {"ds", "pcf", "lpc", "soft"}

VARIABLES
  now,         (* the true time, [day, sec]: days since 1980-01-01, a Tuesday *)
  passes,
  built, fitted,  (* the clocks built in, those of them that are on the board *)
  current_rtc, rtc_state,
  chip,        (* what the clock counts, [at, wday], whether it runs and its
                  contents are valid, the word for the year in the PCF8583's RAM *)
  set,         (* the clock was set and has not lost the time since *)
  told         (* the last time that was told, and when; None: nothing yet *)

clockVars == <<now, passes, built, fitted, current_rtc, rtc_state, chip, set, told>>

(***************************************************************************)
(* The calendar, 1980 to 2099.                                              *)
(***************************************************************************)
Leap(year)  == year % 4 = 0
Months == <<0, 31, 59, 90, 120, 151, 181, 212, 243, 273, 304, 334, 365>>
MonthStart(year, mon) == Months[mon + 1] + (IF mon >= 2 /\ Leap(year) THEN 1 ELSE 0)
YearStart(year) == LET n == year - 80 IN 365 * n + (n + 3) \div 4

DayOf(tm)   == YearStart(tm.year) + MonthStart(tm.year, tm.mon) + tm.mday - 1
SecOf(tm)   == 3600 * tm.hour + 60 * tm.min + tm.sec
At(tm)      == [day |-> DayOf(tm), sec |-> SecOf(tm)]
Weekday(day) == (day + 2) % 7

(* An instant as a struct tm.  The parts of the day and of the date apart.   *)
Clocked(sec) == [hour |-> sec \div 3600, min |-> (sec \div 60) % 60, sec |-> sec % 60]
YearOf(day) ==
  LET r == day % 1461 IN 80 + 4 * (day \div 1461) + (IF r < 366 THEN 0 ELSE (r - 1) \div 365)
TmOf(at, wday) ==
  LET year == YearOf(at.day)
      r    == at.day - YearStart(year)
      mon  == CHOOSE m \in 0 .. 11 : MonthStart(year, m) <= r /\ r < MonthStart(year, m + 1)
      c    == Clocked(at.sec)
  IN [year |-> year, mon |-> mon, mday |-> r - MonthStart(year, mon) + 1,
      hour |-> c.hour, min |-> c.min, sec |-> c.sec, wday |-> wday]

After(at, days, secs) ==
  [day |-> at.day + days + (at.sec + secs) \div 86400, sec |-> (at.sec + secs) % 86400]
TrueTime == TmOf(now, Weekday(now.day))

rtc_default_date == [year |-> 82, mon |-> 7, mday |-> 31, hour |-> 0, min |-> 0, sec |-> 0, wday |-> 2]

(***************************************************************************)
(* The clocks: what is stored when they are set, and what is read.           *)
(***************************************************************************)
(* bcd2int(int2bcd(n)): two digits are kept, and of the year those below 100. *)
TwoDigits(n) == n % 100

(* The DS chips have two digits for the year and a bit for the century, which *)
(* stands for 2100 and later.                                               *)
dsrtc_set(c, tm) ==
  LET century == tm.year >= 200
  IN [c EXCEPT !.at = At([tm EXCEPT !.year = TwoDigits(tm.year) + (IF century THEN 200 ELSE 100)]),
               !.wday = tm.wday, !.valid = TRUE]
dsrtc_read(c) == TmOf(c.at, c.wday)

(* The PCF8583 counts the years modulo 4; the year is in its RAM, and is      *)
(* brought up to date whenever the clock is read.                            *)
pcf8583_set(c, tm) ==
  [c EXCEPT !.at = At(tm), !.wday = tm.wday, !.ram = tm.year + 1900, !.valid = TRUE]
YearNow(ram, bits) == CHOOSE y \in ram .. ram + 3 : y % 4 = bits
pcf8583_year(c) == [c EXCEPT !.ram = YearNow(@, YearOf(c.at.day) % 4)]
pcf8583_read(c) == [TmOf(c.at, c.wday) EXCEPT !.year = pcf8583_year(c).ram - 1900]

(* The LPC17xx has a register for everything.  It is read register by         *)
(* register; a second may end after the first k of them.                     *)
lpcrtc_set(c, tm) == [c EXCEPT !.at = At(tm), !.wday = tm.wday, !.valid = TRUE]
Registers == <<"sec", "min", "hour", "mday", "mon", "year", "wday">>
Torn(old, new, k) ==
  [f \in DOMAIN old |-> IF \E i \in 1 .. k : Registers[i] = f THEN old[f] ELSE new[f]]
lpcrtc_read_once(old, new, k) == Torn(old, new, k)   (* mutant: no second look at the seconds *)
lpcrtc_read(old, new, k) ==
  LET tm == Torn(old, new, k) IN IF tm.sec = new.sec THEN tm ELSE new

(* mktime: the month in a byte, which January wraps; days since 1970.        *)
mktime(tm) ==
  LET less == (tm.mon + 1 + 254) % 256
      mon  == IF less = 0 THEN 12 ELSE less
      year == tm.year + 1900 - (IF less = 0 THEN 1 ELSE 0)
  IN year \div 4 - year \div 100 + year \div 400 + (367 * mon) \div 12 + tm.mday + year * 365 - 719499
softrtc_set(c, tm) == [c EXCEPT !.at = [day |-> mktime(tm) - 3652, sec |-> SecOf(tm)], !.valid = TRUE]

(* gmtime.  The year is counted from 1970; the months by a table in which      *)
(* February has 28 days and a leap year, that is one with 1900 + year, takes   *)
(* one more: on the 29th there is nothing left to take it from.              *)
SoftLeap(year) == year % 4 = 0 /\ year % 100 # 0
gmtime(c) ==
  LET year == YearOf(c.at.day)
      r    == c.at.day - YearStart(year)
      left == IF SoftLeap(year) /\ r >= 59 THEN r - 1 ELSE r
      mons == {m \in 0 .. 11 : MonthStart(81, m) <= left /\ left < MonthStart(81, m + 1)}
  IN IF mons = {} \/ (SoftLeap(year) /\ r = 59) THEN None
     ELSE LET mon == CHOOSE m \in mons : TRUE
          IN [TmOf(c.at, (c.at.day + 3652 + 4) % 7) EXCEPT
                !.year = year, !.mon = mon, !.mday = left - MonthStart(81, mon) + 1]

(***************************************************************************)
(* rtc.c.  With several clocks built in the first that is found is used; the *)
(* software clock is a fallback that is initialised but not selected.        *)
(***************************************************************************)
NeedMux == Cardinality(built) > 1
Found   == {c \in built : c \in {"lpc", "soft"} \/ c \in fitted}
Pick    == CASE "ds" \in Found  -> "ds"
             [] Found \cap {"ds", "pcf"} = {"pcf"} -> "pcf"
             [] Found \cap {"ds", "pcf", "lpc"} = {"lpc"} -> "lpc"
             [] Found = {"soft"} /\ ~NeedMux -> "soft"
             [] OTHER -> None

StateOf(c, which) ==
  CASE which = None   -> IF Found = {} THEN "not_found" ELSE "ok"
    [] which = "soft" -> "ok"
    [] which = "lpc"  -> IF c.valid /\ c.runs THEN "ok" ELSE "invalid"
    [] OTHER          -> IF c.valid THEN "ok" ELSE "invalid"

(* What is in the clock when it is switched on: the software clock begins at  *)
(* 2008-08-02 03:18:45, the PCF8583 is started and its year brought up to      *)
(* date, but not through the multiplexer, which has selected nothing yet.     *)
SwitchedOn(c, which) ==
  CASE which = "soft" -> [c EXCEPT !.at = [day |-> YearStart(108) + 214, sec |-> 11925]]
    [] which = "pcf" /\ ~NeedMux /\ c.valid -> [pcf8583_year(c) EXCEPT !.runs = TRUE]
    [] which = "pcf" /\ (NeedMux \/ ~c.valid) -> [c EXCEPT !.runs = TRUE]
    [] OTHER -> c

(* One second may end while the clock is read: then old is before, new after. *)
read_rtc(old, new, k) ==
  CASE current_rtc = "soft" -> gmtime(old)
    [] current_rtc = None   -> None
    [] current_rtc # "soft" /\ rtc_state # "ok" -> rtc_default_date
    [] current_rtc = "ds" /\ rtc_state = "ok"   -> dsrtc_read(old)
    [] current_rtc = "pcf" /\ rtc_state = "ok"  -> pcf8583_read(old)
    [] current_rtc = "lpc" /\ rtc_state = "ok"  ->
         lpcrtc_read(TmOf(old.at, old.wday), TmOf(new.at, new.wday), k)

set_rtc(c, tm) ==
  CASE current_rtc = "ds"   -> dsrtc_set(c, tm)
    [] current_rtc = "pcf"  -> pcf8583_set(c, tm)
    [] current_rtc = "lpc"  -> lpcrtc_set(c, tm)
    [] current_rtc = "soft" -> softrtc_set(c, tm)

Elapsed(c, days, secs) ==
  LET at == After(c.at, days, secs)
  IN IF c.runs THEN [c EXCEPT !.at = at, !.wday = (@ + at.day - c.at.day) % 7] ELSE c

(***************************************************************************)
(* T-W.  What the computer sends, and what the drive makes of it.            *)
(***************************************************************************)
WriteForms == {"A", "A24", "B", "D", "I"}
Half(hour) == IF hour % 12 = 0 THEN 12 ELSE hour % 12

Sent(form, tm) ==
  [form |-> form, long |-> TRUE, wday |-> tm.wday,
   year |-> IF form = "I" THEN 1900 + tm.year ELSE TwoDigits(tm.year),
   mon |-> tm.mon + 1, mday |-> tm.mday,
   hour |-> IF form \in {"A24", "I"} THEN tm.hour ELSE Half(tm.hour),
   pm |-> tm.hour >= 12, min |-> tm.min, sec |-> tm.sec]

(* The day is a byte: with the year added to it it wraps.                    *)
day_of_week(y, m, d) ==
  LET year == y + 1900
      byte == (d + (IF m < 3 THEN year ELSE year - 2)) % 256
      y4   == IF m < 3 THEN year - 1 ELSE year
  IN ((23 * m) \div 9 + byte + 4 + y4 \div 4 - y4 \div 100 + y4 \div 400) % 7
WeekdayFits(tm) == tm.year + 1900 + tm.mday < 2048

HourOf12_12(c) == c.hour + (IF c.pm THEN 12 ELSE 0)   (* mutant: 12 is not made 0 *)
HourOf12(c) == (IF c.hour = 12 THEN 0 ELSE c.hour) + (IF c.pm THEN 12 ELSE 0)

Parsed(c) ==
  LET year == IF c.form = "I" THEN c.year - 1900 ELSE c.year
  IN [year |-> IF year < 80 THEN year + 100 ELSE year,
      mon  |-> (c.mon + 255) % 256, mday |-> c.mday,
      hour |-> IF c.form \in {"A24", "I"} THEN c.hour ELSE HourOf12(c),
      min  |-> c.min, sec |-> c.sec,
      wday |-> IF c.form = "I" THEN day_of_week(year, c.mon, c.mday) ELSE c.wday]

Sensible(tm) ==
  /\ tm.mday \in 1 .. 31 /\ tm.mon \in 0 .. 11 /\ tm.wday \in 0 .. 6
  /\ tm.hour \in 0 .. 23 /\ tm.min \in 0 .. 59 /\ tm.sec \in 0 .. 59

parse_timewrite(c) ==
  IF c.form \notin WriteForms THEN "syntax_unknown"
  ELSE IF ~c.long \/ ~Sensible(Parsed(c)) THEN "syntax_unable"
  ELSE "ok"

(***************************************************************************)
(* T-R.  What the drive answers, and what the computer understands: years    *)
(* of two digits are those from 1980 to 2079.                                *)
(***************************************************************************)
ReadForms == {"A", "B", "D", "I"}

parse_timeread(form, tm) ==
  [wday |-> tm.wday, mon |-> tm.mon + 1, mday |-> tm.mday, min |-> tm.min, sec |-> tm.sec,
   hour |-> IF form = "I" THEN tm.hour ELSE Half(tm.hour), pm |-> tm.hour >= 12,
   year |-> CASE form \in {"A", "B"} -> TwoDigits(tm.year)
              [] form = "D" -> tm.year
              [] form = "I" -> 100 * (19 + tm.year \div 100) + TwoDigits(tm.year)]

Understood(form, a) ==
  [wday |-> a.wday, mon |-> a.mon - 1, mday |-> a.mday, min |-> a.min, sec |-> a.sec,
   hour |-> IF form = "I" THEN a.hour ELSE (a.hour % 12) + (IF a.pm THEN 12 ELSE 0),
   year |-> CASE form \in {"A", "B"} -> IF a.year < 80 THEN a.year + 100 ELSE a.year
              [] form = "D" -> a.year
              [] form = "I" -> a.year - 1900]

(* The time stamps of files: FAT's of two seconds, the image's of minutes.   *)
get_fattime(tm) ==
  [year |-> (tm.year - 80) % 128, mon |-> tm.mon + 1, mday |-> tm.mday,
   hour |-> tm.hour, min |-> tm.min, sec |-> tm.sec \div 2]
update_timestamp(tm) ==
  [year |-> tm.year % 100, mon |-> tm.mon + 1, mday |-> tm.mday, hour |-> tm.hour, min |-> tm.min]
StampFat(tm) ==
  LET s == get_fattime(tm)
  IN [tm EXCEPT !.year = 80 + s.year, !.mon = s.mon - 1, !.mday = s.mday, !.hour = s.hour,
                !.min = s.min, !.sec = 2 * s.sec]
StampImage(tm) ==
  LET s == update_timestamp(tm)
  IN [tm EXCEPT !.year = IF s.year < 80 THEN 100 + s.year ELSE s.year, !.mon = s.mon - 1,
                !.mday = s.mday, !.hour = s.hour, !.min = s.min]

(***************************************************************************)
(* The steps.  The computer knows the time when it sets the clock.           *)
(***************************************************************************)
Told(by, tm, from, to) == [by |-> by, tm |-> tm, set |-> set, from |-> from, to |-> to]

(* Where a run begins that is not about the clock.                          *)
FirstInstant ==
  LET d == CHOOSE d \in Dates : TRUE
  IN {<<DayOf([year |-> d.year, mon |-> d.mon, mday |-> d.mday]), CHOOSE s \in Times : TRUE>>}

ClockInit ==
  /\ \E d \in Dates, s \in Times :
       now = [day |-> DayOf([year |-> d.year, mon |-> d.mon, mday |-> d.mday]), sec |-> s]
  /\ passes = 0
  /\ built \in Builds /\ fitted \in SUBSET (built \cap {"ds", "pcf"})
  /\ current_rtc = Pick
  /\ chip = SwitchedOn([at |-> [day |-> 0, sec |-> 0], wday |-> 0, ram |-> 1980, valid |-> FALSE,
                        runs |-> TRUE], Pick)
  /\ rtc_state = StateOf(chip, Pick)
  /\ set = FALSE /\ told = None

BoardKept == UNCHANGED <<built, fitted, current_rtc>>

(* A second, or days, with the drive on or off.                              *)
Pass(days, secs) ==
  /\ passes < MaxPasses
  /\ passes' = passes + 1
  /\ now' = After(now, days, secs)
  /\ now'.day < YearStart(180)
  /\ current_rtc = "pcf" /\ chip.valid => YearOf(now'.day) + 1900 < chip.ram + 4
  /\ chip' = Elapsed(chip, days, secs)
  /\ UNCHANGED <<rtc_state, set, told>> /\ BoardKept

(* Limits of what the clocks can be set to, named in the README.             *)
CanBeSet(form) ==
  /\ current_rtc = "ds" => TrueTime.year >= 100
  /\ current_rtc = "soft" => TrueTime.mon > 0
  /\ form = "I" => WeekdayFits(TrueTime)
CanBeRead == current_rtc = "soft" =>
               gmtime(chip) # None /\ ~(YearOf(chip.at.day) = 100 /\ chip.at.day >= YearStart(100) + 59)

(* A complete and sensible T-W, in any of the forms; and others.             *)
TimeWrite(c) ==
  LET res == parse_timewrite(c)
      ok  == rtc_state # "not_found" /\ res = "ok"
  IN /\ error_buffer' = IF rtc_state = "not_found" THEN set_error("syntax_unknown")
                        ELSE IF res # "ok" THEN set_error(res) ELSE Started
     /\ got' = 0
     /\ chip' = IF ok THEN [set_rtc(chip, Parsed(c)) EXCEPT !.runs = TRUE] ELSE chip
     /\ rtc_state' = IF ok THEN "ok" ELSE rtc_state
     /\ set' = (set \/ ok)
     /\ UNCHANGED <<now, passes, told>> /\ BoardKept

SetTime(form) == current_rtc # None /\ CanBeSet(form) /\ TimeWrite(Sent(form, TrueTime))
SetWrong ==
  LET c == Sent("B", TrueTime)
  IN \E wrong \in {[c EXCEPT !.form = "X"], [c EXCEPT !.long = FALSE], [c EXCEPT !.mday = 0],
                   [c EXCEPT !.mon = 0], [c EXCEPT !.hour = 13, !.pm = TRUE], [c EXCEPT !.wday = 7]} :
       current_rtc # None /\ TimeWrite(wrong)

(* The power fails while the clock is set: the DS chips have the time but not  *)
(* yet the flag cleared that says that they had stopped; the LPC17xx's clock   *)
(* is stopped, or runs without its signature.                               *)
CutSet ==
  /\ current_rtc \in {"ds", "lpc"} /\ CanBeSet("B")
  /\ LET c == [set_rtc(chip, Parsed(Sent("B", TrueTime))) EXCEPT !.valid = chip.valid]
     IN \E cut \in IF current_rtc = "ds" THEN {c} ELSE {[c EXCEPT !.runs = FALSE], [c EXCEPT !.runs = TRUE]} :
          /\ chip' = cut /\ rtc_state' = StateOf(cut, current_rtc)
          /\ set' = (rtc_state' = "ok")
  /\ error_buffer' = set_error("dosversion") /\ got' = 0
  /\ UNCHANGED <<now, passes, told>> /\ BoardKept

(* T-R, in a form or in one that there is not; a second may end meanwhile,   *)
(* after k of the LPC17xx's registers were read.                             *)
TimeRead(form, k) ==
  LET new == IF k = 0 THEN chip ELSE Elapsed(chip, 0, 1)
      tm  == read_rtc(chip, new, k)
  IN /\ k > 0 => passes < MaxPasses /\ rtc_state = "ok" /\ form \in ReadForms
     /\ k > 1 => current_rtc = "lpc"
     /\ k > 0 => After(now, 0, 1).day < YearStart(180)
     /\ CanBeRead /\ (current_rtc = None => rtc_state # "ok")
     /\ got' = 0
     /\ IF rtc_state = "ok" /\ form \in ReadForms
          THEN /\ now' = After(now, 0, IF k = 0 THEN 0 ELSE 1)
               /\ error_buffer' = AnswerIn(Started, [about |-> "time", is |-> form, last |-> 2])
               /\ told' = Told(form, Understood(form, parse_timeread(form, tm)), now, now')
               /\ chip' = IF current_rtc = "pcf" THEN [new EXCEPT !.ram = pcf8583_year(chip).ram] ELSE new
          ELSE /\ error_buffer' = set_error(CASE rtc_state = "invalid" -> "syntax_unable"
                                              [] OTHER -> "syntax_unknown")
               /\ told' = None
               /\ UNCHANGED <<now, chip>>
     /\ passes' = passes + (IF k = 0 THEN 0 ELSE 1)
     /\ UNCHANGED <<rtc_state, set>> /\ BoardKept

(* A file is created, on FAT or in an image.                                 *)
Stamp(by) ==
  LET tm == read_rtc(chip, chip, 0)
  IN /\ CanBeRead /\ current_rtc # None
     /\ told' = Told(by, IF by = "fat" THEN StampFat(tm) ELSE StampImage(tm), now, now)
     /\ chip' = IF current_rtc = "pcf" /\ rtc_state = "ok" THEN pcf8583_year(chip) ELSE chip
     /\ UNCHANGED <<now, passes, rtc_state, set, errorVars>> /\ BoardKept

(* Off and on again, the battery's end in between or not.                    *)
PowerCycle(battery) ==
  LET c == SwitchedOn([chip EXCEPT !.valid = @ /\ battery], current_rtc)
  IN /\ chip' = c
     /\ rtc_state' = StateOf(c, current_rtc)
     /\ set' = (set /\ battery /\ current_rtc # "soft")
     /\ told' = None
     /\ error_buffer' = set_error("dosversion") /\ got' = 0
     /\ UNCHANGED <<now, passes>> /\ BoardKept

(***************************************************************************)
(* Property.                                                               *)
(***************************************************************************)
(* A clock that was set tells the computer the time, the day of the week       *)
(* included, in every form and after every turn of the minute, noon, the year  *)
(* and the century, and also when the second ends while it is read; files are  *)
(* stamped with it.  One that was not, or whose battery failed, or that was    *)
(* cut off while it was set, tells no time, and files get the default date.    *)
Rounded(by, tm) ==
  CASE by = "fat"   -> [tm EXCEPT !.sec = 2 * (@ \div 2), !.wday = 0]
    [] by = "image" -> [tm EXCEPT !.sec = 0, !.wday = 0]
    [] OTHER        -> tm

TimeTold ==
  told # None =>
    LET tm == Rounded(told.by, told.tm)
    IN IF told.set
         THEN \E at \in {told.from, told.to} : tm = Rounded(told.by, TmOf(at, Weekday(at.day)))
         ELSE current_rtc = "soft" \/ (told.by \in {"fat", "image"} /\ tm = Rounded(told.by, rtc_default_date))
=============================================================================
