---------------------------- MODULE Stm32RtcDiff ----------------------------
(***************************************************************************)
(* The calendar differences of the STM32 RTC driver (stm32_rtc.c):         *)
(* stm32_rtc_diff_calendar_ms() and stm32_rtc_diff_calendar_tick() take    *)
(* two times read by stm32_rtc_fill_time() and return the time between     *)
(* them, as the sum of a subsecond, a time-of-day and a date part.         *)
(*                                                                         *)
(* A time is what stm32_rtc_fill_time() decodes from the BCD registers     *)
(* RTC_TR, RTC_DR and RTC_SSR, whose layout is the one stm32_rtc_set_time() *)
(* writes.  The C arithmetic is kept: the subsecond difference is a        *)
(* uint32_t and the parts are unsigned long long added into a signed long  *)
(* long.  TLC integers are 32 bits wide, so a 64-bit value is carried as   *)
(* whole days d plus milliseconds ms, and a wrapped operand as a count of  *)
(* the constant it adds modulo 2^64: ws for 2^32 * 1000 / scale (the       *)
(* uint32_t subsecond difference below zero) and wt for floor(2^64 / 1000) *)
(* (a time-of-day difference below zero multiplied by the tick rate).     *)
(* The tick variant is called with tick_rate = MS_PER_SEC, so a correct   *)
(* result of either function is the same number of milliseconds.          *)
(***************************************************************************)
EXTENDS Integers, FiniteSetsExt

CONSTANTS
  Years,      \* calendar years the RTC may hold (2000 .. 2099)
  MDays,      \* days of the month tried (kept where the month has them)
  Hours,
  Minutes,
  Seconds,
  SsrValues,  \* RTC_SSR values: the subsecond counter, down from PREDIV_S
  PredivS     \* RTC_PRER.PREDIV_S; PREDIV_S + 1 is a power of two

ASSUME /\ \E k \in 2 .. 15 : PredivS + 1 = 2^k
       /\ \A ss \in SsrValues : ss <= PredivS

VARIABLES
  cur,   \* the time passed as cur
  ref    \* the time passed as ref

vars == <<cur, ref>>

MsPerDay == 24 * 60 * 60 * 1000
MsPerSec == 1000

(* rtc_is_a_leap_year() *)
IsLeap(y) == (y % 4 = 0 /\ y % 100 # 0) \/ y % 400 = 0

(* month_len[] of stm32_rtc_diff_date_ms(), indexed by month 1 .. 12 *)
MonthLen == <<31, 28, 31, 30, 31, 30, 31, 31, 30, 31, 30, 31>>

-----------------------------------------------------------------------------
(* Register fields: (reg & MASK) >> SHIFT, and (v << SHIFT) & MASK. *)
Field(reg, shift, width) == (reg \div 2^shift) % 2^width
Put(v, shift, width) == (v % 2^width) * 2^shift

(* RTC_TR and RTC_DR as stm32_rtc_set_time() builds them (year counted   *)
(* from range_min.tm_year = 2000, month from 1); the fields are disjoint, *)
(* so | is +.                                                             *)
TimeReg(t) ==
  Put(t.sec % 10, 0, 4) + Put(t.sec \div 10, 4, 3)
  + Put(t.min % 10, 8, 4) + Put(t.min \div 10, 12, 3)
  + Put(t.hour % 10, 16, 4) + Put(t.hour \div 10, 20, 2)

DateReg(t) ==
  Put(t.mday % 10, 0, 4) + Put(t.mday \div 10, 4, 2)
  + Put(t.mon % 10, 8, 4) + Put(t.mon \div 10, 12, 1)
  + Put((t.year - 2000) % 10, 16, 4) + Put((t.year - 2000) \div 10, 20, 4)

(* stm32_rtc_fill_time(): the struct optee_rtc_time decoded from the    *)
(* registers (tm_wday is left out: no difference reads it).              *)
FillTime(tr, dr, ssr) ==
  [hour |-> Field(tr, 20, 2) * 10 + Field(tr, 16, 4) + (IF Field(tr, 22, 1) = 1 THEN 12 ELSE 0),
   min  |-> Field(tr, 12, 3) * 10 + Field(tr, 8, 4),
   sec  |-> Field(tr, 4, 3) * 10 + Field(tr, 0, 4),
   mday |-> Field(dr, 4, 2) * 10 + Field(dr, 0, 4),
   mon  |-> Field(dr, 12, 1) * 10 + Field(dr, 8, 4),
   year |-> Field(dr, 20, 4) * 10 + Field(dr, 16, 4) + 2000,
   subs |-> ssr]

(* The zero-initialised curr_t and ref_t of stm32_rtc_diff_calendar_ms(). *)
ZeroTime == [hour |-> 0, min |-> 0, sec |-> 0, mday |-> 0, mon |-> 0, year |-> 0, subs |-> 0]

-----------------------------------------------------------------------------
(* A 64-bit result: d days plus ms milliseconds plus ws and wt wrapped    *)
(* operands.                                                              *)
Val(d, ms, ws, wt) == [d |-> d, ms |-> ms, ws |-> ws, wt |-> wt]
Plus(a, b) == Val(a.d + b.d, a.ms + b.ms, a.ws + b.ws, a.wt + b.wt)

Scale == PredivS + 1
ScaleLog == CHOOSE k \in 2 .. 15 : 2^k = Scale

(* 2^32 * 1000 / Scale and floor(2^64 / 1000), split into days and ms. *)
WsDays == 2^(32 - ScaleLog) \div 86400
WsMs == (2^(32 - ScaleLog) % 86400) * 1000
WtDays == 213503982
WtMs == 28909551

(* stm32_rtc_get_subsecond(): prediv_s - ss in uint32_t, never below  *)
(* zero since SS counts down from PREDIV_S.                              *)
GetSubsecond(tm) == PredivS - (tm.subs % 2^16)

(* stm32_rtc_diff_subs_tick(cur, ref, 1000): the uint32_t difference    *)
(* times the rate over the scale; below zero it wraps to 2^32 - delta,  *)
(* which is floor(delta * 1000 / scale) plus the ws constant.           *)
DiffSubsTick(c, r) ==
  LET delta == GetSubsecond(c) - GetSubsecond(r)
  IN  Val(0, (delta * MsPerSec) \div Scale, IF delta < 0 THEN 1 ELSE 0, 0)

(* stm32_rtc_diff_time_ms(): the seconds-in-day difference times 1000.  *)
DiffTimeSec(c, r) ==
  (c.sec + (c.min + c.hour * 60) * 60) - (r.sec + (r.min + r.hour * 60) * 60)

(* Added to a signed long long, the wrapped difference is exact. *)
DiffTimeMs(c, r) == Val(0, DiffTimeSec(c, r) * MsPerSec, 0, 0)

(* diff_time_ms * tick_rate / MS_PER_SEC: a wrapped (negative) product  *)
(* divided by 1000 keeps floor(2^64 / 1000).                             *)
DiffTimeTick(c, r) ==
  Val(0, DiffTimeSec(c, r) * MsPerSec, 0, IF DiffTimeSec(c, r) < 0 THEN 1 ELSE 0)

(* current->tm_mon < (ref->tm_mon - 1): with ref->tm_mon = 0 the outcome *)
(* depends on the field's type (struct optee_rtc_time is declared outside *)
(* this tree), so both are taken.                                          *)
MonBelowRef(c, r) ==
  IF r.mon >= 1 THEN {c.mon < r.mon - 1} ELSE {FALSE, TRUE}

(* The sum of month_len[m - 1] over the months of S. *)
MonthDays(S) == MapThenSumSet(LAMBDA m : MonthLen[m], S)

(* stm32_rtc_diff_date_ms(): the day count, given the outcome of the     *)
(* month test above.                                                     *)
DiffDateDays(c, r, below) ==
  LET partial  == IF c.mday >= r.mday THEN c.mday - r.mday
                  ELSE MonthLen[r.mon] - r.mday + c.mday
      ahead    == IF c.mon > r.mon + 1 THEN MonthDays({m \in r.mon + 1 .. c.mon - 1 : m < 12}) ELSE 0
      wrapped  == IF below THEN MonthDays({m \in 1 .. c.mon - 1 : m < 12}) + MonthDays(r.mon + 1 .. 11)
                  ELSE 0
      years    == IF c.year > r.year + 1 THEN (c.year - r.year - 1) * 365 ELSE 0
      days     == partial + ahead + wrapped + years
      leapDays ==
        IF days = 0 THEN 0
        ELSE IF c.year = r.year
          THEN IF IsLeap(c.year) /\ r.mon <= 2 /\ c.mon >= 3 /\ c.mday <= 28 THEN 1 ELSE 0
        ELSE (IF IsLeap(r.year) /\ r.mon <= 2 /\ r.mday <= 28 THEN 1 ELSE 0)
             + (IF IsLeap(c.year) /\ c.mon >= 3 THEN 1 ELSE 0)
             + Cardinality({y \in r.year + 1 .. c.year - 1 : IsLeap(y)})
  IN  days + leapDays

DiffDateMs(c, r, below) == Val(DiffDateDays(c, r, below), 0, 0, 0)

(* if (diff < 0) panic(): the signed value of a result. *)
Negative(v) ==
  v.d + v.ws * WsDays + v.wt * WtDays + (v.ms + v.ws * WsMs + v.wt * WtMs) \div MsPerDay < 0

(* stm32_rtc_diff_calendar_ms(cur, ref): the results it may return.     *)
DiffCalendarMs(c, r) ==
  {Plus(DiffSubsTick(c, r), Plus(DiffTimeMs(ZeroTime, ZeroTime), DiffDateMs(ZeroTime, ZeroTime, b))) :
     b \in MonBelowRef(ZeroTime, ZeroTime)}

(* stm32_rtc_diff_calendar_tick(cur, ref, MS_PER_SEC) *)
DiffCalendarTick(c, r) ==
  {Plus(DiffSubsTick(c, r), Plus(DiffTimeTick(c, r), DiffDateMs(c, r, b))) : b \in MonBelowRef(c, r)}

-----------------------------------------------------------------------------
(* Reference: days from 2000-01-01 and the elapsed time in ms, rounded   *)
(* down like the subsecond division.                                     *)
DayNumber(t) ==
  MapThenSumSet(LAMBDA y : IF IsLeap(y) THEN 366 ELSE 365, 2000 .. t.year - 1)
  + MonthDays(1 .. t.mon - 1) + (IF IsLeap(t.year) /\ t.mon > 2 THEN 1 ELSE 0)
  + t.mday - 1

Elapsed(c, r) ==
  Val(DayNumber(c) - DayNumber(r),
      DiffTimeSec(c, r) * MsPerSec + ((GetSubsecond(c) - GetSubsecond(r)) * MsPerSec) \div Scale,
      0, 0)

(* v equals e modulo 2^64 (all values here are far below 2^63). *)
SameValue(v, e) ==
  LET x  == v.ms - e.ms + v.ws * WsMs + v.wt * WtMs
      dd == v.d - e.d + v.ws * WsDays + v.wt * WtDays
  IN  x % MsPerDay = 0 /\ dd + x \div MsPerDay = 0

-----------------------------------------------------------------------------
ValidDate(y, m, d) ==
  d <= IF m = 2 THEN (IF IsLeap(y) THEN 29 ELSE 28) ELSE MonthLen[m]

(* The times the RTC can hold, as stm32_rtc_fill_time() reads them. *)
Times ==
  {FillTime(TimeReg(t), DateReg(t), t.ssr) :
     t \in {t \in [year : Years, mon : 1 .. 12, mday : MDays, hour : Hours,
                   min : Minutes, sec : Seconds, ssr : SsrValues] :
              ValidDate(t.year, t.mon, t.mday)}}

(* cur is at least one second after ref, so rtc_timecmp(cur, ref) = 1   *)
(* whatever its treatment of the subseconds.                             *)
Later(c, r) ==
  \/ DayNumber(c) > DayNumber(r)
  \/ DayNumber(c) = DayNumber(r) /\ DiffTimeSec(c, r) > 0

Init ==
  /\ cur \in Times
  /\ ref \in Times
  /\ Later(cur, ref)

Spec == Init /\ [][UNCHANGED vars]_vars

-----------------------------------------------------------------------------
(* stm32_rtc.h: both functions "return time diff ... between current and *)
(* reference time" and panic only if cur is older than ref.  Every result *)
(* of stm32_rtc_diff_calendar_ms() and stm32_rtc_diff_calendar_tick()     *)
(* (tick_rate 1000) for a cur later than ref is the elapsed time.         *)
DiffIsElapsed ==
  \A v \in DiffCalendarMs(cur, ref) \cup DiffCalendarTick(cur, ref) :
    ~Negative(v) /\ SameValue(v, Elapsed(cur, ref))

=============================================================================
