---------------------------- MODULE FormatTime ----------------------------
(***************************************************************************)
(* format_time of session.c (Assignment 6): minutes relative to 9:00am to *)
(* a 12-hour clock reading "hh:mm" with "am" or "pm".  C's / and % on the *)
(* non-negative operands the code uses agree with \div and %.  The         *)
(* operator is checked against the wall clock on the times DoctorOffice    *)
(* prints.                                                                 *)
(***************************************************************************)
EXTENDS Integers

\* mutant: the negative branch without the borrow (no hr--, no min==60 fix)
Clock24NoBorrow(minutes) ==
  IF minutes >= 0
  THEN [hr |-> (9 + minutes \div 60) % 24, min |-> minutes % 60]
  ELSE LET min0 == 60 - ((-minutes) % 60)
           hr0 == 9 - ((-minutes) \div 60)
           n == (-hr0 + 24 - 1) \div 24
       IN [hr |-> IF hr0 < 0 THEN (hr0 + 24 * n) % 24 ELSE hr0, min |-> min0]

\* the hour (0..23) and minute branches of format_time
Clock24(minutes) ==
  IF minutes >= 0
  THEN [hr |-> (9 + minutes \div 60) % 24, min |-> minutes % 60]
  ELSE LET min0 == 60 - ((-minutes) % 60)
           hr0 == (9 - ((-minutes) \div 60)) - 1
           min1 == IF min0 = 60 THEN 0 ELSE min0
           hr1 == IF min0 = 60 THEN hr0 + 1 ELSE hr0
           n == (-hr1 + 24 - 1) \div 24
       IN [hr |-> IF hr1 < 0 THEN (hr1 + 24 * n) % 24 ELSE hr1, min |-> min1]

\* the period, hr -= 12 for pm, and hr == 0 printed as 12
FormatTime(minutes) ==
  LET c == Clock24(minutes)
      pm == c.hr >= 12
      h == IF pm THEN c.hr - 12 ELSE c.hr
  IN [hh |-> IF h = 0 THEN 12 ELSE h, mm |-> c.min, period |-> IF pm THEN "pm" ELSE "am"]

\* reference: the time of day 9:00 + minutes on a 12-hour clock
WallClock(minutes) ==
  LET t == (9 * 60 + minutes) % (24 * 60)
      h == t \div 60
  IN [hh |-> IF h % 12 = 0 THEN 12 ELSE h % 12, mm |-> t % 60,
      period |-> IF h >= 12 THEN "pm" ELSE "am"]

=============================================================================
