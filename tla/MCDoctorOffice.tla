-------------------------- MODULE MCDoctorOffice --------------------------
EXTENDS DoctorOffice, TLC

Ev(k, t, d) == [type |-> k, time |-> t, dur |-> d]

\* arrivals that tie with each other and with 'D' events, so nextevent
\* may return them in either order; quotas of two patients and one sales
\* representative.  A reporter comes at 11:00pm the day before (-600, the
\* time format_time prints only through its min == 60 fix and its roll
\* below hour 0), before the doctor, and is seen first; the others come
\* from the end of that visit on.  The clock
\* is in steps of U minutes, so the printed times run from before 9am past
\* noon and midnight.
U == 215
MCArrivalsTies == << Ev("R", -600, U), Ev("P", U, 2 * U), Ev("R", U, U),
                     Ev("P", 2 * U, U), Ev("S", 3 * U, U), Ev("R", 3 * U, U),
                     Ev("P", 4 * U, U), Ev("R", 6 * U, U) >>
MCQuotaTies == [P |-> 2, S |-> 1]
MCCapTies == [P |-> 2, R |-> 4, S |-> 1]
=============================================================================
