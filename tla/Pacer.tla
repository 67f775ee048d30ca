-------------------------------- MODULE Pacer --------------------------------
(***************************************************************************)
(* The request-rate pacer of the client manager (clt/mgr.c): every tick of *)
(* the 10 ms periodic timer grants a number of request permits for the     *)
(* next interval, carrying the rounding error over in fixed point.  The    *)
(* operators take the configured rate (requests per second, negative for   *)
(* "no limit") and the three pacer fields of struct clt_mgr as a record.   *)
(***************************************************************************)
EXTENDS Integers

REQRATE_INT == 100            \* periodic ticks per second
REQRATE_FIXED_MULT == 1000    \* fixed-point scale of request_rate_error

\* The largest rate for which rate * REQRATE_FIXED_MULT fits a 32-bit int;
\* beyond it the C expression overflows, which is undefined behaviour.
MaxRate == 2147483647 \div REQRATE_FIXED_MULT

PacerType == [error : Int, cur : Int, target : Int]

PacerZero == [error |-> 0, cur |-> 0, target |-> 0]

\* C integer division: truncates towards zero (\div rounds down).
CDiv(a, b) == IF a >= 0 THEN a \div b ELSE -((-a) \div b)

\* What one interval is worth at this rate, in fixed point.
IntervalShare(rate) == CDiv(rate * REQRATE_FIXED_MULT, REQRATE_INT)

\* Mutant of Clamp: the error is not clamped at all.
BugNoClamp(err, t) == err

\* Clamp the error to one interval's share either way.
Clamp(err, t) == IF err > t THEN t ELSE IF err < -t THEN -t ELSE err

\* Mutants of PacerUpdate: the permits used are not charged to the error; the
\* error is carried but not paid out.
BugUncharged(rate, p) ==
    LET t == IntervalShare(rate)
        err == Clamp(p.error + t, t)
    IN  [error |-> err,
         cur |-> 0,
         target |-> CDiv(rate, REQRATE_INT) + CDiv(err, REQRATE_FIXED_MULT)]

BugErrorDropped(rate, p) ==
    LET t == IntervalShare(rate)
        err == Clamp(p.error - p.cur * REQRATE_FIXED_MULT + t, t)
    IN  [error |-> err, cur |-> 0, target |-> CDiv(rate, REQRATE_INT)]

\* clt_mgr_reqrate_pacer_update: settle the interval that ended, set the
\* permits of the next one.
PacerUpdate(rate, p) ==
    LET t == IntervalShare(rate)
        err == Clamp(p.error - p.cur * REQRATE_FIXED_MULT + t, t)
    IN  [error |-> err,
         cur |-> 0,
         target |-> CDiv(rate, REQRATE_INT) + CDiv(err, REQRATE_FIXED_MULT)]

\* clt_mgr_reqrate_pacer_check: may another request be issued?
PacerCheck(rate, p) == rate < 0 \/ p.cur < p.target

\* Mutant of PacerAdd: counts down.
BugCountDown(rate, p, n) == IF rate < 0 THEN p ELSE [p EXCEPT !.cur = @ - n]

\* clt_mgr_reqrate_pacer_inc, applied n times.
PacerAdd(rate, p, n) == IF rate < 0 THEN p ELSE [p EXCEPT !.cur = @ + n]

PacerInc(rate, p) == PacerAdd(rate, p, 1)
==============================================================================
