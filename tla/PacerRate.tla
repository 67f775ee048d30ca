------------------------------ MODULE PacerRate ------------------------------
(***************************************************************************)
(* The pacer as a state machine of its own: the periodic timer settles     *)
(* intervals, and between two ticks connections ask for permits in any     *)
(* number the pacer allows.  A ledger of what was granted lets the         *)
(* long-run rate be stated.                                                *)
(***************************************************************************)
EXTENDS Pacer

CONSTANTS
    Rates,     \* the configured rates to consider (target_request_rate)
    MaxTicks   \* bound on the intervals a behaviour runs for

ASSUME RatesAssumption ==
    /\ Rates \subseteq Nat \ {0}
    /\ \A r \in Rates : r <= MaxRate
ASSUME MaxTicksAssumption == MaxTicks \in Nat

VARIABLES
    rate,      \* cfg.target_request_rate, fixed when the manager starts
    pacer,     \* request_rate_error, request_count_cur, request_count_target
    ticks,     \* ledger: pacer updates so far
    issued,    \* ledger: permits taken in the intervals already settled
    saturated  \* ledger: did demand use up every settled interval?

vars == <<rate, pacer, ticks, issued, saturated>>

TypeOK ==
    /\ rate \in Rates
    /\ pacer \in PacerType
    /\ ticks \in Nat
    /\ issued \in Nat
    /\ saturated \in BOOLEAN

Init ==
    /\ rate \in Rates
    /\ pacer = PacerZero
    /\ ticks = 0
    /\ issued = 0
    /\ saturated = TRUE

\* The periodic timer settles the interval (clt_mgr_timer_state_running).
Tick ==
    /\ ticks < MaxTicks
    /\ pacer' = PacerUpdate(rate, pacer)
    /\ ticks' = ticks + 1
    /\ issued' = issued + pacer.cur
    /\ saturated' = (saturated /\ pacer.cur >= pacer.target)
    /\ UNCHANGED rate

\* A new connection or a keepalive request takes a permit: the check and
\* the increment of clt_mgr_conn_try_create and of the REQ_DESTROYING branch.
Permit ==
    /\ PacerCheck(rate, pacer)
    /\ pacer' = PacerInc(rate, pacer)
    /\ UNCHANGED <<rate, ticks, issued, saturated>>

\* The bounded behaviours end once the last interval is used up.
Done ==
    /\ ticks = MaxTicks
    /\ ~PacerCheck(rate, pacer)
    /\ UNCHANGED vars

Next == Tick \/ Permit \/ Done

Spec == Init /\ [][Next]_vars

------------------------------------------------------------------------------
\* Over any number of intervals the pacer grants at most the configured rate
\* plus one interval's worth: clamping the error and rounding it through
\* truncating division never lets the long-run rate drift above the target.
RateNeverExceeded ==
    REQRATE_INT * (issued + pacer.cur) <= (ticks + 1) * rate

\* With demand that uses up every interval, a rate of at least one permit per
\* tick is delivered in full: the clamp never throws away a remainder, so the
\* permits granted and on offer keep up with the elapsed time.
RateDelivered ==
    saturated /\ rate >= REQRATE_INT =>
        REQRATE_INT * (issued + pacer.target) >= ticks * rate

\* The error never goes negative and never exceeds one interval's share, so
\* the lower clamp is never used and an idle spell is forgotten after a tick.
ErrorWithinInterval ==
    /\ 0 <= pacer.error
    /\ pacer.error <= IntervalShare(rate)
    /\ pacer.cur <= pacer.target

\* "--target-request-rate=<how many requests/sec, or -1 for no limit>": after
\* a second of ticks a positive rate, at least one request per second, has had
\* at least one permit on offer.
PositiveRateServed ==
    ticks >= REQRATE_INT => issued + pacer.target > 0

\* The inductive invariant behind the three properties above: what the error
\* carries plus what was granted never exceeds what the elapsed intervals are
\* worth, and nothing is lost to the clamp while demand saturates the pacer.
Ledger ==
    /\ ErrorWithinInterval
    /\ pacer.cur >= 0
    /\ ticks = 0 => pacer = PacerZero /\ issued = 0
    /\ ticks > 0 => pacer.target = rate \div REQRATE_INT
                                  + pacer.error \div REQRATE_FIXED_MULT
    /\ pacer.error + REQRATE_FIXED_MULT * issued <= 10 * (ticks * rate)
    /\ saturated /\ rate >= REQRATE_INT =>
           pacer.error + REQRATE_FIXED_MULT * issued = 10 * (ticks * rate)
==============================================================================
