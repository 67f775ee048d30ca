---------------------------- MODULE MgrLifecycle -----------------------------
(***************************************************************************)
(* What a client manager promises to the rest of the program, without its  *)
(* timers, events, requests or queues: it opens connections within the     *)
(* user's limits for a while, then only closes them, and when the last one *)
(* is gone it completes; its thread ends once the final counters have been *)
(* reported.  CltMgrLifecycle shows that the manager keeps this promise;   *)
(* App relies on its last part.                                            *)
(***************************************************************************)
EXTENDS Integers, FiniteSets

CONSTANT Conns

VARIABLES
    limits,     \* the configured nconn (at once) and total (> 0, or no limit)
    phase,
    open,       \* the connections that exist
    opened,     \* how many were ever opened
    reported,   \* are the counters last reported the current ones?
    ended       \* has the thread ended?

vars == <<limits, phase, open, opened, reported, ended>>

Init ==
    /\ limits \in [nconn : Nat, total : Int]
    /\ phase = "NONE"
    /\ open = {}
    /\ opened = 0
    /\ reported = FALSE
    /\ ended = FALSE

Begin ==
    /\ phase = "NONE"
    /\ phase' = "RUNNING"
    /\ UNCHANGED <<limits, open, opened, reported, ended>>

\* Connections come and go.
Run ==
    /\ phase = "RUNNING"
    /\ phase' \in {"RUNNING", "WAITING"}
    /\ open' \in SUBSET Conns
    /\ Cardinality(open') <= limits.nconn
    /\ opened' = opened + Cardinality(open' \ open)
    /\ limits.total > 0 /\ opened' > opened => opened' <= limits.total
    /\ reported' \in BOOLEAN
    /\ UNCHANGED <<limits, ended>>

\* The phases after RUNNING, each with the one that follows.
After == [WAITING |-> "CLEANUP", CLEANUP |-> "CLEANUP_WAITING",
          CLEANUP_WAITING |-> "COMPLETED"]

\* Connections only go.
Drain ==
    /\ phase \in DOMAIN After
    /\ phase' \in {phase, After[phase]}
    /\ open' \subseteq open
    /\ phase' = "COMPLETED" => open' = {}
    /\ reported' \in BOOLEAN
    /\ UNCHANGED <<limits, opened, ended>>

\* The final counters are reported; the thread may end with that.
Report ==
    /\ phase = "COMPLETED"
    /\ reported' = TRUE
    /\ ended' \in {ended, TRUE}
    /\ UNCHANGED <<limits, phase, open, opened>>

Next == Begin \/ Run \/ Drain \/ Report

Spec == Init /\ [][Next]_vars
==============================================================================
