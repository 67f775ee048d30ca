--------------------------- MODULE CltMgrLifecycle ---------------------------
(***************************************************************************)
(* The client manager implements its abstract specification.               *)
(***************************************************************************)
EXTENDS CltMgr

Lifecycle == INSTANCE MgrLifecycle WITH
    limits <- [nconn |-> cfg.target_nconn, total |-> cfg.target_total_nconn_count],
    phase <- mgr_state,
    open <- Live,
    opened <- stats.conn_count,
    ended <- Terminated

\* However timers, responses, errors and failed creations interleave, the
\* manager does what MgrLifecycle allows: connections are opened in RUNNING and
\* within both limits, nothing is opened afterwards, COMPLETED is reached with
\* none left, and the thread ends with the final counters reported.
ImplementsLifecycle == Lifecycle!Spec
==============================================================================
