------------------------------ MODULE MCCltMgr -------------------------------
(***************************************************************************)
(* Small instances of the client manager for TLC.                          *)
(***************************************************************************)
EXTENDS CltMgrLifecycle, TLC

\* One configuration; the global request count has no working option and is
\* always "no limit".
Config(nconn, total, reqs, rate, wait, keepalive, period) ==
    [target_nconn |-> nconn, burst_conn |-> 1, target_request_rate |-> rate,
     target_request_count |-> reqs, target_global_request_count |-> -1,
     target_total_nconn_count |-> total, running_period_sec |-> period,
     wait_time_pre_http_req_msec |-> wait, http_keepalive |-> keepalive]

\* Limited and unlimited runs, with and without keepalive, pacing and waits.
MCConfigs ==
    {Config(2, 2, 2, -1, 0, TRUE, 1),
     Config(2, -1, -1, -1, 100, TRUE, 1),
     Config(1, 2, 1, 100, 100, FALSE, -1),
     Config(2, 2, -1, 100, 0, FALSE, 1)}

\* For liveness: two connections at a time, so that a dying one opens its
\* replacement, in a run that its period or the connection total ends and in
\* one that nothing ends; and a paced run of a single connection.
MCLiveConfigs ==
    {Config(2, 3, -1, -1, 0, FALSE, 0),
     Config(2, -1, -1, -1, 0, TRUE, -1),
     Config(1, 1, 2, 100, 0, TRUE, 0)}

\* Connection objects are interchangeable.
MCSymmetry == Permutations(Conns)
==============================================================================
