------------------------------- MODULE CltMgr --------------------------------
(***************************************************************************)
(* The client manager of one worker thread (clt/mgr.c) driving its         *)
(* connections (clt/clt.c) from a libevent loop.  Every callback runs to   *)
(* completion, so one callback is one action.  The loop alternates between *)
(* a poll, which puts a batch of fired events on the active queue, and     *)
(* draining that queue, in any order; callbacks may add to it.             *)
(*                                                                         *)
(* The network is the environment: a connection whose bufferevent fires    *)
(* may see part of a response, its end, garbage, an error or a timeout.    *)
(***************************************************************************)
EXTENDS CltConn, Pacer, FiniteSets

CONSTANTS
    Conns,       \* pool of connection objects the allocator hands out
    Configs,     \* the mgr_config records to consider
    Statuses,    \* HTTP statuses the server answers with
    MaxConns,    \* bound: network silent while RUNNING after so many conns,
    MaxReqs,     \*        or so many requests
    MaxFails,    \* bound: failed creations of either kind
    BatchMax     \* bound: events a single poll finds ready

ASSUME ConfigsAssumption ==
    Configs \subseteq
      [target_nconn : Nat, burst_conn : Nat, target_request_rate : Int,
       target_request_count : Int, target_global_request_count : Int,
       target_total_nconn_count : Int, running_period_sec : Int,
       wait_time_pre_http_req_msec : Int, http_keepalive : BOOLEAN]
ASSUME ConnsAssumption ==
    /\ IsFiniteSet(Conns)
    /\ \A g \in Configs : g.target_nconn <= Cardinality(Conns)
ASSUME BoundsAssumption ==
    {MaxConns, MaxReqs, MaxFails} \subseteq Nat /\ BatchMax \in Nat \ {0}

VARIABLES
    cfg,        \* mgr->cfg, fixed when the thread starts
    mgr_state,
    conn,       \* the connection objects
    armed,      \* manager timers pending in the event base
    active,     \* manager timers on the active queue
    stats,
    pacer,      \* the three request-rate pacing fields
    reported,   \* is the last snapshot given to stats_cb the current stats?
    died        \* has the use of freed memory killed the process?

vars == <<cfg, mgr_state, conn, armed, active, stats, pacer, reported, died>>

States == {"NONE", "INIT", "RUNNING", "WAITING", "CLEANUP",
           "CLEANUP_WAITING", "COMPLETED"}

\* t_timerev, t_stat_timerev, t_running_timerev, t_wait_timerev and
\* t_cleanup_timerev.
Timers == {"timer", "stat", "running", "wait", "cleanup"}

StatusTypes == {"200", "302", "other"}

StatsType ==
    [nconn : Int, nconn_create_failed : Nat, conn_count : Nat,
     conn_closing_count : Nat, req_count : Nat, req_count_ok : Nat,
     req_count_err : Nat, req_count_create_err : Nat, req_count_timeout : Nat,
     req_statustype : [StatusTypes -> Nat]]

StatsZero ==
    [nconn |-> 0, nconn_create_failed |-> 0, conn_count |-> 0,
     conn_closing_count |-> 0, req_count |-> 0, req_count_ok |-> 0,
     req_count_err |-> 0, req_count_create_err |-> 0, req_count_timeout |-> 0,
     req_statustype |-> [t \in StatusTypes |-> 0]]

TypeOK ==
    /\ cfg \in Configs
    /\ mgr_state \in States
    /\ conn \in [Conns -> ConnType]
    /\ armed \subseteq Timers
    /\ active \subseteq Timers
    /\ stats \in StatsType
    /\ pacer \in PacerType
    /\ reported \in BOOLEAN
    /\ died \in BOOLEAN

\* mgr_conn_list.
Live == {c \in Conns : conn[c].live}

\* clt_mgr_setup on a zeroed struct clt_mgr.
Init ==
    /\ cfg \in Configs
    /\ mgr_state = "NONE"
    /\ conn = [c \in Conns |-> FreeConn]
    /\ armed = {}
    /\ active = {}
    /\ stats = StatsZero
    /\ pacer = PacerZero
    /\ reported = FALSE
    /\ died = FALSE

------------------------------------------------------------------------------
\* Mutant of ConnCheckCreateHttpRequest: one request too many.
BugOneMoreRequest(k) ==
    /\ ~k.is_dead
    /\ cfg.target_request_count <= 0 => mgr_state = "RUNNING"
    /\ cfg.http_keepalive
    /\ cfg.target_request_count > 0 =>
           k.cur_req_count <= cfg.target_request_count

\* And one that forgets to stop when the run is over.
BugKeepsAsking(k) ==
    /\ ~k.is_dead
    /\ cfg.http_keepalive
    /\ cfg.target_request_count > 0 =>
           k.cur_req_count < cfg.target_request_count

\* clt_mgr_conn_check_create_http_request.
ConnCheckCreateHttpRequest(k) ==
    /\ ~k.is_dead
    /\ cfg.target_request_count <= 0 => mgr_state = "RUNNING"
    /\ cfg.http_keepalive
    /\ cfg.target_request_count > 0 =>
           k.cur_req_count < cfg.target_request_count

\* clt_mgr_check_create_http_request.
CheckCreateHttpRequest ==
    ~(/\ cfg.target_global_request_count > 0
      /\ stats.req_count >= cfg.target_global_request_count)

\* The condition of the CLT_NOTIFY_REQ_DESTROYING branch.
AnotherRequest(k) ==
    /\ ConnCheckCreateHttpRequest(k)
    /\ CheckCreateHttpRequest
    /\ PacerCheck(cfg.target_request_rate, pacer)

\* Mutant of CheckCreateConn: one connection too many.
BugOneMoreConn(s) ==
    /\ mgr_state \in {"RUNNING", "INIT"}
    /\ cfg.target_total_nconn_count > 0 =>
           s.conn_count < cfg.target_total_nconn_count
    /\ s.nconn <= cfg.target_nconn

\* clt_mgr_check_create_conn, on the counters s.
CheckCreateConn(s) ==
    /\ mgr_state \in {"RUNNING", "INIT"}
    /\ cfg.target_total_nconn_count > 0 =>
           s.conn_count < cfg.target_total_nconn_count
    /\ s.nconn < cfg.target_nconn

\* clt_mgr_check_finished, on the counters s.
CheckFinished(s) ==
    \/ /\ cfg.target_global_request_count > 0
       /\ s.req_count >= cfg.target_global_request_count
    \/ /\ cfg.target_total_nconn_count > 0
       /\ s.conn_count >= cfg.target_total_nconn_count

\* Mutant of StatsOpened: the counter of connections runs backwards.
BugConnCountDown(s, n) == [s EXCEPT !.nconn = @ + n, !.conn_count = @ - n]

\* The counters and the pacer after n connections were created.
StatsOpened(s, n) == [s EXCEPT !.nconn = @ + n, !.conn_count = @ + n]
PacerOpened(p, n) == PacerAdd(cfg.target_request_rate, p, n)

\* The checks of clt_mgr_conn_try_create after n creations.
MayCreate(s, p, n) ==
    /\ CheckCreateConn(StatsOpened(s, n))
    /\ PacerCheck(cfg.target_request_rate, PacerOpened(p, n))

\* clt_mgr_conn_try_create called up to n times until it says no, from the
\* counters s and the pacer p: can `new` be the connections it creates?  It
\* stops early because the checks say no or because clt_mgr_conn_create failed.
CreateFailed(n, s, p, new) ==
    Cardinality(new) < n /\ MayCreate(s, p, Cardinality(new))

TryCreate(n, s, p, new) ==
    /\ Cardinality(new) <= n
    /\ \A i \in 0..(Cardinality(new) - 1) : MayCreate(s, p, i)
    /\ CreateFailed(n, s, p, new) => s.nconn_create_failed < MaxFails

\* What these calls leave behind: the connections, out of cs, each with its
\* first request queued; the counters, a failed creation counted.
ConnsCreated(cs, new) ==
    [c \in Conns |-> IF c \in new THEN NewConn(cfg.wait_time_pre_http_req_msec)
                                  ELSE cs[c]]

StatsCreated(n, s, p, new) ==
    [StatsOpened(s, Cardinality(new)) EXCEPT
       !.nconn_create_failed = IF CreateFailed(n, s, p, new) THEN @ + 1 ELSE @]

\* Counters have changed since the last snapshot.
StatsTouched == reported' = (reported /\ stats' = stats)

------------------------------------------------------------------------------
\* clt_mgr_start, called before the thread enters the event loop.
Start ==
    /\ mgr_state = "NONE"
    /\ mgr_state' = "RUNNING"
    /\ armed' = {"timer", "stat"}
                  \cup (IF cfg.running_period_sec < 0 THEN {} ELSE {"running"})
    /\ UNCHANGED <<cfg, conn, active, stats, pacer, reported>>

\* The bounds MaxConns and MaxReqs: connections hear nothing any more until the
\* manager leaves RUNNING.
NetworkSilent ==
    /\ mgr_state = "RUNNING"
    /\ stats.conn_count >= MaxConns \/ stats.req_count >= MaxReqs

\* Every event that may fire: manager timers and connection events.
ArmedEvents ==
    {<<"mgr", t>> : t \in armed} \cup
    {e \in Conns \X ConnEv : e[2] \in conn[e[1]].armed /\ ~NetworkSilent}

QueueEmpty == active = {} /\ \A c \in Conns : conn[c].active = {}

\* The poll finds some events ready and queues them.  A fired timer is no
\* longer pending; the bufferevent's persistent events are.
Poll(batch) ==
    /\ QueueEmpty
    /\ active' = {t \in armed : <<"mgr", t>> \in batch}
    /\ armed' = armed \ active'
    /\ conn' = [c \in Conns |->
                  LET fired == {e \in conn[c].armed : <<c, e>> \in batch}
                  IN  [conn[c] EXCEPT !.active = fired,
                                      !.armed = @ \ (fired \ {"bev"})]]
    /\ UNCHANGED <<cfg, mgr_state, stats, pacer, reported>>

\* The sets of one to BatchMax of the given events.
Batches(S) == {{f[i] : i \in 1..BatchMax} : f \in [1..BatchMax -> S]}

PollSome == \E batch \in Batches(ArmedEvents) : Poll(batch)

\* A poll that finds manager timer t ready.
PollTimer(t) ==
    /\ QueueEmpty
    /\ t \in armed
    /\ \E batch \in Batches(ArmedEvents) : <<"mgr", t>> \in batch /\ Poll(batch)

------------------------------------------------------------------------------
\* Mutants of SetWaiting: the running timer survives; the waiting timer is not
\* armed.
BugRunningTimerLeft(ar, ac) ==
    /\ mgr_state' = "WAITING"
    /\ armed' = ar \cup {"wait"}
    /\ active' = ac \ {"wait", "running"}

BugNoWaitingPeriod(ar, ac) ==
    /\ mgr_state' = "WAITING"
    /\ armed' = ar \ {"running"}
    /\ active' = ac \ {"running"}

\* clt_mgr_state_set_waiting, as what becomes of the timers: the running timer
\* is deleted, even if it has fired.
SetWaiting(ar, ac) ==
    /\ mgr_state' = "WAITING"
    /\ armed' = (ar \cup {"wait"}) \ {"running"}
    /\ active' = ac \ {"wait", "running"}

\* clt_mgr_timer in RUNNING (clt_mgr_timer_state_running): settle the pacer,
\* open connections, see whether the run is over; rearm the periodic timer.
\* The loop's own bound i < target_nconn is the one CheckCreateConn repeats.
TimerRunning ==
    /\ "timer" \in active
    /\ mgr_state = "RUNNING"
    /\ LET n == cfg.burst_conn + 1
           p == IF cfg.target_request_rate > 0
                  THEN PacerUpdate(cfg.target_request_rate, pacer) ELSE pacer
       IN  \E new \in SUBSET (Conns \ Live) :
             /\ TryCreate(n, stats, p, new)
             /\ conn' = ConnsCreated(conn, new)
             /\ stats' = StatsCreated(n, stats, p, new)
             /\ pacer' = PacerOpened(p, Cardinality(new))
    /\ IF CheckFinished(stats')
         THEN SetWaiting(armed \cup {"timer"}, active \ {"timer"})
         ELSE /\ armed' = armed \cup {"timer"}
              /\ active' = active \ {"timer"}
              /\ UNCHANGED mgr_state
    /\ StatsTouched
    /\ UNCHANGED cfg

\* Mutant of TimerWaiting: the waiting timer is left running.
BugWaitingTimerLeft ==
    /\ "timer" \in active
    /\ mgr_state = "WAITING"
    /\ IF stats.nconn = 0
         THEN /\ mgr_state' = "CLEANUP"
              /\ armed' = armed \cup {"timer", "cleanup"}
              /\ active' = active \ {"timer", "cleanup"}
         ELSE /\ armed' = armed \cup {"timer"}
              /\ active' = active \ {"timer"}
              /\ UNCHANGED mgr_state
    /\ UNCHANGED <<cfg, conn, stats, pacer, reported>>

\* clt_mgr_timer in WAITING (clt_mgr_timer_state_waiting): once every
\* connection is gone, skip the rest of the waiting period.
TimerWaiting ==
    /\ "timer" \in active
    /\ mgr_state = "WAITING"
    /\ IF stats.nconn = 0
         THEN /\ mgr_state' = "CLEANUP"
              /\ armed' = (armed \cup {"timer", "cleanup"}) \ {"wait"}
              /\ active' = active \ {"timer", "wait", "cleanup"}
         ELSE /\ armed' = armed \cup {"timer"}
              /\ active' = active \ {"timer"}
              /\ UNCHANGED mgr_state
    /\ UNCHANGED <<cfg, conn, stats, pacer, reported>>

\* clt_mgr_timer in any other state has nothing to do; it rearms itself unless
\* the manager has completed.
TimerIdle ==
    /\ "timer" \in active
    /\ mgr_state \notin {"RUNNING", "WAITING", "CLEANUP_WAITING"}
    /\ armed' = IF mgr_state = "COMPLETED" THEN armed ELSE armed \cup {"timer"}
    /\ active' = active \ {"timer"}
    /\ UNCHANGED <<cfg, mgr_state, conn, stats, pacer, reported>>

\* Mutant of TimerCleanupWaiting: does not wait for the last connection.
BugCompletesEarly ==
    /\ "timer" \in active
    /\ mgr_state = "CLEANUP_WAITING"
    /\ active' = active \ {"timer"}
    /\ mgr_state' = "COMPLETED" /\ armed' = armed \ {"timer"}
    /\ UNCHANGED <<cfg, conn, stats, pacer, reported>>

\* clt_mgr_timer in CLEANUP_WAITING (clt_mgr_timer_state_cleanup_waiting):
\* completed once the last connection is destroyed, and not rearmed then.
TimerCleanupWaiting ==
    /\ "timer" \in active
    /\ mgr_state = "CLEANUP_WAITING"
    /\ active' = active \ {"timer"}
    /\ IF stats.nconn = 0
         THEN mgr_state' = "COMPLETED" /\ armed' = armed \ {"timer"}
         ELSE UNCHANGED mgr_state /\ armed' = armed \cup {"timer"}
    /\ UNCHANGED <<cfg, conn, stats, pacer, reported>>

\* Mutant of StatTimer: stops as soon as cleanup waits for the connections.
BugStatStopsEarly ==
    /\ "stat" \in active
    /\ active' = active \ {"stat"}
    /\ armed' = IF mgr_state \in {"CLEANUP_WAITING", "COMPLETED"}
                  THEN armed ELSE armed \cup {"stat"}
    /\ reported' = TRUE
    /\ UNCHANGED <<cfg, mgr_state, conn, stats, pacer>>

\* clt_mgr_stat_timer: report, and go on until COMPLETED was reported.
StatTimer ==
    /\ "stat" \in active
    /\ active' = active \ {"stat"}
    /\ armed' = IF mgr_state = "COMPLETED" THEN armed ELSE armed \cup {"stat"}
    /\ reported' = TRUE
    /\ UNCHANGED <<cfg, mgr_state, conn, stats, pacer>>

\* clt_mgr_running_timer: no look at the state.
RunningTimer ==
    /\ "running" \in active
    /\ SetWaiting(armed, active)
    /\ UNCHANGED <<cfg, conn, stats, pacer, reported>>

\* clt_mgr_waiting_timer: the waiting period is over.
WaitingTimer ==
    /\ "wait" \in active
    /\ IF mgr_state = "WAITING"
         THEN /\ mgr_state' = "CLEANUP"
              /\ armed' = armed \cup {"cleanup"}
              /\ active' = active \ {"wait", "cleanup"}
         ELSE active' = active \ {"wait"} /\ UNCHANGED <<mgr_state, armed>>
    /\ UNCHANGED <<cfg, conn, stats, pacer, reported>>

\* clt_mgr_cleanup_timer: schedule every connection's destruction.  Queued
\* requests are not cancelled.
CleanupTimer ==
    /\ "cleanup" \in active
    /\ active' = active \ {"cleanup"}
    /\ IF mgr_state = "CLEANUP"
         THEN /\ conn' = [c \in Conns |-> IF conn[c].live
                                            THEN ScheduleDestroy(conn[c])
                                            ELSE conn[c]]
              /\ mgr_state' = "CLEANUP_WAITING"
         ELSE UNCHANGED <<mgr_state, conn>>
    /\ UNCHANGED <<cfg, armed, stats, pacer, reported>>

------------------------------------------------------------------------------
\* clt_mgr_conn_http_req_event: clt_req_create refuses when a request is in
\* progress or the connection is closed, and may fail to allocate.
HttpReqEvent(c) ==
    LET k == [EventFired(conn[c], "http_req") EXCEPT !.pending_http_req = FALSE]
    IN  /\ "http_req" \in conn[c].active
        /\ \/ /\ k.con /\ ~k.req
              /\ conn' = [conn EXCEPT ![c] = [ReqCreate(k) EXCEPT
                                                !.cur_req_count = @ + 1]]
              /\ stats' = [stats EXCEPT !.req_count = @ + 1]
           \/ /\ k.req \/ ~k.con \/ stats.req_count_create_err < MaxFails
              /\ conn' = [conn EXCEPT ![c] = k]
              /\ stats' = [stats EXCEPT !.req_count_create_err = @ + 1]
        /\ StatsTouched
        /\ UNCHANGED <<cfg, mgr_state, armed, active, pacer>>

\* A connection's fini hook has sent CLT_NOTIFY_CONN_CLOSING: k is what is left
\* of connection c, s and p the counters and the pacer so far.  Count it, try
\* to open one replacement; `gone` connections are then freed by the caller.
ConnClosing(c, k, s, p, gone) ==
    LET t == [s EXCEPT !.conn_closing_count = @ + 1]
    IN  \E new \in SUBSET (Conns \ Live) :
          /\ TryCreate(1, t, p, new)
          /\ conn' = ConnsCreated([conn EXCEPT ![c] = k], new)
          /\ stats' = [StatsCreated(1, t, p, new) EXCEPT !.nconn = @ - gone]
          /\ pacer' = PacerOpened(p, Cardinality(new))

\* clt_mgr_conn_destroy_event.  Freeing an open connection runs its fini hook,
\* so a replacement is tried while the dying connection still counts.
DestroyEvent(c) ==
    LET k == MgrConnDestroy(EventFired(conn[c], "destroy"))
    IN  /\ "destroy" \in conn[c].active
        /\ IF conn[c].con
             THEN ConnClosing(c, k, stats, pacer, 1)
             ELSE /\ conn' = [conn EXCEPT ![c] = k]
                  /\ stats' = [stats EXCEPT !.nconn = @ - 1]
                  /\ UNCHANGED pacer
        /\ StatsTouched
        /\ UNCHANGED <<cfg, mgr_state, armed, active>>

\* The same callback, when clt_conn_destroy uses a freed request: undefined
\* behaviour.  Nothing is allocated in between, so the use may go unnoticed
\* (DestroyEvent); or it kills the process within the callback.
UseFreedRequest(c) ==
    /\ "destroy" \in conn[c].active
    /\ ConnDestroy(EventFired(conn[c], "destroy")).undefined
    /\ died' = TRUE
    /\ UNCHANGED <<cfg, mgr_state, conn, armed, active, stats, pacer, reported>>

\* Mutant of ConnTimeout: a timeout is counted as a finished request.
BugTimeoutIsError(c) ==
    /\ "timeout" \in conn[c].active
    /\ conn' = [conn EXCEPT ![c] = NotifyTimeout(EventFired(conn[c], "timeout"))]
    /\ stats' = [stats EXCEPT !.req_count_err = @ + 1]
    /\ StatsTouched
    /\ UNCHANGED <<cfg, mgr_state, armed, active, pacer>>

\* clt_conn_timeout: ev_timeout fired.
ConnTimeout(c) ==
    /\ "timeout" \in conn[c].active
    /\ conn' = [conn EXCEPT ![c] = NotifyTimeout(EventFired(conn[c], "timeout"))]
    /\ stats' = [stats EXCEPT !.req_count_timeout = @ + 1]
    /\ StatsTouched
    /\ UNCHANGED <<cfg, mgr_state, armed, active, pacer>>

\* The connection whose bufferevent callback is about to run.
BevFired(c) == EventFired(conn[c], "bev")

\* Connected, or request bytes written: no hook of the client runs.
BevQuiet(c) ==
    /\ "bev" \in conn[c].active
    /\ conn' = [conn EXCEPT ![c] = BevFired(c)]
    /\ UNCHANGED <<cfg, mgr_state, armed, active, stats, pacer, reported>>

\* Part of a response: clt_upstream_headers_start, _new_chunk, _chunk_done and
\* _chunks_done all rearm the timeout.
ResponseProgress(c) ==
    /\ "bev" \in conn[c].active
    /\ conn[c].con_req
    /\ conn' = [conn EXCEPT ![c] = TimeoutRearm(BevFired(c))]
    /\ UNCHANGED <<cfg, mgr_state, armed, active, stats, pacer, reported>>

\* mgr_statustype_update.
StatusType(status) ==
    CASE status = 200 -> "200" [] status = 302 -> "302" [] OTHER -> "other"

\* The pacer after CLT_NOTIFY_REQ_DESTROYING.
PacerAfter(go) == IF go THEN PacerInc(cfg.target_request_rate, pacer) ELSE pacer

\* The end of a response: clt_req_cb, with CLT_NOTIFY_REQUEST_DONE_OK.
ResponseDone(c, status) ==
    LET k == BevFired(c)
        go == AnotherRequest(k)
    IN  /\ "bev" \in conn[c].active
        /\ k.con_req
        /\ conn' = [conn EXCEPT ![c] =
                      ReqCb(k, go, cfg.wait_time_pre_http_req_msec)]
        /\ stats' = [stats EXCEPT !.req_count_ok = @ + 1,
                                  !.req_statustype[StatusType(status)] = @ + 1]
        /\ pacer' = PacerAfter(go)
        /\ StatsTouched
        /\ UNCHANGED <<cfg, mgr_state, armed, active>>

\* libevhtp frees the connection after its hooks left it as k.
UpstreamClosed(c, k, s) ==
    LET go == k.con_req /\ AnotherRequest(k)
    IN  /\ ConnClosing(c, ConnectionFree(k, TRUE, go,
                                         cfg.wait_time_pre_http_req_msec),
                       s, PacerAfter(go), 0)
        /\ StatsTouched
        /\ UNCHANGED <<cfg, mgr_state, armed, active>>

\* Garbage instead of a response: libevhtp frees the connection with no error
\* hook.
ParserError(c) ==
    /\ "bev" \in conn[c].active
    /\ conn[c].con_req
    /\ UpstreamClosed(c, BevFired(c), stats)

\* The server closed, the socket failed or its five seconds ran out; with a
\* request on the connection clt_upstream_error hears of it first.
SocketError(c, timeout) ==
    /\ "bev" \in conn[c].active
    /\ IF conn[c].con_req
         THEN UpstreamClosed(c, UpstreamError(BevFired(c), timeout),
                IF timeout THEN [stats EXCEPT !.req_count_timeout = @ + 1]
                           ELSE [stats EXCEPT !.req_count_err = @ + 1])
         ELSE UpstreamClosed(c, BevFired(c), stats)

------------------------------------------------------------------------------
\* event_base_loop returns when nothing is pending or active; the thread ends,
\* as it does when the process dies.
Terminated ==
    /\ mgr_state = "COMPLETED"
    /\ QueueEmpty
    /\ armed = {}
    /\ \A c \in Conns : conn[c].armed = {}

ThreadDone == (Terminated \/ died) /\ UNCHANGED vars

TimerEvent ==
    \/ TimerRunning \/ TimerWaiting \/ TimerCleanupWaiting \/ TimerIdle
    \/ StatTimer \/ RunningTimer \/ WaitingTimer \/ CleanupTimer

ConnEvent(c) ==
    \/ HttpReqEvent(c) \/ DestroyEvent(c) \/ ConnTimeout(c)
    \/ BevQuiet(c) \/ ResponseProgress(c)
    \/ \E status \in Statuses : ResponseDone(c, status)
    \/ ParserError(c)
    \/ \E timeout \in BOOLEAN : SocketError(c, timeout)

\* Draining the active queue.
Dispatch == TimerEvent \/ \E c \in Conns : ConnEvent(c)

\* A step of a process that lives on.
Alive == ~died /\ UNCHANGED died

Next ==
    \/ Alive /\ (Start \/ PollSome \/ Dispatch)
    \/ ~died /\ \E c \in Conns : UseFreedRequest(c)
    \/ ThreadDone

Spec == Init /\ [][Next]_vars

------------------------------------------------------------------------------
(* Safety.                                                                 *)

\* The gauge nconn, which decides about new connections and about the end of
\* the run, is the length of mgr_conn_list in every state, and never more than
\* --target-nconn: also when a dying connection opens its own replacement from
\* within its fini hook, before it is taken off the list.
NconnMatchesList ==
    stats.nconn = Cardinality(Live) /\ stats.nconn <= cfg.target_nconn

\* No event outlives its connection (this is about events, not about all of
\* the connection's memory): after _clt_mgr_conn_destroy nothing of the
\* freed connection is pending or queued, although clt_conn_destroy re-enters
\* the manager, which queues ev_conn_destroy again and rearms ev_timeout.
NoDanglingEvents ==
    \A c \in Conns : ~conn[c].live => conn[c].armed = {} /\ conn[c].active = {}

\* Every evhtp request is freed exactly once, whoever gets there first: the
\* client (clt_req_cb), the fini hook, or evhtp_connection_free through
\* con->request; the two pointers to it never disagree between callbacks.  And
\* when the network closes a connection, the fini hooks do not use the request
\* libevhtp has just freed (in _clt_mgr_conn_destroy they do, see below).
RequestFreedOnce ==
    \A c \in Conns : /\ conn[c].reqmem = (IF conn[c].req THEN 1 ELSE 0)
                     /\ conn[c].con_req <=> conn[c].req
                     /\ ~conn[c].undefined

\* "Any pending request on the con is also freed" (clt_upstream_conn_fini): so
\* the process never dies of using it.  But clt_conn_destroy has unset the
\* request's fini hook, which would have cleared r->req.
NoUseOfFreedRequest == ~died

\* A request is queued only on an open connection with no request on it, so
\* the errors "req in progress?" and "conn is NULL" never show: a queued request
\* never races the response, a timeout or the closing of its connection.
OneRequestAtATime ==
    \A c \in Conns : Scheduled(conn[c], "http_req") =>
        conn[c].con /\ ~conn[c].req /\ conn[c].pending_http_req

\* Every live connection will be heard of again: a dead or closed one is queued
\* for destruction, any other has its bufferevent in the event base.  None of
\* them can keep nconn from reaching zero.
ConnHasWaker ==
    \A c \in Conns : conn[c].live =>
        /\ conn[c].is_dead <=> "destroy" \in conn[c].active
        /\ ~conn[c].con => conn[c].is_dead
        /\ conn[c].con => "bev" \in conn[c].armed

\* Limits given by the user: a connection makes one request without keepalive,
\* --target-request-count otherwise, whatever is still queued when it
\* closes; the run opens at most --target-total-nconn-count.
QuotasRespected ==
    /\ cfg.target_total_nconn_count > 0 =>
           stats.conn_count <= cfg.target_total_nconn_count
    /\ \A c \in Conns :
         /\ ~cfg.http_keepalive => conn[c].cur_req_count <= 1
         /\ cfg.target_request_count > 0 =>
              conn[c].cur_req_count <= cfg.target_request_count

InFlight == {c \in Conns : conn[c].req}

\* No request is counted twice as done: finished and unfinished requests
\* together are never more than were issued, and each OK has one status type.
\* Its two five-second timers may both be counted for one request, no more.
RequestsAccounted ==
    /\ stats.req_count_ok + stats.req_count_err + Cardinality(InFlight)
         <= stats.req_count
    /\ stats.req_count_ok = stats.req_statustype["200"]
         + stats.req_statustype["302"] + stats.req_statustype["other"]
    /\ stats.req_count_ok + stats.req_count_err + stats.req_count_timeout
         <= 2 * stats.req_count

\* Each phase has exactly its own timer and the periodic timer never stops
\* before COMPLETED: no "unexpected state?" branch is taken, a late running
\* timer cannot drag the manager back to WAITING, and no phase is left waiting
\* for a timer nobody armed.
PhaseTimers ==
    LET set == armed \cup active
    IN  /\ "running" \in set <=>
             mgr_state = "RUNNING" /\ cfg.running_period_sec >= 0
        /\ "wait" \in set <=> mgr_state = "WAITING"
        /\ "cleanup" \in set <=> mgr_state = "CLEANUP"
        /\ "timer" \in set <=> mgr_state \notin {"NONE", "COMPLETED"}
        /\ mgr_state \notin {"NONE", "COMPLETED"} => "stat" \in set
        /\ armed \cap active = {}

\* A completed manager has no connection left, and when the loop then runs out
\* of events the last snapshot given to stats_cb is the final one.
CleanExit ==
    /\ mgr_state = "COMPLETED" => Live = {}
    /\ Terminated => reported

\* Every connection is in good order between two callbacks.
ConnsOK == \A c \in Conns : ConnOK(conn[c])

------------------------------------------------------------------------------
(* Action properties.                                                      *)

Phase == [NONE |-> 0, INIT |-> 1, RUNNING |-> 2, WAITING |-> 3, CLEANUP |-> 4,
          CLEANUP_WAITING |-> 5, COMPLETED |-> 6]

\* The phases are gone through in order, connections are opened only in
\* RUNNING, and once forced cleanup has begun nothing is left for another
\* chance: every live connection is dead.
LifecycleForward ==
    [][/\ Phase[mgr_state'] >= Phase[mgr_state]
       /\ mgr_state # "RUNNING" => Live' \subseteq Live
       /\ mgr_state = "CLEANUP_WAITING" => \A c \in Live : conn[c].is_dead]_vars

\* "oh, can't do any more new requests" (clt/TODO): once RUNNING is over, a
\* connection without a request limit of its own is given no further request,
\* by whichever callback; only what was queued already is still sent.
QuietAfterRunning ==
    [][mgr_state # "RUNNING" /\ cfg.target_request_count <= 0 =>
         \A c \in Conns : conn'[c].pending_http_req => conn[c].pending_http_req]_vars

\* The use of a freed request is confined to clt_conn_destroy with the request
\* still in flight.  However a request ended before, by its response or by the
\* end of its connection, destroying the connection afterwards is clean.
DiesOnlyInFlight ==
    [][died' = died \/ \E c \in Conns : conn[c].is_dead /\ conn[c].con_req]_vars

\* "How many to try and open every 10ms" (burst_conn): a run of the periodic
\* timer opens at most that many connections.
BurstRespected ==
    [][ "timer" \in active /\ "timer" \notin active' =>
          stats'.conn_count - stats.conn_count <= cfg.burst_conn ]_vars

------------------------------------------------------------------------------
(* Liveness.                                                               *)

\* The loop always runs a queued callback (Dispatch), and a manager timer, once
\* pending, is found ready by some poll: its deadline passes and polls go on.
\* Connections owe nothing: the network may stay silent for ever.
Fairness ==
    /\ WF_vars(Alive /\ Start)
    /\ WF_vars(Alive /\ Dispatch)
    /\ \A t \in Timers : SF_vars(Alive /\ PollTimer(t))

FairSpec == Spec /\ Fairness

\* A connection marked dead is freed, on whichever path clt_mgr_conn_destroy was
\* called and whatever else the loop has queued: nothing withdraws the destroy
\* event, and a dying connection that opens another, or fails to, does not delay
\* it for ever.  Only the death of the process comes before it.
DeadIsReaped == \A c \in Conns : conn[c].is_dead ~> ~conn[c].live \/ died

\* With a running period the thread ends, however the network behaves and
\* whatever creations fail: through RUNNING, WAITING, CLEANUP and
\* CLEANUP_WAITING to an event loop with no events left, unless the process dies.
RunEnds == cfg.running_period_sec >= 0 ~> Terminated \/ died
==============================================================================
