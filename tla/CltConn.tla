------------------------------- MODULE CltConn -------------------------------
(***************************************************************************)
(* One client connection: struct clt_mgr_conn (clt/mgr.c) with the         *)
(* client_req it owns (clt/clt.c) and the libevent/libevhtp objects below. *)
(* Every operator takes the connection as a record k and returns what the  *)
(* function of that name leaves behind; the manager's counters are updated *)
(* by the actions of CltMgr.  `go` is the manager's answer to "may this    *)
(* connection issue another request?" at the moment it is asked.           *)
(***************************************************************************)
EXTENDS Integers

\* The events a connection owns: ev_new_http_req, ev_conn_destroy, ev_timeout
\* and the bufferevent of the evhtp connection.
ConnEv == {"http_req", "destroy", "timeout", "bev"}

ConnType ==
    [live : BOOLEAN,              \* allocated and on mgr_conn_list
     con : BOOLEAN,               \* req->con # NULL
     req : BOOLEAN,               \* req->req # NULL
     con_req : BOOLEAN,           \* req->con->request # NULL
     reqmem : Int,                \* evhtp requests allocated minus freed
     is_dead : BOOLEAN,
     pending_http_req : BOOLEAN,
     cur_req_count : Nat,
     armed : SUBSET ConnEv,       \* pending in the event base
     active : SUBSET ConnEv,      \* on the event base's active queue
     undefined : BOOLEAN]         \* has a freed evhtp request been used?

\* A slot of the connection pool that holds no connection.
FreeConn ==
    [live |-> FALSE, con |-> FALSE, req |-> FALSE, con_req |-> FALSE,
     reqmem |-> 0, is_dead |-> FALSE, pending_http_req |-> FALSE,
     cur_req_count |-> 0, armed |-> {}, active |-> {}, undefined |-> FALSE]

------------------------------------------------------------------------------
\* libevent: event_add with a timeout takes a fired timer off the active queue.
EventAdd(k, e) == [k EXCEPT !.armed = @ \cup {e}, !.active = @ \ {e}]

\* libevent: event_active queues the callback.
EventActive(k, e) == [k EXCEPT !.active = @ \cup {e}]

\* libevent: event_del (and so event_free) takes it off both.
EventDel(k, e) == [k EXCEPT !.armed = @ \ {e}, !.active = @ \ {e}]

\* libevent, before a callback runs: off the active queue.  Only the
\* bufferevent's events are persistent and stay armed.
EventFired(k, e) == [k EXCEPT !.active = @ \ {e}]

\* libevhtp: evhtp_request_free.
RequestFree(k) == [k EXCEPT !.reqmem = @ - 1]

------------------------------------------------------------------------------
\* clt_mgr_conn_start_http_req: queue the next request, now or after the wait.
StartHttpReq(k, msec) ==
    LET p == [k EXCEPT !.pending_http_req = TRUE]
    IN  IF msec <= 0 THEN EventActive(p, "http_req") ELSE EventAdd(p, "http_req")

\* clt_mgr_conn_cancel_http_req: pending_http_req is left as it is.
CancelHttpReq(k) == IF k.pending_http_req THEN EventDel(k, "http_req") ELSE k

\* Mutant of ScheduleDestroy: marked dead, but the event is not activated.
BugDeadNotQueued(k) == [k EXCEPT !.is_dead = TRUE]

\* clt_mgr_conn_destroy: the real work is deferred to the destroy event.
ScheduleDestroy(k) == EventActive([k EXCEPT !.is_dead = TRUE], "destroy")

\* clt_mgr_conn_create and clt_conn_create, followed by the request that
\* clt_mgr_conn_try_create kick-starts.  ev_timeout is created, not armed.
NewConn(msec) ==
    StartHttpReq([FreeConn EXCEPT !.live = TRUE, !.con = TRUE,
                                  !.armed = {"bev"}], msec)

\* clt_mgr_conn_notify_cb, CLT_NOTIFY_REQUEST_TIMEOUT.
NotifyTimeout(k) == ScheduleDestroy(CancelHttpReq(k))

\* clt_mgr_conn_notify_cb, CLT_NOTIFY_REQ_DESTROYING.
NotifyReqDestroying(k, go, msec) ==
    IF go THEN StartHttpReq(k, msec) ELSE ScheduleDestroy(k)

\* Mutants of NotifyConnClosing: the queued request is not cancelled; the
\* connection is marked dead but its destruction not scheduled.
BugNotCancelled(k) == ScheduleDestroy(k)
BugClosedNotQueued(k) == [CancelHttpReq(k) EXCEPT !.is_dead = TRUE]

\* clt_mgr_conn_notify_cb, CLT_NOTIFY_CONN_CLOSING (up to the replacement
\* connection, which CltMgr creates).
NotifyConnClosing(k) == ScheduleDestroy(CancelHttpReq(k))

------------------------------------------------------------------------------
\* clt_conn_timeout_rearm and clt_conn_timeout_stop.
TimeoutRearm(k) == EventAdd(k, "timeout")
TimeoutStop(k) == EventDel(k, "timeout")

\* clt_req_create once it succeeds; evhtp_make_request hangs the request on
\* the connection.
ReqCreate(k) ==
    [k EXCEPT !.req = TRUE, !.con_req = TRUE, !.reqmem = @ + 1]

\* Mutant of ReqDestroy: req->req keeps pointing to the freed request.
BugReqKept(k, go, msec) ==
    LET n == NotifyReqDestroying(k, go, msec)
    IN  IF n.req THEN RequestFree(n) ELSE n

\* clt_req_destroy: tell the manager first, then free what is left.
ReqDestroy(k, go, msec) ==
    LET n == NotifyReqDestroying(k, go, msec)
    IN  IF n.req THEN [RequestFree(n) EXCEPT !.req = FALSE] ELSE n

\* Mutant of ReqCb: con->request keeps pointing to the freed request.
BugStaleConRequest(k, go, msec) == ReqDestroy(TimeoutStop(k), go, msec)

\* clt_req_cb: the response is complete.
ReqCb(k, go, msec) ==
    ReqDestroy([TimeoutStop(k) EXCEPT !.con_req = FALSE], go, msec)

\* clt_upstream_fini: libevhtp is freeing the request under us.
UpstreamFini(k, go, msec) ==
    ReqDestroy([TimeoutStop(k) EXCEPT !.req = FALSE], go, msec)

\* clt_upstream_conn_fini: libevhtp is freeing the connection under us.  The
\* hooks of r->req, if it is still set, are unset first: this uses the request.
UpstreamConnFini(k) ==
    NotifyConnClosing(TimeoutRearm(
        [k EXCEPT !.undefined = @ \/ (k.req /\ k.reqmem <= 0),
                  !.con = FALSE, !.req = FALSE]))

\* clt_upstream_error: on a socket error or a bufferevent timeout.
UpstreamError(k, timeout) ==
    TimeoutStop(IF timeout THEN NotifyTimeout(k) ELSE k)

\* libevhtp: evhtp_connection_free.  Free the connection's request (the fini
\* hook first, if it is still set), run the connection's fini hook, free the
\* bufferevent.
ConnectionFree(k, hooked, go, msec) ==
    LET f == IF k.con_req /\ hooked THEN UpstreamFini(k, go, msec) ELSE k
        r == IF k.con_req THEN [RequestFree(f) EXCEPT !.con_req = FALSE] ELSE f
    IN  EventDel(UpstreamConnFini(r), "bev")

\* Mutant of ConnDestroy: ev_timeout, rearmed by the fini hook, is not deleted.
BugTimeoutLeft(k) ==
    LET r == IF k.req /\ ~(k.con /\ k.con_req) THEN RequestFree(k) ELSE k
    IN  IF k.con THEN ConnectionFree(r, ~k.req, FALSE, 0) ELSE r

\* clt_conn_destroy: unset the request's hooks, free a request the connection
\* does not know of, then the connection (with its request), then ev_timeout.
ConnDestroy(k) ==
    LET r == IF k.req /\ ~(k.con /\ k.con_req) THEN RequestFree(k) ELSE k
        f == IF k.con THEN ConnectionFree(r, ~k.req, FALSE, 0) ELSE r
    IN  EventDel(f, "timeout")

\* _clt_mgr_conn_destroy: delete the events, destroy the client, free the
\* events (its fini hook has queued the destroy event again), free the rest.
\* Events and requests that survive this stay visible in the freed slot.  A
\* freed request that was used does not: CltMgr's UseFreedRequest is about it.
MgrConnDestroy(k) ==
    LET d == ConnDestroy(EventDel(EventDel(k, "http_req"), "destroy"))
        f == EventDel(EventDel(d, "http_req"), "destroy")
    IN  [FreeConn EXCEPT !.reqmem = f.reqmem,
                         !.armed = f.armed, !.active = f.active]

------------------------------------------------------------------------------
\* e is pending or queued.
Scheduled(k, e) == e \in k.armed \cup k.active

\* The invariant of a connection between two callbacks: one request at most,
\* known to both owners, freed once and not used any more then; a queued
\* request has an idle, open connection to go to; dead means queued for destruction, which a closed
\* connection is; an open one has its bufferevent; a freed one has no events.
ConnOK(k) ==
    /\ k.reqmem = (IF k.req THEN 1 ELSE 0)
    /\ k.con_req <=> k.req
    /\ k.req => k.con
    /\ ~k.undefined
    /\ Scheduled(k, "http_req") => k.con /\ ~k.req /\ k.pending_http_req
    /\ ~("http_req" \in k.armed /\ "http_req" \in k.active)
    /\ "destroy" \notin k.armed
    /\ k.is_dead <=> "destroy" \in k.active
    /\ k.live /\ ~k.con => k.is_dead
    /\ k.con => k.live /\ "bev" \in k.armed
    /\ Scheduled(k, "bev") => k.con
    /\ ~k.live => k.armed = {} /\ k.active = {}
==============================================================================
