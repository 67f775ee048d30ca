---------------------------- MODULE CltConnProofs ----------------------------
(***************************************************************************)
(* What the callbacks do to one connection: each keeps ConnOK, whichever   *)
(* state they find the connection in.                                      *)
(***************************************************************************)
EXTENDS CltConn, TLAPS

\* j and k are the same but for their events.
SameOwner(j, k) ==
    /\ j.live = k.live
    /\ j.con = k.con
    /\ j.req = k.req
    /\ j.con_req = k.con_req
    /\ j.reqmem = k.reqmem
    /\ j.is_dead = k.is_dead
    /\ j.pending_http_req = k.pending_http_req
    /\ j.cur_req_count = k.cur_req_count
    /\ j.undefined = k.undefined

\* libevent's operations change the two event sets only.
LEMMA EventAddFacts ==
    ASSUME NEW k \in ConnType, NEW e \in ConnEv
    PROVE  /\ EventAdd(k, e) \in ConnType
           /\ SameOwner(EventAdd(k, e), k)
           /\ EventAdd(k, e).armed = k.armed \cup {e}
           /\ EventAdd(k, e).active = k.active \ {e}
  BY DEF EventAdd, ConnType, SameOwner

\* event_active.
LEMMA EventActiveFacts ==
    ASSUME NEW k \in ConnType, NEW e \in ConnEv
    PROVE  /\ EventActive(k, e) \in ConnType
           /\ SameOwner(EventActive(k, e), k)
           /\ EventActive(k, e).armed = k.armed
           /\ EventActive(k, e).active = k.active \cup {e}
  BY DEF EventActive, ConnType, SameOwner

\* event_del.
LEMMA EventDelFacts ==
    ASSUME NEW k \in ConnType, NEW e \in ConnEv
    PROVE  /\ EventDel(k, e) \in ConnType
           /\ SameOwner(EventDel(k, e), k)
           /\ EventDel(k, e).armed = k.armed \ {e}
           /\ EventDel(k, e).active = k.active \ {e}
  BY DEF EventDel, ConnType, SameOwner

\* A callback is about to run.
LEMMA EventFiredFacts ==
    ASSUME NEW k \in ConnType, NEW e \in ConnEv
    PROVE  /\ EventFired(k, e) \in ConnType
           /\ SameOwner(EventFired(k, e), k)
           /\ EventFired(k, e).armed = k.armed
           /\ EventFired(k, e).active = k.active \ {e}
  BY DEF EventFired, ConnType, SameOwner

\* Only the mark "a request is queued" and the events may differ.
SameRequest(j, k) ==
    /\ j.live = k.live
    /\ j.con = k.con
    /\ j.req = k.req
    /\ j.con_req = k.con_req
    /\ j.reqmem = k.reqmem
    /\ j.cur_req_count = k.cur_req_count
    /\ j.undefined = k.undefined

\* clt_mgr_conn_start_http_req queues the request, now or later.
LEMMA StartHttpReqFacts ==
    ASSUME NEW k \in ConnType, NEW msec \in Int
    PROVE  LET j == StartHttpReq(k, msec)
           IN  /\ j \in ConnType
               /\ SameRequest(j, k)
               /\ j.is_dead = k.is_dead
               /\ j.pending_http_req
               /\ j.armed \ {"http_req"} = k.armed \ {"http_req"}
               /\ j.active \ {"http_req"} = k.active \ {"http_req"}
               /\ ~Scheduled(k, "http_req") =>
                    ~("http_req" \in j.armed /\ "http_req" \in j.active)
  <1> DEFINE p == [k EXCEPT !.pending_http_req = TRUE]
  <1>1. /\ p \in ConnType /\ p.armed = k.armed /\ p.active = k.active
        /\ p.pending_http_req /\ SameRequest(p, k) /\ p.is_dead = k.is_dead
    BY DEF ConnType, SameRequest
  <1>2. "http_req" \in ConnEv
    BY DEF ConnEv
  <1>3. StartHttpReq(k, msec) = IF msec <= 0 THEN EventActive(p, "http_req")
                                             ELSE EventAdd(p, "http_req")
    BY DEF StartHttpReq
  <1> HIDE DEF p
  <1>4. CASE msec <= 0
    <2>1. StartHttpReq(k, msec) = EventActive(p, "http_req")
      BY <1>3, <1>4
    <2>2. /\ EventActive(p, "http_req") \in ConnType
          /\ SameOwner(EventActive(p, "http_req"), p)
          /\ EventActive(p, "http_req").armed = p.armed
          /\ EventActive(p, "http_req").active = p.active \cup {"http_req"}
      BY <1>1, <1>2, EventActiveFacts
    <2> QED
      BY <2>1, <2>2, <1>1 DEF SameOwner, SameRequest, Scheduled
  <1>5. CASE ~(msec <= 0)
    <2>1. StartHttpReq(k, msec) = EventAdd(p, "http_req")
      BY <1>3, <1>5
    <2>2. /\ EventAdd(p, "http_req") \in ConnType
          /\ SameOwner(EventAdd(p, "http_req"), p)
          /\ EventAdd(p, "http_req").armed = p.armed \cup {"http_req"}
          /\ EventAdd(p, "http_req").active = p.active \ {"http_req"}
      BY <1>1, <1>2, EventAddFacts
    <2> QED
      BY <2>1, <2>2, <1>1 DEF SameOwner, SameRequest, Scheduled
  <1> QED
    BY <1>4, <1>5

\* clt_mgr_conn_cancel_http_req takes a queued request off both queues.
LEMMA CancelFacts ==
    ASSUME NEW k \in ConnType
    PROVE  LET j == CancelHttpReq(k)
           IN  /\ j \in ConnType
               /\ SameOwner(j, k)
               /\ k.pending_http_req => ~Scheduled(j, "http_req")
               /\ j.armed \subseteq k.armed
               /\ j.active \subseteq k.active
               /\ j.armed \ {"http_req"} = k.armed \ {"http_req"}
               /\ j.active \ {"http_req"} = k.active \ {"http_req"}
  <1>1. "http_req" \in ConnEv
    BY DEF ConnEv
  <1>2. CASE k.pending_http_req
    BY <1>1, <1>2, EventDelFacts DEF CancelHttpReq, Scheduled
  <1>3. CASE ~k.pending_http_req
    BY <1>3 DEF CancelHttpReq, SameOwner
  <1> QED
    BY <1>2, <1>3

\* clt_mgr_conn_destroy marks the connection and queues its destruction.
LEMMA ScheduleDestroyFacts ==
    ASSUME NEW k \in ConnType
    PROVE  LET j == ScheduleDestroy(k)
           IN  /\ j \in ConnType
               /\ SameRequest(j, k)
               /\ j.pending_http_req = k.pending_http_req
               /\ j.is_dead
               /\ j.armed = k.armed
               /\ j.active = k.active \cup {"destroy"}
  <1> DEFINE d == [k EXCEPT !.is_dead = TRUE]
  <1>1. /\ d \in ConnType /\ SameRequest(d, k) /\ d.is_dead
        /\ d.pending_http_req = k.pending_http_req
        /\ d.armed = k.armed /\ d.active = k.active
    BY DEF ConnType, SameRequest
  <1>2. "destroy" \in ConnEv /\ ScheduleDestroy(k) = EventActive(d, "destroy")
    BY DEF ConnEv, ScheduleDestroy
  <1> HIDE DEF d
  <1>3. /\ EventActive(d, "destroy") \in ConnType
        /\ SameOwner(EventActive(d, "destroy"), d)
        /\ EventActive(d, "destroy").armed = d.armed
        /\ EventActive(d, "destroy").active = d.active \cup {"destroy"}
    BY <1>1, <1>2, EventActiveFacts
  <1> QED
    BY <1>1, <1>2, <1>3 DEF SameOwner, SameRequest

\* CLT_NOTIFY_REQUEST_TIMEOUT and CLT_NOTIFY_CONN_CLOSING.
LEMMA NotifyClosingFacts ==
    ASSUME NEW k \in ConnType
    PROVE  LET j == NotifyConnClosing(k)
           IN  /\ j \in ConnType
               /\ SameRequest(j, k)
               /\ j.is_dead
               /\ k.pending_http_req => ~Scheduled(j, "http_req")
               /\ j.pending_http_req = k.pending_http_req
               /\ j.armed \subseteq k.armed
               /\ j.active \subseteq k.active \cup {"destroy"}
               /\ j.armed \ {"http_req"} = k.armed \ {"http_req"}
               /\ j.active \ {"http_req"} = (k.active \cup {"destroy"}) \ {"http_req"}
               /\ NotifyTimeout(k) = j
  BY CancelFacts, ScheduleDestroyFacts
     DEF NotifyConnClosing, NotifyTimeout, SameOwner, SameRequest, Scheduled

\* The two answers to CLT_NOTIFY_REQ_DESTROYING.
LEMMA ReqDestroyingFacts ==
    ASSUME NEW k \in ConnType, NEW go \in BOOLEAN, NEW msec \in Int
    PROVE  LET j == NotifyReqDestroying(k, go, msec)
           IN  /\ j \in ConnType
               /\ SameRequest(j, k)
               /\ j.armed \ {"http_req"} = k.armed \ {"http_req"}
               /\ go => /\ j.pending_http_req
                        /\ j.is_dead = k.is_dead
                        /\ j.active \ {"http_req"} = k.active \ {"http_req"}
                        /\ ~Scheduled(k, "http_req") =>
                             ~("http_req" \in j.armed /\ "http_req" \in j.active)
               /\ ~go => /\ j.is_dead
                         /\ j.pending_http_req = k.pending_http_req
                         /\ j.armed = k.armed
                         /\ j.active = k.active \cup {"destroy"}
  <1>1. CASE go
    BY <1>1, StartHttpReqFacts DEF NotifyReqDestroying
  <1>2. CASE ~go
    BY <1>2, ScheduleDestroyFacts DEF NotifyReqDestroying
  <1> QED
    BY <1>1, <1>2

\* What clt_upstream_conn_fini and evhtp_connection_free's last steps leave.  A
\* freed request is used only if the client still knows of one.
LEMMA ConnFiniFacts ==
    ASSUME NEW k \in ConnType
    PROVE  LET j == EventDel(UpstreamConnFini(k), "bev")
           IN  /\ j \in ConnType
               /\ ~j.con /\ ~j.req /\ j.is_dead
               /\ j.live = k.live
               /\ j.con_req = k.con_req
               /\ j.reqmem = k.reqmem
               /\ ~k.req => j.undefined = k.undefined
               /\ j.cur_req_count = k.cur_req_count
               /\ j.pending_http_req = k.pending_http_req
               /\ k.pending_http_req => ~Scheduled(j, "http_req")
               /\ j.armed \subseteq (k.armed \cup {"timeout"}) \ {"bev"}
               /\ j.active \subseteq (k.active \cup {"destroy"}) \ {"bev", "timeout"}
               /\ "destroy" \in j.active
  <1> DEFINE u == [k EXCEPT !.undefined = @ \/ (k.req /\ k.reqmem <= 0)]
             a == [u EXCEPT !.con = FALSE, !.req = FALSE]
             b == TimeoutRearm(a)
             d == NotifyConnClosing(b)
  <1>0. "timeout" \in ConnEv /\ "bev" \in ConnEv
    BY DEF ConnEv
  <1>1. /\ a \in ConnType /\ ~a.con /\ ~a.req /\ a.live = k.live
        /\ a.con_req = k.con_req /\ a.reqmem = k.reqmem
        /\ ~k.req => a.undefined = k.undefined
        /\ a.cur_req_count = k.cur_req_count
        /\ a.pending_http_req = k.pending_http_req
        /\ a.armed = k.armed /\ a.active = k.active
    <2> DEFINE v == k.undefined \/ (k.req /\ k.reqmem <= 0)
    <2>1. v \in BOOLEAN /\ (~k.req => v = k.undefined)
      BY DEF ConnType
    <2>2. u = [k EXCEPT !.undefined = v]
      OBVIOUS
    <2> HIDE DEF v
    <2>3. /\ u \in ConnType /\ u.live = k.live /\ u.undefined = v
          /\ u.con_req = k.con_req /\ u.reqmem = k.reqmem
          /\ u.cur_req_count = k.cur_req_count
          /\ u.pending_http_req = k.pending_http_req
          /\ u.armed = k.armed /\ u.active = k.active
      BY <2>1, <2>2 DEF ConnType
    <2> HIDE DEF u
    <2>4. /\ a \in ConnType /\ ~a.con /\ ~a.req /\ a.live = u.live
          /\ a.con_req = u.con_req /\ a.reqmem = u.reqmem
          /\ a.undefined = u.undefined
          /\ a.cur_req_count = u.cur_req_count
          /\ a.pending_http_req = u.pending_http_req
          /\ a.armed = u.armed /\ a.active = u.active
      BY <2>3 DEF ConnType
    <2> HIDE DEF a
    <2> QED
      BY <2>1, <2>3, <2>4, Zenon
  <1> HIDE DEF a
  <1>2. /\ b \in ConnType /\ SameOwner(b, a)
        /\ b.armed = a.armed \cup {"timeout"}
        /\ b.active = a.active \ {"timeout"}
    BY <1>0, <1>1, EventAddFacts DEF TimeoutRearm
  <1> HIDE DEF b
  <1>3. /\ d \in ConnType /\ SameRequest(d, b) /\ d.is_dead
        /\ d.pending_http_req = b.pending_http_req
        /\ b.pending_http_req => ~Scheduled(d, "http_req")
        /\ d.armed \subseteq b.armed
        /\ d.active \subseteq b.active \cup {"destroy"}
        /\ d.active \ {"http_req"} = (b.active \cup {"destroy"}) \ {"http_req"}
    BY <1>2, NotifyClosingFacts
  <1> HIDE DEF d
  <1>4. /\ EventDel(d, "bev") \in ConnType /\ SameOwner(EventDel(d, "bev"), d)
        /\ EventDel(d, "bev").armed = d.armed \ {"bev"}
        /\ EventDel(d, "bev").active = d.active \ {"bev"}
    BY <1>0, <1>3, EventDelFacts
  <1>5. EventDel(UpstreamConnFini(k), "bev") = EventDel(d, "bev")
    BY DEF UpstreamConnFini, u, a, b, d
  <1>6. "destroy" \in d.active
    BY <1>3
  <1> DEFINE e == EventDel(d, "bev")
  <1> HIDE DEF e
  <1>7. /\ e \in ConnType /\ ~e.con /\ ~e.req /\ e.is_dead /\ e.live = k.live
        /\ e.con_req = k.con_req /\ e.reqmem = k.reqmem
        /\ ~k.req => e.undefined = k.undefined
        /\ e.cur_req_count = k.cur_req_count
        /\ e.pending_http_req = k.pending_http_req
    <2>1. e \in ConnType /\ SameOwner(e, d)
      BY <1>4 DEF e
    <2> QED
      BY <1>1, <1>2, <1>3, <2>1, Zenon DEF SameOwner, SameRequest
  <1>8. b.pending_http_req = k.pending_http_req
    BY <1>1, <1>2 DEF SameOwner
  <1>9. /\ k.pending_http_req => ~Scheduled(e, "http_req")
        /\ e.armed \subseteq (k.armed \cup {"timeout"}) \ {"bev"}
        /\ e.active \subseteq (k.active \cup {"destroy"}) \ {"bev", "timeout"}
        /\ "destroy" \in e.active
    BY <1>1, <1>2, <1>3, <1>4, <1>6, <1>8 DEF e, Scheduled
  <1> QED
    BY <1>5, <1>7, <1>9 DEF e

\* evhtp_connection_free, whichever way it is reached with the hooks set: the
\* request is freed once, a request queued on the way out is cancelled, and the
\* connection is queued for destruction.
LEMMA ConnectionFreeOK ==
    ASSUME NEW k \in ConnType, NEW go \in BOOLEAN, NEW msec \in Int,
           ConnOK(k), k.con
    PROVE  LET j == ConnectionFree(k, TRUE, go, msec)
           IN  /\ j \in ConnType /\ ConnOK(j) /\ j.live
               /\ j.cur_req_count = k.cur_req_count
               /\ ~j.con /\ ~j.req /\ j.is_dead
               /\ ~Scheduled(j, "http_req") /\ "timeout" \notin j.active
               /\ j.pending_http_req => k.pending_http_req \/ (k.con_req /\ go)
  <1> DEFINE t == [TimeoutStop(k) EXCEPT !.req = FALSE]
             n == NotifyReqDestroying(t, go, msec)
             f == IF k.con_req THEN UpstreamFini(k, go, msec) ELSE k
             r == IF k.con_req THEN [RequestFree(f) EXCEPT !.con_req = FALSE]
                               ELSE f
  <1>1. /\ r \in ConnType /\ r.live /\ ~r.con_req /\ r.reqmem = 0
        /\ ~r.req /\ ~r.undefined
        /\ r.cur_req_count = k.cur_req_count
        /\ "destroy" \notin r.armed
        /\ r.pending_http_req \/ ~Scheduled(r, "http_req")
        /\ r.pending_http_req => k.pending_http_req \/ (k.con_req /\ go)
    <2>1. CASE k.con_req
      <3>1. /\ t \in ConnType /\ t.live /\ ~t.req /\ t.reqmem = 1
            /\ ~t.undefined
            /\ t.cur_req_count = k.cur_req_count
            /\ t.pending_http_req = k.pending_http_req
            /\ "destroy" \notin t.armed /\ ~Scheduled(t, "http_req")
        <4>1. /\ TimeoutStop(k) \in ConnType /\ SameOwner(TimeoutStop(k), k)
              /\ TimeoutStop(k).armed = k.armed \ {"timeout"}
              /\ TimeoutStop(k).active = k.active \ {"timeout"}
          BY EventDelFacts DEF TimeoutStop, ConnEv
        <4>2. ASSUME NEW x \in ConnType
              PROVE  LET y == [x EXCEPT !.req = FALSE]
                     IN  /\ y \in ConnType /\ ~y.req
                         /\ y.live = x.live /\ y.reqmem = x.reqmem
                         /\ y.undefined = x.undefined
                         /\ y.cur_req_count = x.cur_req_count
                         /\ y.pending_http_req = x.pending_http_req
                         /\ y.armed = x.armed /\ y.active = x.active
          BY DEF ConnType
        <4>3. k.req /\ k.live /\ k.reqmem = 1 /\ ~k.undefined
              /\ "destroy" \notin k.armed /\ ~Scheduled(k, "http_req")
          BY <2>1 DEF ConnOK
        <4> QED
          BY <4>1, <4>2, <4>3 DEF SameOwner, Scheduled
      <3> HIDE DEF t
      <3>2. /\ n \in ConnType /\ SameRequest(n, t)
            /\ n.armed \ {"http_req"} = t.armed \ {"http_req"}
            /\ go => n.pending_http_req
            /\ ~go => /\ n.pending_http_req = t.pending_http_req
                      /\ n.armed = t.armed
                      /\ n.active = t.active \cup {"destroy"}
        BY <3>1, ReqDestroyingFacts
      <3> HIDE DEF n
      <3>3. f = n
        <4>1. ~n.req
          BY <3>1, <3>2 DEF SameRequest
        <4> QED
          BY <2>1, <4>1 DEF UpstreamFini, ReqDestroy, n, t
      <3>4. /\ RequestFree(n) \in ConnType /\ RequestFree(n).reqmem = n.reqmem - 1
            /\ RequestFree(n).live = n.live /\ RequestFree(n).req = n.req
            /\ RequestFree(n).undefined = n.undefined
            /\ RequestFree(n).cur_req_count = n.cur_req_count
            /\ RequestFree(n).pending_http_req = n.pending_http_req
            /\ RequestFree(n).armed = n.armed /\ RequestFree(n).active = n.active
        BY <3>2 DEF RequestFree, ConnType
      <3>5. r = [RequestFree(n) EXCEPT !.con_req = FALSE]
        BY <2>1, <3>3
      <3>6. /\ [RequestFree(n) EXCEPT !.con_req = FALSE] \in ConnType
            /\ ~[RequestFree(n) EXCEPT !.con_req = FALSE].con_req
            /\ [RequestFree(n) EXCEPT !.con_req = FALSE].live = n.live
            /\ [RequestFree(n) EXCEPT !.con_req = FALSE].req = n.req
            /\ [RequestFree(n) EXCEPT !.con_req = FALSE].undefined = n.undefined
            /\ [RequestFree(n) EXCEPT !.con_req = FALSE].reqmem = n.reqmem - 1
            /\ [RequestFree(n) EXCEPT !.con_req = FALSE].cur_req_count
                 = n.cur_req_count
            /\ [RequestFree(n) EXCEPT !.con_req = FALSE].pending_http_req
                 = n.pending_http_req
            /\ [RequestFree(n) EXCEPT !.con_req = FALSE].armed = n.armed
            /\ [RequestFree(n) EXCEPT !.con_req = FALSE].active = n.active
        BY <3>4 DEF ConnType
      <3>7. /\ r \in ConnType /\ ~r.con_req /\ r.reqmem = n.reqmem - 1
            /\ r.live = n.live /\ r.req = n.req /\ r.undefined = n.undefined
            /\ r.cur_req_count = n.cur_req_count
            /\ r.pending_http_req = n.pending_http_req
            /\ r.armed = n.armed /\ r.active = n.active
        <4> HIDE DEF r
        <4> QED
          BY <3>5, <3>6
      <3>8. "destroy" \notin n.armed
        BY <3>1, <3>2
      <3>9. n.pending_http_req \/ ~Scheduled(n, "http_req")
        BY <3>1, <3>2 DEF Scheduled
      <3>10. n.pending_http_req => k.pending_http_req \/ go
        BY <3>1, <3>2
      <3> HIDE DEF r
      <3> QED
        BY <2>1, <3>1, <3>2, <3>7, <3>8, <3>9, <3>10 DEF SameRequest, Scheduled
    <2>2. CASE ~k.con_req
      BY <2>2 DEF ConnOK
    <2> QED
      BY <2>1, <2>2
  <1>2. ConnectionFree(k, TRUE, go, msec) = EventDel(UpstreamConnFini(r), "bev")
    BY DEF ConnectionFree
  <1> HIDE DEF r
  <1> DEFINE j == EventDel(UpstreamConnFini(r), "bev")
  <1>3. /\ j \in ConnType
        /\ ~j.con /\ ~j.req /\ j.is_dead
        /\ j.live = r.live
        /\ j.con_req = r.con_req
        /\ j.reqmem = r.reqmem
        /\ j.undefined = r.undefined
        /\ j.cur_req_count = r.cur_req_count
        /\ j.pending_http_req = r.pending_http_req
        /\ r.pending_http_req => ~Scheduled(j, "http_req")
        /\ j.armed \subseteq (r.armed \cup {"timeout"}) \ {"bev"}
        /\ j.active \subseteq (r.active \cup {"destroy"}) \ {"bev", "timeout"}
        /\ "destroy" \in j.active
    BY <1>1, ConnFiniFacts
  <1> HIDE DEF j
  <1>4. ~Scheduled(j, "http_req")
    BY <1>1, <1>3 DEF Scheduled
  <1>5. ConnOK(j)
    BY <1>1, <1>3, <1>4 DEF ConnOK, Scheduled
  <1> QED
    BY <1>1, <1>2, <1>3, <1>4, <1>5 DEF j

\* _clt_mgr_conn_destroy frees everything the connection owned: its request,
\* and all of its events, the ones its own fini hook set up included.
LEMMA MgrConnDestroyIsFree ==
    ASSUME NEW k \in ConnType, ConnOK(k)
    PROVE  MgrConnDestroy(EventFired(k, "destroy")) = FreeConn
  <1> DEFINE x == EventFired(k, "destroy")
             y == EventDel(x, "http_req")
             z == EventDel(y, "destroy")
             r == IF z.con_req THEN [RequestFree(z) EXCEPT !.con_req = FALSE]
                               ELSE z
             q == EventDel(UpstreamConnFini(r), "bev")
             f == IF z.con THEN q ELSE z
             g == EventDel(f, "timeout")
             h == EventDel(g, "http_req")
             i == EventDel(h, "destroy")
  <1>0. {"http_req", "destroy", "timeout", "bev"} = ConnEv
    BY DEF ConnEv
  <1>1. /\ x \in ConnType /\ SameOwner(x, k)
        /\ x.armed = k.armed /\ x.active = k.active \ {"destroy"}
    BY <1>0, EventFiredFacts
  <1> HIDE DEF x
  <1>2. /\ y \in ConnType /\ SameOwner(y, x)
        /\ y.armed = x.armed \ {"http_req"} /\ y.active = x.active \ {"http_req"}
    BY <1>0, <1>1, EventDelFacts
  <1> HIDE DEF y
  <1>3. /\ z \in ConnType /\ SameOwner(z, y)
        /\ z.armed = y.armed \ {"destroy"} /\ z.active = y.active \ {"destroy"}
    BY <1>0, <1>2, EventDelFacts
  <1> HIDE DEF z
  <1>4. /\ z.reqmem = (IF z.req THEN 1 ELSE 0)
        /\ z.con_req <=> z.req
        /\ z.req => z.con
        /\ Scheduled(z, "bev") => z.con
    BY <1>1, <1>2, <1>3 DEF ConnOK, SameOwner, Scheduled
  <1>5. ConnDestroy(z) = g
    <2>1. ~(z.req /\ ~(z.con /\ z.con_req)) /\ ~(z.con_req /\ ~z.req)
      BY <1>4
    <2> QED
      BY <2>1 DEF ConnDestroy, ConnectionFree
  <1>6. /\ f \in ConnType /\ f.reqmem = 0
        /\ "bev" \notin f.armed /\ "bev" \notin f.active
    <2>1. CASE z.con
      <3>1. r \in ConnType /\ r.reqmem = 0
        <4>1. CASE z.con_req
          <5>1. RequestFree(z) \in ConnType /\ RequestFree(z).reqmem = 0
            BY <4>1, <1>3, <1>4 DEF RequestFree, ConnType
          <5> QED
            BY <4>1, <5>1 DEF ConnType
        <4>2. CASE ~z.con_req
          BY <4>2, <1>3, <1>4
        <4> QED
          BY <4>1, <4>2
      <3> HIDE DEF r
      <3>2. /\ q \in ConnType /\ q.reqmem = r.reqmem
            /\ q.armed \subseteq (r.armed \cup {"timeout"}) \ {"bev"}
            /\ q.active \subseteq (r.active \cup {"destroy"}) \ {"bev", "timeout"}
        BY <3>1, ConnFiniFacts
      <3> HIDE DEF q
      <3> QED
        BY <2>1, <3>1, <3>2
    <2>2. CASE ~z.con
      BY <2>2, <1>3, <1>4 DEF Scheduled
    <2> QED
      BY <2>1, <2>2
  <1> HIDE DEF f
  <1>7. /\ g \in ConnType /\ SameOwner(g, f)
        /\ g.armed = f.armed \ {"timeout"} /\ g.active = f.active \ {"timeout"}
    BY <1>0, <1>6, EventDelFacts
  <1> HIDE DEF g
  <1>8. /\ h \in ConnType /\ SameOwner(h, g)
        /\ h.armed = g.armed \ {"http_req"} /\ h.active = g.active \ {"http_req"}
    BY <1>0, <1>7, EventDelFacts
  <1> HIDE DEF h
  <1>9. /\ i \in ConnType /\ SameOwner(i, h)
        /\ i.armed = h.armed \ {"destroy"} /\ i.active = h.active \ {"destroy"}
    BY <1>0, <1>8, EventDelFacts
  <1> HIDE DEF i
  <1>10. i.reqmem = 0
    BY <1>6, <1>7, <1>8, <1>9 DEF SameOwner
  <1>11. i.armed \subseteq ConnEv /\ i.active \subseteq ConnEv
    BY <1>9 DEF ConnType
  <1>12. i.armed = {} /\ i.active = {}
    BY <1>0, <1>6, <1>7, <1>8, <1>9, <1>11
  <1>13. MgrConnDestroy(x) = [FreeConn EXCEPT !.reqmem = i.reqmem,
                                !.armed = i.armed, !.active = i.active]
    BY <1>5 DEF MgrConnDestroy, i, h, g, y, z
  <1> QED
    BY <1>10, <1>12, <1>13 DEF FreeConn, x

\* clt_conn_destroy with no request in flight uses no freed request.
LEMMA IdleDestroyClean ==
    ASSUME NEW k \in ConnType, ConnOK(k), ~k.con_req
    PROVE  ~ConnDestroy(EventFired(k, "destroy")).undefined
  <1> DEFINE z == EventFired(k, "destroy")
             q == EventDel(UpstreamConnFini(z), "bev")
             f == IF z.con THEN q ELSE z
  <1>0. "destroy" \in ConnEv /\ "timeout" \in ConnEv
    BY DEF ConnEv
  <1>1. z \in ConnType /\ ~z.req /\ ~z.con_req /\ ~z.undefined
    BY <1>0, EventFiredFacts DEF SameOwner, ConnOK
  <1> HIDE DEF z
  <1>2. ConnDestroy(z) = EventDel(f, "timeout")
    BY <1>1 DEF ConnDestroy, ConnectionFree
  <1>3. q \in ConnType /\ ~q.undefined
    BY <1>1, ConnFiniFacts
  <1> HIDE DEF q
  <1>4. f \in ConnType /\ ~f.undefined
    BY <1>1, <1>3
  <1> HIDE DEF f
  <1>5. ~EventDel(f, "timeout").undefined
    BY <1>0, <1>4, EventDelFacts DEF SameOwner
  <1> QED
    BY <1>2, <1>5 DEF z

\* clt_req_cb leaves the connection with its next request queued, or dying.
LEMMA ReqCbOK ==
    ASSUME NEW k \in ConnType, NEW go \in BOOLEAN, NEW msec \in Int,
           ConnOK(k), k.con_req, go => ~k.is_dead
    PROVE  LET j == ReqCb(k, go, msec)
           IN  /\ j \in ConnType /\ ConnOK(j) /\ j.live
               /\ j.cur_req_count = k.cur_req_count
               /\ ~j.req /\ ~Scheduled(j, "timeout")
               /\ k.is_dead => j.is_dead
               /\ j.pending_http_req => k.pending_http_req \/ go
               /\ ~go => ~Scheduled(j, "http_req")
  <1> DEFINE s == TimeoutStop(k)
             t == [s EXCEPT !.con_req = FALSE]
             n == NotifyReqDestroying(t, go, msec)
             m == RequestFree(n)
             j == [m EXCEPT !.req = FALSE]
  <1>1. /\ s \in ConnType /\ SameOwner(s, k)
        /\ s.armed = k.armed \ {"timeout"} /\ s.active = k.active \ {"timeout"}
    BY EventDelFacts DEF TimeoutStop, ConnEv
  <1> HIDE DEF s
  <1>2. /\ t \in ConnType /\ ~t.con_req /\ t.live = s.live /\ t.con = s.con
        /\ t.req = s.req /\ t.reqmem = s.reqmem /\ t.is_dead = s.is_dead
        /\ t.pending_http_req = s.pending_http_req
        /\ t.cur_req_count = s.cur_req_count /\ t.undefined = s.undefined
        /\ t.armed = s.armed /\ t.active = s.active
    BY <1>1 DEF ConnType
  <1> HIDE DEF t
  <1>3. /\ n \in ConnType /\ SameRequest(n, t)
        /\ n.armed \ {"http_req"} = t.armed \ {"http_req"}
        /\ go => /\ n.pending_http_req
                 /\ n.is_dead = t.is_dead
                 /\ n.active \ {"http_req"} = t.active \ {"http_req"}
                 /\ ~Scheduled(t, "http_req") =>
                      ~("http_req" \in n.armed /\ "http_req" \in n.active)
        /\ ~go => /\ n.is_dead
                  /\ n.pending_http_req = t.pending_http_req
                  /\ n.armed = t.armed
                  /\ n.active = t.active \cup {"destroy"}
    BY <1>2, ReqDestroyingFacts
  <1> HIDE DEF n
  <1>4. /\ m \in ConnType /\ m.reqmem = n.reqmem - 1
        /\ m.live = n.live /\ m.con = n.con /\ m.con_req = n.con_req
        /\ m.is_dead = n.is_dead /\ m.pending_http_req = n.pending_http_req
        /\ m.cur_req_count = n.cur_req_count /\ m.undefined = n.undefined
        /\ m.armed = n.armed /\ m.active = n.active
    BY <1>3 DEF RequestFree, ConnType
  <1> HIDE DEF m
  <1>5. /\ j \in ConnType /\ j.reqmem = m.reqmem /\ ~j.req
        /\ j.live = m.live /\ j.con = m.con /\ j.con_req = m.con_req
        /\ j.is_dead = m.is_dead /\ j.pending_http_req = m.pending_http_req
        /\ j.cur_req_count = m.cur_req_count /\ j.undefined = m.undefined
        /\ j.armed = m.armed /\ j.active = m.active
    BY <1>4 DEF ConnType
  <1>6. ReqCb(k, go, msec) = j
    <2>1. n.req
      BY <1>1, <1>2, <1>3 DEF SameOwner, SameRequest, ConnOK
    <2> QED
      BY <2>1 DEF ReqCb, ReqDestroy, s, t, n, m
  <1> HIDE DEF j
  <1>7. /\ k.req /\ k.con /\ k.live /\ k.reqmem = 1 /\ ~k.undefined
        /\ "bev" \in k.armed /\ "destroy" \notin k.armed
        /\ ~Scheduled(k, "http_req")
        /\ k.is_dead <=> "destroy" \in k.active
    BY DEF ConnOK
  <1>8. /\ j.live /\ j.con /\ ~j.req /\ ~j.con_req /\ j.reqmem = 0
        /\ ~j.undefined
        /\ j.cur_req_count = k.cur_req_count
    BY <1>1, <1>2, <1>3, <1>4, <1>5, <1>7 DEF SameOwner, SameRequest
  <1>9. "bev" \in j.armed /\ "destroy" \notin j.armed
    BY <1>1, <1>2, <1>3, <1>4, <1>5, <1>7
  <1>10. /\ Scheduled(j, "http_req") => j.pending_http_req
         /\ ~("http_req" \in j.armed /\ "http_req" \in j.active)
    BY <1>1, <1>2, <1>3, <1>4, <1>5, <1>7 DEF Scheduled
  <1>11. j.is_dead <=> "destroy" \in j.active
    <2>1. CASE go
      BY <2>1, <1>1, <1>2, <1>3, <1>4, <1>5, <1>7 DEF SameOwner
    <2>2. CASE ~go
      BY <2>2, <1>3, <1>4, <1>5
    <2> QED
      BY <2>1, <2>2
  <1>12. /\ k.is_dead => j.is_dead
         /\ j.pending_http_req => k.pending_http_req \/ go
    BY <1>1, <1>2, <1>3, <1>4, <1>5 DEF SameOwner
  <1>13. /\ ~Scheduled(j, "timeout")
         /\ ~go => ~Scheduled(j, "http_req")
    BY <1>1, <1>2, <1>3, <1>4, <1>5, <1>7 DEF Scheduled
  <1>14. ConnOK(j)
    BY <1>5, <1>8, <1>9, <1>10, <1>11 DEF ConnOK, Scheduled
  <1> QED
    BY <1>5, <1>6, <1>8, <1>12, <1>13, <1>14

\* clt_mgr_conn_try_create hands out a connection in good order.
LEMMA NewConnOK ==
    ASSUME NEW msec \in Int
    PROVE  /\ NewConn(msec) \in ConnType
           /\ ConnOK(NewConn(msec))
           /\ NewConn(msec).live
           /\ NewConn(msec).cur_req_count = 0
           /\ ~NewConn(msec).req /\ ~Scheduled(NewConn(msec), "timeout")
  <1> DEFINE a == [FreeConn EXCEPT !.live = TRUE, !.con = TRUE,
                                   !.armed = {"bev"}]
             j == StartHttpReq(a, msec)
  <1>1. /\ FreeConn \in ConnType /\ ~FreeConn.req /\ ~FreeConn.con_req
        /\ FreeConn.reqmem = 0 /\ ~FreeConn.is_dead /\ ~FreeConn.undefined
        /\ FreeConn.cur_req_count = 0 /\ FreeConn.active = {}
    BY DEF FreeConn, ConnType
  <1>2. /\ a \in ConnType /\ a.live /\ a.con /\ ~a.req /\ ~a.con_req
        /\ a.reqmem = 0 /\ ~a.is_dead /\ a.cur_req_count = 0 /\ ~a.undefined
        /\ a.armed = {"bev"} /\ a.active = {}
    <2> DEFINE b == [FreeConn EXCEPT !.live = TRUE]
               d == [b EXCEPT !.con = TRUE]
               e == [d EXCEPT !.armed = {"bev"}]
    <2>1. /\ b \in ConnType /\ b.live /\ ~b.req /\ ~b.con_req
          /\ b.reqmem = 0 /\ ~b.is_dead /\ ~b.undefined
          /\ b.cur_req_count = 0 /\ b.active = {}
      BY <1>1 DEF ConnType
    <2> HIDE DEF b
    <2>2. /\ d \in ConnType /\ d.live /\ d.con /\ ~d.req /\ ~d.con_req
          /\ d.reqmem = 0 /\ ~d.is_dead /\ ~d.undefined
          /\ d.cur_req_count = 0 /\ d.active = {}
      BY <2>1 DEF ConnType
    <2> HIDE DEF d
    <2>3. /\ e \in ConnType /\ e.live /\ e.con /\ ~e.req /\ ~e.con_req
          /\ e.reqmem = 0 /\ ~e.is_dead /\ ~e.undefined
          /\ e.cur_req_count = 0
          /\ e.armed = {"bev"} /\ e.active = {}
      BY <2>2 DEF ConnType, ConnEv
    <2>4. a = e
      BY DEF a, b, d
    <2> QED
      BY <2>3, <2>4
  <1> HIDE DEF a
  <1>3. /\ j \in ConnType /\ SameRequest(j, a) /\ j.is_dead = a.is_dead
        /\ j.pending_http_req
        /\ j.armed \ {"http_req"} = a.armed \ {"http_req"}
        /\ j.active \ {"http_req"} = a.active \ {"http_req"}
        /\ ~("http_req" \in j.armed /\ "http_req" \in j.active)
    BY <1>2, StartHttpReqFacts DEF Scheduled
  <1>4. NewConn(msec) = j
    BY DEF NewConn, a
  <1> HIDE DEF j
  <1>5. /\ j.live /\ j.con /\ ~j.req /\ ~j.con_req /\ j.reqmem = 0
        /\ ~j.is_dead /\ j.cur_req_count = 0 /\ ~j.undefined
    BY <1>2, <1>3 DEF SameRequest
  <1>6. /\ "bev" \in j.armed /\ "destroy" \notin j.armed
        /\ "destroy" \notin j.active /\ ~Scheduled(j, "timeout")
    BY <1>2, <1>3 DEF Scheduled
  <1> QED
    BY <1>3, <1>4, <1>5, <1>6 DEF ConnOK, Scheduled

\* A slot of the pool before its first connection, or after its last.
LEMMA FreeConnOK ==
    FreeConn \in ConnType /\ ConnOK(FreeConn) /\ ~FreeConn.live
      /\ FreeConn.cur_req_count = 0
  BY DEF FreeConn, ConnType, ConnEv, ConnOK, Scheduled

\* A callback other than the destroy event starts on a connection in good order.
LEMMA EventFiredOK ==
    ASSUME NEW k \in ConnType, NEW e \in ConnEv \ {"destroy"}, ConnOK(k)
    PROVE  EventFired(k, e) \in ConnType /\ ConnOK(EventFired(k, e))
  BY EventFiredFacts DEF ConnOK, SameOwner, Scheduled

\* CLT_NOTIFY_REQUEST_TIMEOUT and clt_mgr_cleanup_timer on any connection.
LEMMA ScheduleDestroyOK ==
    ASSUME NEW k \in ConnType, ConnOK(k), k.live
    PROVE  /\ ScheduleDestroy(k) \in ConnType
           /\ ConnOK(ScheduleDestroy(k))
           /\ ScheduleDestroy(k).live
           /\ ScheduleDestroy(k).cur_req_count = k.cur_req_count
           /\ NotifyTimeout(k) \in ConnType
           /\ ConnOK(NotifyTimeout(k))
           /\ SameRequest(NotifyTimeout(k), k)
  <1>1. /\ ScheduleDestroy(k) \in ConnType
        /\ ConnOK(ScheduleDestroy(k))
        /\ ScheduleDestroy(k).live
        /\ ScheduleDestroy(k).cur_req_count = k.cur_req_count
    BY ScheduleDestroyFacts DEF ConnOK, SameRequest, Scheduled
  <1> DEFINE j == NotifyTimeout(k)
  <1>2. /\ j \in ConnType
        /\ SameRequest(j, k)
        /\ j.is_dead
        /\ j.pending_http_req = k.pending_http_req
        /\ j.armed \subseteq k.armed
        /\ j.active \subseteq k.active \cup {"destroy"}
        /\ j.armed \ {"http_req"} = k.armed \ {"http_req"}
        /\ j.active \ {"http_req"} = (k.active \cup {"destroy"}) \ {"http_req"}
    BY NotifyClosingFacts
  <1> HIDE DEF j
  <1>3. "destroy" \in j.active /\ "destroy" \notin j.armed
    BY <1>2 DEF ConnOK
  <1>4. k.con => "bev" \in j.armed
    BY <1>2 DEF ConnOK
  <1>5. ConnOK(j)
    BY <1>2, <1>3, <1>4 DEF ConnOK, SameRequest, Scheduled
  <1> QED
    BY <1>1, <1>2, <1>5 DEF j

\* clt_conn_timeout_rearm, and clt_conn_timeout_stop, on a live connection.
LEMMA TimeoutOK ==
    ASSUME NEW k \in ConnType, ConnOK(k), k.live
    PROVE  /\ TimeoutRearm(k) \in ConnType /\ ConnOK(TimeoutRearm(k))
           /\ SameOwner(TimeoutRearm(k), k)
           /\ TimeoutStop(k) \in ConnType /\ ConnOK(TimeoutStop(k))
           /\ SameOwner(TimeoutStop(k), k)
  <1>1. "timeout" \in ConnEv
    BY DEF ConnEv
  <1>2. /\ TimeoutRearm(k) \in ConnType /\ SameOwner(TimeoutRearm(k), k)
        /\ TimeoutRearm(k).armed = k.armed \cup {"timeout"}
        /\ TimeoutRearm(k).active = k.active \ {"timeout"}
    BY <1>1, EventAddFacts DEF TimeoutRearm
  <1>3. /\ TimeoutStop(k) \in ConnType /\ SameOwner(TimeoutStop(k), k)
        /\ TimeoutStop(k).armed = k.armed \ {"timeout"}
        /\ TimeoutStop(k).active = k.active \ {"timeout"}
    BY <1>1, EventDelFacts DEF TimeoutStop
  <1>4. ConnOK(TimeoutRearm(k))
    BY <1>2 DEF ConnOK, SameOwner, Scheduled
  <1>5. ConnOK(TimeoutStop(k))
    BY <1>3 DEF ConnOK, SameOwner, Scheduled
  <1> QED
    BY <1>2, <1>3, <1>4, <1>5

\* clt_upstream_error on a live connection.
LEMMA UpstreamErrorOK ==
    ASSUME NEW k \in ConnType, ConnOK(k), k.live, NEW timeout \in BOOLEAN
    PROVE  LET j == UpstreamError(k, timeout)
           IN  /\ j \in ConnType /\ ConnOK(j) /\ SameRequest(j, k)
               /\ j.pending_http_req = k.pending_http_req
               /\ k.is_dead => j.is_dead
  <1> DEFINE a == IF timeout THEN NotifyTimeout(k) ELSE k
  <1>1. /\ a \in ConnType /\ ConnOK(a) /\ SameRequest(a, k) /\ a.live
        /\ a.pending_http_req = k.pending_http_req /\ (k.is_dead => a.is_dead)
    <2>1. CASE timeout
      BY <2>1, ScheduleDestroyOK, NotifyClosingFacts DEF SameRequest
    <2>2. CASE ~timeout
      BY <2>2 DEF SameRequest
    <2> QED
      BY <2>1, <2>2
  <1> HIDE DEF a
  <1>2. /\ TimeoutStop(a) \in ConnType /\ ConnOK(TimeoutStop(a))
        /\ SameOwner(TimeoutStop(a), a)
    BY <1>1, TimeoutOK
  <1> QED
    BY <1>1, <1>2 DEF UpstreamError, SameOwner, SameRequest, a

\* The poll queues pending events of a connection that has nothing queued.
LEMMA PollOK ==
    ASSUME NEW k \in ConnType, ConnOK(k), k.active = {},
           NEW fired \in SUBSET k.armed
    PROVE  LET j == [k EXCEPT !.active = fired, !.armed = @ \ (fired \ {"bev"})]
           IN  /\ j \in ConnType /\ ConnOK(j) /\ SameOwner(j, k)
               /\ j.active = fired /\ j.armed = k.armed \ (fired \ {"bev"})
  <1> DEFINE j == [k EXCEPT !.active = fired, !.armed = @ \ (fired \ {"bev"})]
  <1>1. /\ j \in ConnType /\ SameOwner(j, k) /\ j.active = fired
        /\ j.armed = k.armed \ (fired \ {"bev"})
    BY DEF ConnType, SameOwner
  <1> HIDE DEF j
  <1>2. ConnOK(j)
    BY <1>1 DEF ConnOK, SameOwner, Scheduled
  <1> QED
    BY <1>1, <1>2 DEF j

\* clt_mgr_conn_http_req_event: the request is created, or is not.
LEMMA HttpReqOK ==
    ASSUME NEW k \in ConnType, ConnOK(k), "http_req" \in k.active
    PROVE  LET q == [EventFired(k, "http_req") EXCEPT !.pending_http_req = FALSE]
               j == [ReqCreate(q) EXCEPT !.cur_req_count = @ + 1]
           IN  /\ k.live
               /\ q.con /\ ~q.req
               /\ q \in ConnType /\ ConnOK(q)
               /\ q.live = k.live /\ q.cur_req_count = k.cur_req_count
               /\ q.is_dead = k.is_dead /\ ~q.pending_http_req
               /\ q.armed = k.armed /\ q.active = k.active \ {"http_req"}
               /\ ~Scheduled(q, "http_req")
               /\ j \in ConnType /\ ConnOK(j)
               /\ j.live = k.live /\ j.cur_req_count = k.cur_req_count + 1
               /\ j.is_dead = k.is_dead /\ ~j.pending_http_req /\ j.req
  <1> DEFINE f == EventFired(k, "http_req")
             q == [f EXCEPT !.pending_http_req = FALSE]
             r == ReqCreate(q)
             j == [r EXCEPT !.cur_req_count = @ + 1]
  <1>1. /\ f \in ConnType /\ SameOwner(f, k)
        /\ f.armed = k.armed /\ f.active = k.active \ {"http_req"}
    BY EventFiredFacts DEF ConnEv
  <1> HIDE DEF f
  <1>2. /\ q \in ConnType /\ SameRequest(q, f) /\ q.is_dead = f.is_dead
        /\ ~q.pending_http_req
        /\ q.armed = f.armed /\ q.active = f.active
    BY <1>1 DEF ConnType, SameRequest
  <1> HIDE DEF q
  <1>3. /\ r \in ConnType /\ r.req /\ r.con_req /\ r.reqmem = q.reqmem + 1
        /\ r.live = q.live /\ r.con = q.con /\ r.is_dead = q.is_dead
        /\ r.cur_req_count = q.cur_req_count /\ r.undefined = q.undefined
        /\ r.pending_http_req = q.pending_http_req
        /\ r.armed = q.armed /\ r.active = q.active
    <2> DEFINE a == [q EXCEPT !.req = TRUE]
               b == [a EXCEPT !.con_req = TRUE]
               d == [b EXCEPT !.reqmem = @ + 1]
    <2>1. /\ a \in ConnType /\ a.req /\ a.reqmem = q.reqmem
          /\ a.live = q.live /\ a.con = q.con /\ a.is_dead = q.is_dead
          /\ a.cur_req_count = q.cur_req_count /\ a.undefined = q.undefined
          /\ a.pending_http_req = q.pending_http_req
          /\ a.armed = q.armed /\ a.active = q.active
      BY <1>2 DEF ConnType
    <2> HIDE DEF a
    <2>2. /\ b \in ConnType /\ b.req /\ b.con_req /\ b.reqmem = a.reqmem
          /\ b.live = a.live /\ b.con = a.con /\ b.is_dead = a.is_dead
          /\ b.cur_req_count = a.cur_req_count /\ b.undefined = a.undefined
          /\ b.pending_http_req = a.pending_http_req
          /\ b.armed = a.armed /\ b.active = a.active
      BY <2>1 DEF ConnType
    <2> HIDE DEF b
    <2>3. /\ d \in ConnType /\ d.req /\ d.con_req /\ d.reqmem = b.reqmem + 1
          /\ d.live = b.live /\ d.con = b.con /\ d.is_dead = b.is_dead
          /\ d.cur_req_count = b.cur_req_count /\ d.undefined = b.undefined
          /\ d.pending_http_req = b.pending_http_req
          /\ d.armed = b.armed /\ d.active = b.active
      BY <2>2 DEF ConnType
    <2>4. r = d
      BY DEF ReqCreate, a, b
    <2> HIDE DEF d
    <2> QED
      BY <2>1, <2>2, <2>3, <2>4
  <1> HIDE DEF r
  <1>4. /\ j \in ConnType /\ j.req /\ j.con_req /\ j.reqmem = r.reqmem
        /\ j.live = r.live /\ j.con = r.con /\ j.is_dead = r.is_dead
        /\ j.cur_req_count = r.cur_req_count + 1 /\ j.undefined = r.undefined
        /\ j.pending_http_req = r.pending_http_req
        /\ j.armed = r.armed /\ j.active = r.active
    BY <1>3 DEF ConnType
  <1> HIDE DEF j
  <1>5. /\ k.con /\ ~k.req /\ k.live /\ ~k.con_req /\ k.reqmem = 0
        /\ ~k.undefined
        /\ "bev" \in k.armed /\ "destroy" \notin k.armed
        /\ k.is_dead <=> "destroy" \in k.active
        /\ "http_req" \notin k.armed
    BY DEF ConnOK, Scheduled
  <1>6. /\ q.con /\ ~q.req /\ q.live /\ ~q.con_req /\ q.reqmem = 0
        /\ ~q.undefined
        /\ q.cur_req_count = k.cur_req_count
    BY <1>1, <1>2, <1>5 DEF SameOwner, SameRequest
  <1>7. /\ ~Scheduled(q, "http_req") /\ "bev" \in q.armed
        /\ "destroy" \notin q.armed
        /\ q.is_dead <=> "destroy" \in q.active
    BY <1>1, <1>2, <1>5 DEF Scheduled, SameOwner
  <1>8. ConnOK(q)
    BY <1>6, <1>7 DEF ConnOK, Scheduled
  <1>9. ConnOK(j)
    <2>1. ~Scheduled(j, "http_req")
      BY <1>3, <1>4, <1>7 DEF Scheduled
    <2>2. /\ "bev" \in j.armed /\ "destroy" \notin j.armed
          /\ j.is_dead <=> "destroy" \in j.active
      BY <1>3, <1>4, <1>7
    <2> QED
      BY <2>1, <2>2, <1>3, <1>4, <1>6 DEF ConnOK, Scheduled
  <1>10. /\ q.is_dead = k.is_dead /\ j.is_dead = k.is_dead
         /\ q.armed = k.armed /\ q.active = k.active \ {"http_req"}
         /\ ~q.pending_http_req /\ ~j.pending_http_req
    BY <1>1, <1>2, <1>3, <1>4 DEF SameOwner
  <1>11. j.live = k.live /\ q.live = k.live
    BY <1>1, <1>2, <1>3, <1>4 DEF SameOwner, SameRequest
  <1>12. j.cur_req_count = k.cur_req_count + 1
    BY <1>3, <1>4, <1>6
  <1> QED
    BY <1>2, <1>4, <1>5, <1>6, <1>7, <1>8, <1>9, <1>10, <1>11, <1>12
       DEF f, q, r, j
==============================================================================
