-------------------------- MODULE CltMgrStepProofs ---------------------------
(***************************************************************************)
(* What one step of the manager, whichever callback it is, may do to the   *)
(* connections and to the counters; and what follows from it: the user's   *)
(* limits are kept and requests are accounted for.                         *)
(***************************************************************************)
EXTENDS CltMgrProofs

\* The requests a connection has made, a queued one included.
Outstanding(k) == k.cur_req_count + (IF Scheduled(k, "http_req") THEN 1 ELSE 0)

\* ev_timeout is queued only for a connection with a request on it, and pending
\* only for one that has a request or is dying.
TimeoutOwned(k) ==
    /\ "timeout" \in k.active => k.req
    /\ "timeout" \in k.armed => k.req \/ k.is_dead

\* A request on the connection may still be counted twice: its own timer may
\* fire and then the bufferevent.
MayTimeOut(k) == k.req /\ ("timeout" \in k.active \/ ~k.is_dead)

\* What a callback may make of a connection k that is not being created: the
\* dead stay dead, and a request is queued only if the manager may be asked.
Moves(k, j) ==
    /\ j.live => k.live
    /\ j.live /\ k.is_dead => j.is_dead
    /\ j.pending_http_req => k.pending_http_req \/ ConnCheckCreateHttpRequest(k)
    /\ \/ Outstanding(j) <= Outstanding(k)
       \/ /\ ConnCheckCreateHttpRequest(k)
          /\ Outstanding(j) <= k.cur_req_count + 1
    /\ TimeoutOwned(k) => TimeoutOwned(j)

\* No request is sent, and no timer of one comes back.
Quiet(k, j) == (j.req => k.req) /\ (MayTimeOut(j) => MayTimeOut(k))

------------------------------------------------------------------------------
(* One connection                                                          *)

\* A request count is a number.
LEMMA OutstandingType ==
    ASSUME NEW k \in ConnType
    PROVE  Outstanding(k) \in Nat
  BY DEF Outstanding, ConnType

\* A connection that is left alone.
LEMMA StandsStill ==
    ASSUME NEW k \in ConnType
    PROVE  Moves(k, k) /\ Quiet(k, k)
  BY OutstandingType DEF Moves, Quiet

\* A connection that is freed.
LEMMA FreedMoves ==
    ASSUME NEW k \in ConnType
    PROVE  Moves(k, FreeConn) /\ Quiet(k, FreeConn)
  <1>1. /\ ~FreeConn.live /\ ~FreeConn.pending_http_req /\ ~FreeConn.req
        /\ FreeConn.cur_req_count = 0
        /\ FreeConn.armed = {} /\ FreeConn.active = {}
    BY DEF FreeConn
  <1>2. Outstanding(FreeConn) = 0
    BY <1>1 DEF Outstanding, Scheduled
  <1>3. Outstanding(k) \in Nat
    BY OutstandingType
  <1> QED
    BY <1>1, <1>2, <1>3 DEF Moves, Quiet, TimeoutOwned, MayTimeOut

\* A callback on the connection is about to run, or has run without effect.
LEMMA FiredMoves ==
    ASSUME NEW k \in ConnType, NEW e \in ConnEv \ {"destroy"}
    PROVE  LET j == EventFired(k, e) IN Moves(k, j) /\ Quiet(k, j)
  <1> DEFINE j == EventFired(k, e)
  <1>1. /\ j \in ConnType /\ SameOwner(j, k)
        /\ j.armed = k.armed /\ j.active = k.active \ {e}
    BY EventFiredFacts
  <1> HIDE DEF j
  <1>2. Outstanding(j) <= Outstanding(k)
    BY <1>1 DEF Outstanding, Scheduled, SameOwner, ConnType
  <1> QED
    BY <1>1, <1>2 DEF j, Moves, Quiet, TimeoutOwned, MayTimeOut, SameOwner

\* clt_mgr_conn_http_req_event: the request is created, or is not.
LEMMA HttpReqMoves ==
    ASSUME NEW k \in ConnType, ConnOK(k), "http_req" \in k.active
    PROVE  LET q == [EventFired(k, "http_req") EXCEPT !.pending_http_req = FALSE]
               j == [ReqCreate(q) EXCEPT !.cur_req_count = @ + 1]
           IN  /\ Moves(k, q) /\ Quiet(k, q)
               /\ Moves(k, j)
  <1> DEFINE q == [EventFired(k, "http_req") EXCEPT !.pending_http_req = FALSE]
             j == [ReqCreate(q) EXCEPT !.cur_req_count = @ + 1]
  <1>1. /\ k.live /\ q \in ConnType /\ ConnOK(q) /\ ~q.req
        /\ q.live = k.live /\ q.cur_req_count = k.cur_req_count
        /\ q.is_dead = k.is_dead /\ ~q.pending_http_req
        /\ q.armed = k.armed /\ q.active = k.active \ {"http_req"}
        /\ ~Scheduled(q, "http_req")
        /\ j \in ConnType /\ ConnOK(j)
        /\ j.live = k.live /\ j.cur_req_count = k.cur_req_count + 1
        /\ j.is_dead = k.is_dead /\ ~j.pending_http_req /\ j.req
    BY HttpReqOK
  <1> HIDE DEF q, j
  <1>2. ~k.req /\ ~Scheduled(j, "http_req")
    BY <1>1 DEF ConnOK, Scheduled
  <1>3. Outstanding(k) = k.cur_req_count + 1 /\ k.cur_req_count \in Nat
    BY DEF Outstanding, Scheduled, ConnType
  <1>4. Outstanding(q) = k.cur_req_count /\ Outstanding(j) = k.cur_req_count + 1
    BY <1>1, <1>2, <1>3 DEF Outstanding
  <1>5. /\ Outstanding(q) <= Outstanding(k)
        /\ Outstanding(j) <= Outstanding(k)
    BY <1>3, <1>4
  <1>6. /\ TimeoutOwned(k) => TimeoutOwned(q)
        /\ TimeoutOwned(j)
    BY <1>1, <1>2 DEF TimeoutOwned
  <1>7. Moves(k, q) /\ Quiet(k, q) /\ Moves(k, j)
    BY <1>1, <1>2, <1>5, <1>6 DEF Moves, Quiet, MayTimeOut
  <1> QED
    BY <1>7 DEF q, j

\* clt_conn_timeout: the request is given up, and cannot time out again.
LEMMA TimeoutMoves ==
    ASSUME NEW k \in ConnType, ConnOK(k), "timeout" \in k.active
    PROVE  LET j == NotifyTimeout(EventFired(k, "timeout"))
           IN  Moves(k, j) /\ Quiet(k, j) /\ ~MayTimeOut(j)
  <1> DEFINE f == EventFired(k, "timeout")
             j == NotifyTimeout(f)
  <1>1. /\ f \in ConnType /\ SameOwner(f, k)
        /\ f.armed = k.armed /\ f.active = k.active \ {"timeout"}
    BY EventFiredFacts DEF ConnEv
  <1> HIDE DEF f
  <1>2. /\ j \in ConnType /\ SameRequest(j, f) /\ j.is_dead
        /\ j.pending_http_req = f.pending_http_req
        /\ j.armed \subseteq f.armed /\ j.active \subseteq f.active \cup {"destroy"}
    BY <1>1, NotifyClosingFacts
  <1> HIDE DEF j
  <1>3. Outstanding(j) <= Outstanding(k)
    BY <1>1, <1>2 DEF Outstanding, Scheduled, SameOwner, SameRequest, ConnType
  <1>4. /\ j.live = k.live /\ j.req = k.req
        /\ j.pending_http_req = k.pending_http_req
        /\ "timeout" \notin j.active
    BY <1>1, <1>2 DEF SameOwner, SameRequest
  <1> QED
    BY <1>2, <1>3, <1>4 DEF f, j, Moves, Quiet, TimeoutOwned, MayTimeOut

\* clt_mgr_cleanup_timer on one connection.
LEMMA DestroyMoves ==
    ASSUME NEW k \in ConnType
    PROVE  LET j == ScheduleDestroy(k)
           IN  j \in ConnType /\ j.is_dead /\ Moves(k, j) /\ Quiet(k, j)
  <1> DEFINE j == ScheduleDestroy(k)
  <1>1. /\ j \in ConnType /\ SameRequest(j, k) /\ j.is_dead
        /\ j.pending_http_req = k.pending_http_req
        /\ j.armed = k.armed /\ j.active = k.active \cup {"destroy"}
    BY ScheduleDestroyFacts
  <1> HIDE DEF j
  <1>2. Outstanding(j) <= Outstanding(k)
    BY <1>1 DEF Outstanding, Scheduled, SameRequest, ConnType
  <1> QED
    BY <1>1, <1>2 DEF j, Moves, Quiet, TimeoutOwned, MayTimeOut, SameRequest

\* Part of a response arrives.
LEMMA RearmMoves ==
    ASSUME NEW k \in ConnType, ConnOK(k), k.con_req
    PROVE  LET j == TimeoutRearm(EventFired(k, "bev"))
           IN  Moves(k, j) /\ Quiet(k, j)
  <1> DEFINE f == EventFired(k, "bev")
             j == TimeoutRearm(f)
  <1>1. /\ f \in ConnType /\ SameOwner(f, k)
        /\ f.armed = k.armed /\ f.active = k.active \ {"bev"}
    BY EventFiredFacts DEF ConnEv
  <1> HIDE DEF f
  <1>2. /\ j \in ConnType /\ SameOwner(j, f)
        /\ j.armed = f.armed \cup {"timeout"} /\ j.active = f.active \ {"timeout"}
    BY <1>1, EventAddFacts DEF ConnEv, TimeoutRearm
  <1> HIDE DEF j
  <1>3. SameOwner(j, k) /\ k.req
    BY <1>1, <1>2 DEF SameOwner, ConnOK
  <1>4. Outstanding(j) <= Outstanding(k)
    BY <1>1, <1>2, <1>3 DEF Outstanding, Scheduled, SameOwner, ConnType
  <1> QED
    BY <1>1, <1>2, <1>3, <1>4
       DEF f, j, Moves, Quiet, TimeoutOwned, MayTimeOut, SameOwner

\* The manager's answer depends on the life of a connection and on its count.
LEMMA SameAnswer ==
    ASSUME NEW j, NEW k, j.cur_req_count = k.cur_req_count,
           k.is_dead => j.is_dead, ConnCheckCreateHttpRequest(j)
    PROVE  ConnCheckCreateHttpRequest(k)
  BY DEF ConnCheckCreateHttpRequest

\* clt_req_cb: the response is complete, and perhaps another request queued.
LEMMA ReqCbMoves ==
    ASSUME NEW k \in ConnType, ConnOK(k), k.con_req, NEW msec \in Int,
           NEW go \in BOOLEAN,
           go => ConnCheckCreateHttpRequest(EventFired(k, "bev"))
    PROVE  LET j == ReqCb(EventFired(k, "bev"), go, msec)
           IN  k.req /\ ~j.req /\ Moves(k, j)
  <1> DEFINE b == EventFired(k, "bev")
             j == ReqCb(b, go, msec)
  <1>1. /\ b \in ConnType /\ ConnOK(b) /\ SameOwner(b, k)
    BY EventFiredFacts, EventFiredOK DEF ConnEv
  <1>2. go => ~b.is_dead
    BY DEF ConnCheckCreateHttpRequest
  <1>3. b.con_req
    BY <1>1 DEF SameOwner
  <1> HIDE DEF b
  <1>4. /\ j \in ConnType /\ ConnOK(j) /\ j.live
        /\ j.cur_req_count = b.cur_req_count
        /\ ~j.req /\ ~Scheduled(j, "timeout")
        /\ b.is_dead => j.is_dead
        /\ j.pending_http_req => b.pending_http_req \/ go
        /\ ~go => ~Scheduled(j, "http_req")
    BY <1>1, <1>2, <1>3, ReqCbOK
  <1> HIDE DEF j
  <1>5. /\ b.is_dead = k.is_dead /\ b.cur_req_count = k.cur_req_count
        /\ b.pending_http_req = k.pending_http_req
        /\ k.req /\ k.live
    BY <1>1 DEF SameOwner, ConnOK
  <1>6. go => ConnCheckCreateHttpRequest(k)
    BY <1>5, SameAnswer DEF b
  <1>7. k.cur_req_count \in Nat
    BY DEF ConnType
  <1>8. IF go THEN Outstanding(j) <= k.cur_req_count + 1
              ELSE Outstanding(j) <= Outstanding(k)
    BY <1>4, <1>5, <1>7 DEF Outstanding
  <1>9. TimeoutOwned(j)
    BY <1>4 DEF TimeoutOwned, Scheduled
  <1>10. Moves(k, j)
    BY <1>4, <1>5, <1>6, <1>8, <1>9 DEF Moves
  <1> QED
    BY <1>4, <1>5, <1>10 DEF b, j

\* evhtp_connection_free, after the hooks left the connection k as j.
LEMMA ClosedMoves ==
    ASSUME NEW k \in ConnType, k.live, NEW j \in ConnType, ConnOK(j), j.con,
           SameRequest(j, k), j.pending_http_req = k.pending_http_req,
           k.is_dead => j.is_dead,
           NEW msec \in Int, NEW go \in BOOLEAN,
           go => j.con_req /\ ConnCheckCreateHttpRequest(j)
    PROVE  LET f == ConnectionFree(j, TRUE, go, msec)
           IN  ~f.req /\ Moves(k, f)
  <1> DEFINE f == ConnectionFree(j, TRUE, go, msec)
  <1>1. /\ f \in ConnType /\ ConnOK(f) /\ f.live
        /\ f.cur_req_count = j.cur_req_count
        /\ ~f.con /\ ~f.req /\ f.is_dead
        /\ ~Scheduled(f, "http_req") /\ "timeout" \notin f.active
        /\ f.pending_http_req => j.pending_http_req \/ (j.con_req /\ go)
    BY ConnectionFreeOK
  <1> HIDE DEF f
  <1>2. j.cur_req_count = k.cur_req_count
    BY DEF SameRequest
  <1>3. go => ConnCheckCreateHttpRequest(k)
    BY <1>2, SameAnswer
  <1>4. Outstanding(f) <= Outstanding(k)
    BY <1>1, <1>2 DEF Outstanding, ConnType
  <1>5. Moves(k, f)
    BY <1>1, <1>3, <1>4 DEF Moves, TimeoutOwned
  <1> QED
    BY <1>1, <1>5 DEF f

\* The poll queues pending events of a connection that has nothing queued, and
\* so is not dying.
LEMMA PollMoves ==
    ASSUME NEW k \in ConnType, ConnOK(k), k.active = {},
           NEW fired \in SUBSET k.armed
    PROVE  LET j == [k EXCEPT !.active = fired, !.armed = @ \ (fired \ {"bev"})]
           IN  Moves(k, j) /\ Quiet(k, j)
  <1> DEFINE j == [k EXCEPT !.active = fired, !.armed = @ \ (fired \ {"bev"})]
  <1>1. /\ j \in ConnType /\ SameOwner(j, k)
        /\ j.active = fired /\ j.armed = k.armed \ (fired \ {"bev"})
    BY PollOK
  <1> HIDE DEF j
  <1>2. ~k.is_dead
    BY DEF ConnOK
  <1>3. Outstanding(j) <= Outstanding(k)
    BY <1>1 DEF Outstanding, Scheduled, SameOwner, ConnType
  <1> QED
    BY <1>1, <1>2, <1>3
       DEF j, Moves, Quiet, TimeoutOwned, MayTimeOut, SameOwner

------------------------------------------------------------------------------
(* The counters                                                            *)

\* The counters of requests are the same in both.
SameCounts(t, s) ==
    /\ t.req_count = s.req_count
    /\ t.req_count_ok = s.req_count_ok
    /\ t.req_count_err = s.req_count_err
    /\ t.req_count_timeout = s.req_count_timeout
    /\ t.req_statustype = s.req_statustype

\* The gauge has nothing to do with requests.
LEMMA GaugeCounter ==
    ASSUME NEW s \in StatsType, NEW n \in Int
    PROVE  LET a == [s EXCEPT !.nconn = n]
           IN  /\ a \in StatsType /\ SameCounts(a, s)
               /\ a.conn_count = s.conn_count
  BY DEF StatsType, SameCounts

\* The counters of one request that is sent, fails or times out.
LEMMA RequestCounters ==
    ASSUME NEW s \in StatsType
    PROVE  LET a == [s EXCEPT !.req_count = @ + 1]
               b == [s EXCEPT !.req_count_err = @ + 1]
               d == [s EXCEPT !.req_count_timeout = @ + 1]
               e == [s EXCEPT !.req_count_create_err = @ + 1]
           IN  /\ a \in StatsType /\ a.req_count = s.req_count + 1
               /\ a.req_count_ok = s.req_count_ok
               /\ a.req_count_err = s.req_count_err
               /\ a.req_count_timeout = s.req_count_timeout
               /\ a.req_statustype = s.req_statustype
               /\ a.conn_count = s.conn_count
               /\ b \in StatsType /\ b.req_count = s.req_count
               /\ b.req_count_ok = s.req_count_ok
               /\ b.req_count_err = s.req_count_err + 1
               /\ b.req_count_timeout = s.req_count_timeout
               /\ b.req_statustype = s.req_statustype
               /\ b.conn_count = s.conn_count
               /\ d \in StatsType /\ d.req_count = s.req_count
               /\ d.req_count_ok = s.req_count_ok
               /\ d.req_count_err = s.req_count_err
               /\ d.req_count_timeout = s.req_count_timeout + 1
               /\ d.req_statustype = s.req_statustype
               /\ d.conn_count = s.conn_count
               /\ e \in StatsType /\ SameCounts(e, s)
               /\ e.conn_count = s.conn_count
  BY DEF StatsType, SameCounts

\* Responses by their status, all types together.
TypeSum(s) ==
    s.req_statustype["200"] + s.req_statustype["302"] + s.req_statustype["other"]

\* A response is counted once, under one type.
LEMMA DoneCounters ==
    ASSUME NEW s \in StatsType, NEW status
    PROVE  LET d == [s EXCEPT !.req_count_ok = @ + 1,
                              !.req_statustype[StatusType(status)] = @ + 1]
           IN  /\ d \in StatsType /\ d.req_count = s.req_count
               /\ d.req_count_ok = s.req_count_ok + 1
               /\ d.req_count_err = s.req_count_err
               /\ d.req_count_timeout = s.req_count_timeout
               /\ TypeSum(d) = TypeSum(s) + 1
               /\ d.conn_count = s.conn_count
  <1> DEFINE a == [s EXCEPT !.req_count_ok = @ + 1]
             y == StatusType(status)
             f == [a.req_statustype EXCEPT ![y] = @ + 1]
             b == [a EXCEPT !.req_statustype = f]
  <1>1. y \in {"200", "302", "other"}
    BY DEF StatusType
  <1> HIDE DEF y
  <1>2. /\ a \in StatsType /\ a.req_count = s.req_count
        /\ a.req_count_ok = s.req_count_ok + 1
        /\ a.req_count_err = s.req_count_err
        /\ a.req_count_timeout = s.req_count_timeout
        /\ a.req_statustype = s.req_statustype /\ a.conn_count = s.conn_count
    BY DEF StatsType
  <1> HIDE DEF a
  <1>3. a.req_statustype \in [StatusTypes -> Nat]
    BY <1>2 DEF StatsType
  <1>4. /\ f \in [StatusTypes -> Nat]
        /\ f["200"] + f["302"] + f["other"]
             = a.req_statustype["200"] + a.req_statustype["302"]
                 + a.req_statustype["other"] + 1
    BY <1>1, <1>3 DEF StatusTypes
  <1> HIDE DEF f
  <1>5. /\ b \in StatsType /\ b.req_count = a.req_count
        /\ b.req_count_ok = a.req_count_ok
        /\ b.req_count_err = a.req_count_err
        /\ b.req_count_timeout = a.req_count_timeout
        /\ b.req_statustype = f /\ b.conn_count = a.conn_count
    BY <1>2, <1>4 DEF StatsType
  <1>6. [s EXCEPT !.req_count_ok = @ + 1,
                  !.req_statustype[StatusType(status)] = @ + 1] = b
    BY DEF a, b, f, y
  <1> HIDE DEF b
  <1> QED
    BY <1>2, <1>4, <1>5, <1>6 DEF TypeSum

------------------------------------------------------------------------------
(* Connections that are opened                                             *)

\* The connections opened by a step, which happens in RUNNING only and within
\* the total; all others move.
Opens(new) ==
    /\ new \in SUBSET (Conns \ Live)
    /\ stats'.conn_count = stats.conn_count + Cardinality(new)
    /\ new # {} =>
         /\ mgr_state \in {"RUNNING", "INIT"}
         /\ cfg.target_total_nconn_count > 0 =>
              stats'.conn_count <= cfg.target_total_nconn_count
    /\ \A c \in new : conn'[c] = NewConn(cfg.wait_time_pre_http_req_msec)
    /\ \A c \in Conns \ new : Moves(conn[c], conn'[c])

\* What clt_mgr_conn_try_create counts, and when it opens anything.
LEMMA CreatedCounts ==
    ASSUME cfg \in Configs, NEW n \in Nat, NEW s \in StatsType,
           NEW p \in PacerType,
           NEW new \in SUBSET Conns, TryCreate(n, s, p, new)
    PROVE  LET t == StatsCreated(n, s, p, new)
           IN  /\ t \in StatsType /\ SameCounts(t, s)
               /\ t.conn_count = s.conn_count + Cardinality(new)
               /\ new # {} =>
                    /\ mgr_state \in {"RUNNING", "INIT"}
                    /\ cfg.target_total_nconn_count > 0 =>
                         t.conn_count <= cfg.target_total_nconn_count
  <1> DEFINE m == Cardinality(new)
             t == StatsCreated(n, s, p, new)
  <1>1. m \in Nat /\ IsFiniteSet(new) /\ (new # {} => m > 0)
    <2>1. IsFiniteSet(new)
      BY ConnsAssumption, FS_Subset
    <2>2. Cardinality(new) \in Nat /\ (Cardinality(new) = 0 <=> new = {})
      BY <2>1, FS_CardinalityType, FS_EmptySet
    <2> QED
      BY <2>1, <2>2
  <1>2. /\ t \in StatsType /\ SameCounts(t, s)
        /\ t.conn_count = s.conn_count + m
    <2> DEFINE a == [s EXCEPT !.nconn = @ + m]
               o == [a EXCEPT !.conn_count = @ + m]
               g == IF CreateFailed(n, s, p, new) THEN o.nconn_create_failed + 1
                                                  ELSE o.nconn_create_failed
               u == [o EXCEPT !.nconn_create_failed = g]
    <2> HIDE DEF m
    <2>1. a \in StatsType /\ SameCounts(a, s) /\ a.conn_count = s.conn_count
      BY <1>1 DEF StatsType, SameCounts
    <2> HIDE DEF a
    <2>2. /\ o \in StatsType /\ SameCounts(o, a)
          /\ o.conn_count = a.conn_count + m
      BY <1>1, <2>1 DEF StatsType, SameCounts
    <2> HIDE DEF o
    <2>3. g \in Nat
      BY <2>2 DEF StatsType
    <2>4. t = u
      BY DEF StatsCreated, StatsOpened, a, o, m
    <2> HIDE DEF g
    <2>5. /\ u \in StatsType /\ SameCounts(u, o)
          /\ u.conn_count = o.conn_count
      BY <2>2, <2>3 DEF StatsType, SameCounts
    <2> HIDE DEF u, t
    <2> QED
      BY <2>1, <2>2, <2>4, <2>5 DEF SameCounts
  <1> HIDE DEF t
  <1>3. ASSUME new # {}
        PROVE  /\ mgr_state \in {"RUNNING", "INIT"}
               /\ cfg.target_total_nconn_count > 0 =>
                    t.conn_count <= cfg.target_total_nconn_count
    <2>1. m - 1 \in 0..(m - 1) /\ m - 1 \in Nat
      BY <1>1, <1>3
    <2>2. MayCreate(s, p, m - 1)
      BY <2>1 DEF TryCreate, m
    <2>3. StatsOpened(s, m - 1).conn_count = s.conn_count + (m - 1)
      BY <2>1, StatsOpenedFacts
    <2>4. /\ mgr_state \in {"RUNNING", "INIT"}
          /\ cfg.target_total_nconn_count > 0 =>
               StatsOpened(s, m - 1).conn_count < cfg.target_total_nconn_count
      BY <2>2 DEF MayCreate, CheckCreateConn
    <2>5. cfg.target_total_nconn_count \in Int /\ s.conn_count \in Nat
      BY CfgTypes DEF StatsType
    <2> QED
      BY <1>1, <1>2, <2>3, <2>4, <2>5
  <1> QED
    BY <1>2, <1>3 DEF t, m

\* A new connection has no request on it yet.
LEMMA NewIsQuiet ==
    ASSUME cfg \in Configs, NEW k
    PROVE  Quiet(k, NewConn(cfg.wait_time_pre_http_req_msec))
  BY CfgTypes, NewConnOK DEF Quiet, MayTimeOut

\* A connection closes, and perhaps another is opened in its place.
LEMMA ClosingOpens ==
    ASSUME IInv, NEW c \in Conns, conn[c].live, NEW k \in ConnType,
           Moves(conn[c], k),
           NEW s \in StatsType, s.conn_count = stats.conn_count,
           NEW p \in PacerType, NEW gone \in {0, 1},
           ConnClosing(c, k, s, p, gone)
    PROVE  /\ \E new : Opens(new)
           /\ \A d \in Conns \ {c} : Quiet(conn[d], conn'[d])
           /\ conn'[c] = k
           /\ SameCounts(stats', s)
  <1> DEFINE t == [s EXCEPT !.conn_closing_count = @ + 1]
             g == [conn EXCEPT ![c] = k]
             msec == cfg.wait_time_pre_http_req_msec
  <1>0. cfg \in Configs /\ conn \in [Conns -> ConnType] /\ stats \in StatsType
    BY DEF IInv, StateType
  <1>1. PICK new \in SUBSET (Conns \ Live) :
          /\ TryCreate(1, t, p, new)
          /\ conn' = ConnsCreated(g, new)
          /\ stats' = [StatsCreated(1, t, p, new) EXCEPT !.nconn = @ - gone]
    BY DEF ConnClosing
  <1>2. t \in StatsType /\ SameCounts(t, s) /\ t.conn_count = s.conn_count
    BY DEF StatsType, SameCounts
  <1> HIDE DEF t
  <1> DEFINE o == StatsCreated(1, t, p, new)
  <1>3. /\ o \in StatsType /\ SameCounts(o, t)
        /\ o.conn_count = t.conn_count + Cardinality(new)
        /\ new # {} =>
             /\ mgr_state \in {"RUNNING", "INIT"}
             /\ cfg.target_total_nconn_count > 0 =>
                  o.conn_count <= cfg.target_total_nconn_count
    BY <1>0, <1>1, <1>2, CreatedCounts
  <1>4. stats' = [o EXCEPT !.nconn = o.nconn - gone]
    BY <1>1
  <1> HIDE DEF o
  <1>5. SameCounts(stats', o) /\ stats'.conn_count = o.conn_count
    <2>1. o.nconn - gone \in Int
      BY <1>3 DEF StatsType
    <2> QED
      BY <1>3, <1>4, <2>1, GaugeCounter
  <1>6. SameCounts(stats', s)
    BY <1>2, <1>3, <1>5 DEF SameCounts
  <1>7. \A d \in Conns : conn'[d] = IF d \in new THEN NewConn(msec)
                                     ELSE IF d = c THEN k ELSE conn[d]
    BY <1>0, <1>1 DEF ConnsCreated
  <1>8. c \notin new
    BY <1>1 DEF Live
  <1>9. \A d \in Conns \ new : Moves(conn[d], conn'[d])
    BY <1>0, <1>7, StandsStill
  <1>10. \A d \in Conns \ {c} : Quiet(conn[d], conn'[d])
    BY <1>0, <1>7, StandsStill, NewIsQuiet
  <1>11. Opens(new)
    BY <1>1, <1>2, <1>3, <1>5, <1>7, <1>9 DEF Opens
  <1> QED
    BY <1>6, <1>7, <1>8, <1>10, <1>11

------------------------------------------------------------------------------
(* One step                                                                *)

\* Which timers connections have.
TimeoutsOwned == \A c \in Conns : TimeoutOwned(conn[c])

\* A step counts no request, or one thing about the request of connection c:
\* that it is sent, that it is over, or that its own timer has fired.
Sent ==
    /\ stats'.req_count = stats.req_count + 1
    /\ stats'.req_count_ok = stats.req_count_ok
    /\ stats'.req_count_err = stats.req_count_err
    /\ stats'.req_count_timeout = stats.req_count_timeout
    /\ stats'.req_statustype = stats.req_statustype

Answered ==
    /\ stats'.req_count = stats.req_count
    /\ stats'.req_count_ok = stats.req_count_ok + 1
    /\ stats'.req_count_err = stats.req_count_err
    /\ stats'.req_count_timeout = stats.req_count_timeout
    /\ TypeSum(stats') = TypeSum(stats) + 1

Failed ==
    /\ stats'.req_count = stats.req_count
    /\ stats'.req_count_ok = stats.req_count_ok
    /\ stats'.req_count_err = stats.req_count_err + 1
    /\ stats'.req_count_timeout = stats.req_count_timeout
    /\ stats'.req_statustype = stats.req_statustype

TimedOut ==
    /\ stats'.req_count = stats.req_count
    /\ stats'.req_count_ok = stats.req_count_ok
    /\ stats'.req_count_err = stats.req_count_err
    /\ stats'.req_count_timeout = stats.req_count_timeout + 1
    /\ stats'.req_statustype = stats.req_statustype

AllQuiet == \A c \in Conns : Quiet(conn[c], conn'[c])
OthersQuiet(c) == \A d \in Conns \ {c} : Quiet(conn[d], conn'[d])

CountsOne(c) ==
    /\ OthersQuiet(c)
    /\ \/ Sent
       \/ conn[c].req /\ ~conn'[c].req /\ (Answered \/ Failed \/ TimedOut)
       \/ /\ MayTimeOut(conn[c]) /\ ~MayTimeOut(conn'[c])
          /\ Quiet(conn[c], conn'[c])
          /\ TimedOut

Counts == (SameCounts(stats', stats) /\ AllQuiet) \/ \E c \in Conns : CountsOne(c)

StepFacts == (\E new : Opens(new)) /\ Counts

\* One connection changes and none is opened.
LEMMA OneConnOpens ==
    ASSUME IInv, NEW c \in Conns, NEW k \in ConnType, Moves(conn[c], k),
           conn' = [conn EXCEPT ![c] = k],
           stats'.conn_count = stats.conn_count
    PROVE  /\ Opens({})
           /\ OthersQuiet(c)
           /\ conn'[c] = k
  <1>1. conn \in [Conns -> ConnType] /\ stats.conn_count \in Nat
    BY DEF IInv, StateType, StatsType
  <1>2. \A d \in Conns : conn'[d] = IF d = c THEN k ELSE conn[d]
    BY <1>1
  <1>3. Cardinality({}) = 0
    BY FS_EmptySet
  <1>4. \A d \in Conns \ {c} : Moves(conn[d], conn'[d]) /\ Quiet(conn[d], conn'[d])
    BY <1>1, <1>2, StandsStill
  <1> QED
    BY <1>1, <1>2, <1>3, <1>4 DEF Opens, OthersQuiet

\* The counters are left alone.
LEMMA CountsSame ==
    ASSUME stats' = stats
    PROVE  SameCounts(stats', stats) /\ stats'.conn_count = stats.conn_count
  BY DEF SameCounts

\* libevhtp closes connection c, which its hooks left as k, the counters as s.
LEMMA UpstreamClosedFacts ==
    ASSUME IInv, NEW c \in Conns, conn[c].live,
           NEW k \in ConnType, ConnOK(k), k.con, SameRequest(k, conn[c]),
           k.pending_http_req = conn[c].pending_http_req,
           conn[c].is_dead => k.is_dead,
           NEW s \in StatsType, s.conn_count = stats.conn_count,
           UpstreamClosed(c, k, s)
    PROVE  /\ \E new : Opens(new)
           /\ OthersQuiet(c)
           /\ ~conn'[c].req
           /\ SameCounts(stats', s)
  <1> DEFINE go == k.con_req /\ AnotherRequest(k)
             j == ConnectionFree(k, TRUE, go, cfg.wait_time_pre_http_req_msec)
  <1>1. ConnClosing(c, j, s, PacerAfter(go), 0)
    BY DEF UpstreamClosed
  <1>2. go \in BOOLEAN /\ (go => k.con_req /\ ConnCheckCreateHttpRequest(k))
    BY DEF AnotherRequest
  <1> HIDE DEF go
  <1>3. /\ cfg.wait_time_pre_http_req_msec \in Int /\ conn[c] \in ConnType
        /\ cfg.target_request_rate \in Int /\ pacer \in PacerType
    BY CfgTypes DEF IInv, StateType
  <1>4. ~j.req /\ Moves(conn[c], j)
    BY <1>2, <1>3, ClosedMoves
  <1>5. j \in ConnType
    BY <1>2, <1>3, ConnectionFreeOK
  <1>6. PacerAfter(go) \in PacerType
    BY <1>3, PacerAddType DEF PacerAfter, PacerInc
  <1> HIDE DEF j
  <1>7. /\ \E new : Opens(new)
        /\ \A d \in Conns \ {c} : Quiet(conn[d], conn'[d])
        /\ conn'[c] = j
        /\ SameCounts(stats', s)
    BY <1>1, <1>4, <1>5, <1>6, ClosingOpens
  <1> QED
    BY <1>4, <1>7 DEF OthersQuiet

\* The callbacks of one connection's events.
LEMMA ConnEventFacts ==
    ASSUME IInv, TimeoutsOwned, NEW c \in Conns, ConnEvent(c)
    PROVE  StepFacts
  <1> DEFINE msec == cfg.wait_time_pre_http_req_msec
             b == BevFired(c)
  <1>1. /\ cfg \in Configs /\ conn[c] \in ConnType /\ ConnOK(conn[c])
        /\ stats \in StatsType /\ pacer \in PacerType
        /\ conn \in [Conns -> ConnType] /\ TimeoutOwned(conn[c])
    BY DEF IInv, StateType, ConnsOK, TimeoutsOwned
  <1>2. msec \in Int
    BY <1>1, CfgTypes
  <1>3. \A e \in ConnEv : e \in conn[c].active => conn[c].live
    BY <1>1 DEF ConnOK
  <1>4. /\ "http_req" \in ConnEv /\ "destroy" \in ConnEv
        /\ "timeout" \in ConnEv \ {"destroy"} /\ "bev" \in ConnEv \ {"destroy"}
    BY DEF ConnEv
  <1>5. /\ b \in ConnType /\ ConnOK(b) /\ SameOwner(b, conn[c])
        /\ b = EventFired(conn[c], "bev")
    BY <1>1, <1>4, EventFiredOK, EventFiredFacts DEF BevFired
  <1>6. \A d \in Conns : OthersQuiet(d) /\ Quiet(conn[d], conn'[d]) => AllQuiet
    BY DEF OthersQuiet, AllQuiet
  <1> HIDE DEF msec, b
  <1>7. CASE HttpReqEvent(c)
    <2> DEFINE q == [EventFired(conn[c], "http_req") EXCEPT !.pending_http_req = FALSE]
               j == [ReqCreate(q) EXCEPT !.cur_req_count = @ + 1]
    <2>1. "http_req" \in conn[c].active
      BY <1>7 DEF HttpReqEvent
    <2>2. q \in ConnType /\ j \in ConnType
      BY <1>1, <2>1, HttpReqOK
    <2>3. Moves(conn[c], q) /\ Quiet(conn[c], q) /\ Moves(conn[c], j)
      BY <1>1, <2>1, HttpReqMoves
    <2>4. \/ /\ conn' = [conn EXCEPT ![c] = j]
             /\ stats' = [stats EXCEPT !.req_count = @ + 1]
          \/ /\ conn' = [conn EXCEPT ![c] = q]
             /\ stats' = [stats EXCEPT !.req_count_create_err = @ + 1]
      BY <1>7 DEF HttpReqEvent
    <2> HIDE DEF q, j
    <2>5. CASE /\ conn' = [conn EXCEPT ![c] = j]
               /\ stats' = [stats EXCEPT !.req_count = @ + 1]
      <3>1. Sent /\ stats'.conn_count = stats.conn_count
        BY <1>1, <2>5, RequestCounters DEF Sent
      <3>2. Opens({}) /\ OthersQuiet(c)
        BY <2>2, <2>3, <2>5, <3>1, OneConnOpens
      <3> QED
        BY <3>1, <3>2 DEF StepFacts, Counts, CountsOne
    <2>6. CASE /\ conn' = [conn EXCEPT ![c] = q]
               /\ stats' = [stats EXCEPT !.req_count_create_err = @ + 1]
      <3>1. SameCounts(stats', stats) /\ stats'.conn_count = stats.conn_count
        BY <1>1, <2>6, RequestCounters
      <3>2. Opens({}) /\ OthersQuiet(c) /\ conn'[c] = q
        BY <2>2, <2>3, <2>6, <3>1, OneConnOpens
      <3> QED
        BY <1>6, <2>3, <3>1, <3>2 DEF StepFacts, Counts
    <2> QED
      BY <2>4, <2>5, <2>6
  <1>8. CASE DestroyEvent(c)
    <2> DEFINE k == MgrConnDestroy(EventFired(conn[c], "destroy"))
    <2>1. k = FreeConn /\ k \in ConnType
      BY <1>1, MgrConnDestroyIsFree, FreeConnOK
    <2>2. conn[c].live
      BY <1>3, <1>4, <1>8 DEF DestroyEvent
    <2>3. \/ ConnClosing(c, k, stats, pacer, 1)
          \/ /\ conn' = [conn EXCEPT ![c] = k]
             /\ stats' = [stats EXCEPT !.nconn = @ - 1]
      BY <1>8 DEF DestroyEvent
    <2> HIDE DEF k
    <2>4. Moves(conn[c], k) /\ Quiet(conn[c], k)
      BY <1>1, <2>1, FreedMoves
    <2>5. CASE ConnClosing(c, k, stats, pacer, 1)
      <3>1. /\ \E new : Opens(new)
            /\ \A d \in Conns \ {c} : Quiet(conn[d], conn'[d])
            /\ conn'[c] = k
            /\ SameCounts(stats', stats)
        BY <1>1, <2>1, <2>2, <2>4, <2>5, ClosingOpens
      <3> QED
        BY <1>6, <2>4, <3>1 DEF StepFacts, Counts, OthersQuiet
    <2>6. CASE /\ conn' = [conn EXCEPT ![c] = k]
               /\ stats' = [stats EXCEPT !.nconn = @ - 1]
      <3>1. stats' = [stats EXCEPT !.nconn = stats.nconn - 1]
            /\ stats.nconn - 1 \in Int
        BY <1>1, <2>6 DEF StatsType
      <3>2. SameCounts(stats', stats) /\ stats'.conn_count = stats.conn_count
        BY <1>1, <3>1, GaugeCounter
      <3>3. Opens({}) /\ OthersQuiet(c) /\ conn'[c] = k
        BY <2>1, <2>4, <2>6, <3>2, OneConnOpens
      <3> QED
        BY <1>6, <2>4, <3>2, <3>3 DEF StepFacts, Counts
    <2> QED
      BY <2>3, <2>5, <2>6
  <1>9. CASE ConnTimeout(c)
    <2> DEFINE k == NotifyTimeout(EventFired(conn[c], "timeout"))
    <2>1. /\ "timeout" \in conn[c].active
          /\ conn' = [conn EXCEPT ![c] = k]
          /\ stats' = [stats EXCEPT !.req_count_timeout = @ + 1]
      BY <1>9 DEF ConnTimeout
    <2>2. Moves(conn[c], k) /\ Quiet(conn[c], k) /\ ~MayTimeOut(k)
      BY <1>1, <2>1, TimeoutMoves
    <2>3. k \in ConnType
      BY <1>1, <1>4, EventFiredFacts, NotifyClosingFacts
    <2> HIDE DEF k
    <2>4. TimedOut /\ stats'.conn_count = stats.conn_count
      BY <1>1, <2>1, RequestCounters DEF TimedOut
    <2>5. Opens({}) /\ OthersQuiet(c) /\ conn'[c] = k
      BY <2>1, <2>2, <2>3, <2>4, OneConnOpens
    <2>6. MayTimeOut(conn[c])
      BY <1>1, <2>1 DEF TimeoutOwned, MayTimeOut
    <2> QED
      BY <2>2, <2>4, <2>5, <2>6 DEF StepFacts, Counts, CountsOne
  <1>10. CASE BevQuiet(c)
    <2>1. conn' = [conn EXCEPT ![c] = b] /\ stats' = stats
      BY <1>10 DEF BevQuiet, b
    <2>2. Moves(conn[c], b) /\ Quiet(conn[c], b)
      BY <1>1, <1>4, <1>5, FiredMoves
    <2>3. Opens({}) /\ OthersQuiet(c) /\ conn'[c] = b
      BY <1>5, <2>1, <2>2, CountsSame, OneConnOpens
    <2> QED
      BY <1>6, <2>1, <2>2, <2>3, CountsSame DEF StepFacts, Counts
  <1>11. CASE ResponseProgress(c)
    <2> DEFINE k == TimeoutRearm(b)
    <2>1. /\ conn' = [conn EXCEPT ![c] = k] /\ stats' = stats
          /\ conn[c].con_req
      BY <1>11 DEF ResponseProgress, b
    <2>2. Moves(conn[c], k) /\ Quiet(conn[c], k)
      BY <1>1, <1>5, <2>1, RearmMoves
    <2>3. k \in ConnType
      BY <1>4, <1>5, EventAddFacts DEF TimeoutRearm
    <2> HIDE DEF k
    <2>4. Opens({}) /\ OthersQuiet(c) /\ conn'[c] = k
      BY <2>1, <2>2, <2>3, CountsSame, OneConnOpens
    <2> QED
      BY <1>6, <2>1, <2>2, <2>4, CountsSame DEF StepFacts, Counts
  <1>12. ASSUME NEW status \in Statuses, ResponseDone(c, status)
         PROVE  StepFacts
    <2> DEFINE go == AnotherRequest(b)
               k == ReqCb(b, go, msec)
    <2>1. /\ conn' = [conn EXCEPT ![c] = k]
          /\ stats' = [stats EXCEPT !.req_count_ok = @ + 1,
                         !.req_statustype[StatusType(status)] = @ + 1]
          /\ b.con_req
      BY <1>12 DEF ResponseDone, b, msec
    <2>2. go \in BOOLEAN /\ (go => ConnCheckCreateHttpRequest(b))
      BY DEF AnotherRequest
    <2>3. go => ~b.is_dead
      BY DEF AnotherRequest, ConnCheckCreateHttpRequest
    <2> HIDE DEF go
    <2>4. conn[c].con_req
      BY <1>5, <2>1 DEF SameOwner
    <2>5. conn[c].req /\ ~k.req /\ Moves(conn[c], k)
      BY <1>1, <1>2, <1>5, <2>2, <2>4, ReqCbMoves
    <2>6. k \in ConnType
      BY <1>2, <1>5, <2>1, <2>2, <2>3, ReqCbOK
    <2> HIDE DEF k
    <2>7. Answered /\ stats'.conn_count = stats.conn_count
      BY <1>1, <2>1, DoneCounters DEF Answered
    <2>8. Opens({}) /\ OthersQuiet(c) /\ conn'[c] = k
      BY <2>1, <2>5, <2>6, <2>7, OneConnOpens
    <2> QED
      BY <2>5, <2>7, <2>8 DEF StepFacts, Counts, CountsOne
  <1>13. ASSUME "bev" \in conn[c].active, UpstreamClosed(c, b, stats)
         PROVE  StepFacts
    <2>1. conn[c].live /\ conn[c].con
      BY <1>1, <1>3, <1>4, <1>13 DEF ConnOK, Scheduled
    <2>2. /\ b.con /\ SameRequest(b, conn[c])
          /\ b.pending_http_req = conn[c].pending_http_req
          /\ conn[c].is_dead => b.is_dead
      BY <1>5, <2>1 DEF SameOwner, SameRequest
    <2>3. /\ \E new : Opens(new)
          /\ OthersQuiet(c) /\ ~conn'[c].req /\ SameCounts(stats', stats)
      BY <1>1, <1>5, <1>13, <2>1, <2>2, UpstreamClosedFacts
    <2>4. Quiet(conn[c], conn'[c])
      BY <2>3 DEF Quiet, MayTimeOut
    <2> QED
      BY <1>6, <2>3, <2>4 DEF StepFacts, Counts
  <1>14. CASE ParserError(c)
    BY <1>13, <1>14 DEF ParserError, b
  <1>15. ASSUME NEW timeout \in BOOLEAN, SocketError(c, timeout)
         PROVE  StepFacts
    <2>1. "bev" \in conn[c].active
      BY <1>15 DEF SocketError
    <2>2. conn[c].live /\ conn[c].con
      BY <1>1, <1>3, <1>4, <2>1 DEF ConnOK, Scheduled
    <2>3. CASE conn[c].con_req
      <3> DEFINE k == UpstreamError(b, timeout)
                 s == IF timeout THEN [stats EXCEPT !.req_count_timeout = @ + 1]
                                 ELSE [stats EXCEPT !.req_count_err = @ + 1]
      <3>1. UpstreamClosed(c, k, s)
        BY <1>15, <2>3 DEF SocketError, b
      <3>2. b.live /\ b.con
        BY <1>5, <2>2 DEF SameOwner
      <3>3. /\ k \in ConnType /\ ConnOK(k) /\ SameRequest(k, b)
            /\ k.pending_http_req = b.pending_http_req
            /\ b.is_dead => k.is_dead
        BY <1>5, <3>2, UpstreamErrorOK
      <3> HIDE DEF k
      <3>4. /\ k.con /\ SameRequest(k, conn[c])
            /\ k.pending_http_req = conn[c].pending_http_req
            /\ conn[c].is_dead => k.is_dead
        BY <1>5, <3>2, <3>3 DEF SameOwner, SameRequest
      <3>5. /\ s \in StatsType /\ s.conn_count = stats.conn_count
            /\ SameCounts(stats', s) => Failed \/ TimedOut
        <4>1. CASE timeout
          BY <1>1, <4>1, RequestCounters DEF SameCounts, TimedOut
        <4>2. CASE ~timeout
          BY <1>1, <4>2, RequestCounters DEF SameCounts, Failed
        <4> QED
          BY <4>1, <4>2
      <3> HIDE DEF s
      <3>6. /\ \E new : Opens(new)
            /\ OthersQuiet(c) /\ ~conn'[c].req /\ SameCounts(stats', s)
        BY <2>2, <3>1, <3>3, <3>4, <3>5, UpstreamClosedFacts
      <3>7. conn[c].req
        BY <1>1, <2>3 DEF ConnOK
      <3> QED
        BY <3>5, <3>6, <3>7 DEF StepFacts, Counts, CountsOne
    <2>4. CASE ~conn[c].con_req
      BY <1>13, <1>15, <2>1, <2>4 DEF SocketError, b
    <2> QED
      BY <2>3, <2>4
  <1> QED
    BY <1>7, <1>8, <1>9, <1>10, <1>11, <1>12, <1>14, <1>15 DEF ConnEvent

\* No connection is opened and no counter changes.
LEMMA AllMoveFacts ==
    ASSUME IInv, stats' = stats,
           \A c \in Conns : Moves(conn[c], conn'[c]) /\ Quiet(conn[c], conn'[c])
    PROVE  StepFacts
  <1>1. stats.conn_count \in Nat /\ Cardinality({}) = 0
    BY FS_EmptySet DEF IInv, StateType, StatsType
  <1>2. Opens({})
    BY <1>1 DEF Opens
  <1> QED
    BY <1>2, CountsSame DEF StepFacts, Counts, AllQuiet

\* The callbacks that leave the connections and the counters alone.
LEMMA StillFacts ==
    ASSUME IInv, UNCHANGED <<conn, stats>>
    PROVE  StepFacts
  <1>1. \A c \in Conns : conn[c] \in ConnType
    BY DEF IInv, StateType
  <1> QED
    BY <1>1, StandsStill, AllMoveFacts

\* The periodic timer in RUNNING.
LEMMA TimerRunningFacts ==
    ASSUME IInv, TimerRunning
    PROVE  StepFacts
  <1> DEFINE n == cfg.burst_conn + 1
             p == IF cfg.target_request_rate > 0
                    THEN PacerUpdate(cfg.target_request_rate, pacer) ELSE pacer
             msec == cfg.wait_time_pre_http_req_msec
  <1>1. PICK new \in SUBSET (Conns \ Live) :
          /\ TryCreate(n, stats, p, new)
          /\ conn' = ConnsCreated(conn, new)
          /\ stats' = StatsCreated(n, stats, p, new)
    BY DEF TimerRunning
  <1>2. n \in Nat /\ p \in PacerType
    BY CfgTypes, PacerUpdateType DEF IInv, StateType
  <1>3. cfg \in Configs /\ conn \in [Conns -> ConnType] /\ stats \in StatsType
    BY DEF IInv, StateType
  <1> HIDE DEF n, p
  <1>4. /\ SameCounts(stats', stats)
        /\ stats'.conn_count = stats.conn_count + Cardinality(new)
        /\ new # {} =>
             /\ mgr_state \in {"RUNNING", "INIT"}
             /\ cfg.target_total_nconn_count > 0 =>
                  stats'.conn_count <= cfg.target_total_nconn_count
    BY <1>1, <1>2, <1>3, CreatedCounts
  <1>5. \A d \in Conns : conn'[d] = IF d \in new THEN NewConn(msec) ELSE conn[d]
    BY <1>1 DEF ConnsCreated
  <1>6. \A d \in Conns \ new : Moves(conn[d], conn'[d])
    BY <1>3, <1>5, StandsStill
  <1>7. \A d \in Conns : Quiet(conn[d], conn'[d])
    BY <1>3, <1>5, StandsStill, NewIsQuiet
  <1>8. Opens(new)
    BY <1>1, <1>4, <1>5, <1>6 DEF Opens
  <1> QED
    BY <1>4, <1>7, <1>8 DEF StepFacts, Counts, AllQuiet

\* The start of forced cleanup marks every connection dead.
LEMMA CleanupTimerFacts ==
    ASSUME IInv, CleanupTimer
    PROVE  /\ StepFacts
           /\ mgr_state = "CLEANUP" => \A c \in Conns : conn[c].live => conn'[c].is_dead
  <1> DEFINE g == [c \in Conns |-> IF conn[c].live THEN ScheduleDestroy(conn[c])
                                   ELSE conn[c]]
  <1>1. \A c \in Conns : conn[c] \in ConnType
    BY DEF IInv, StateType
  <1>2. ASSUME NEW c \in Conns
        PROVE  /\ Moves(conn[c], g[c]) /\ Quiet(conn[c], g[c])
               /\ conn[c].live => g[c].is_dead
    BY <1>1, DestroyMoves, StandsStill
  <1>3. /\ stats' = stats
        /\ IF mgr_state = "CLEANUP" THEN conn' = g ELSE conn' = conn
    BY DEF CleanupTimer
  <1> HIDE DEF g
  <1>4. \A c \in Conns : Moves(conn[c], conn'[c]) /\ Quiet(conn[c], conn'[c])
    BY <1>1, <1>2, <1>3, StandsStill
  <1> QED
    BY <1>2, <1>3, <1>4, AllMoveFacts

\* A poll.
LEMMA PollFacts ==
    ASSUME IInv, NEW batch, Poll(batch)
    PROVE  StepFacts
  <1> DEFINE fired(c) == {e \in conn[c].armed : <<c, e>> \in batch}
             g(c) == [conn[c] EXCEPT !.active = fired(c),
                                     !.armed = @ \ (fired(c) \ {"bev"})]
  <1>1. /\ conn \in [Conns -> ConnType] /\ \A c \in Conns : ConnOK(conn[c])
        /\ \A c \in Conns : conn[c].active = {}
    BY DEF IInv, StateType, ConnsOK, Poll, QueueEmpty
  <1>2. conn' = [c \in Conns |-> g(c)] /\ stats' = stats
    BY DEF Poll
  <1>3. ASSUME NEW c \in Conns
        PROVE  Moves(conn[c], g(c)) /\ Quiet(conn[c], g(c))
    <2> DEFINE S == fired(c)
    <2>1. S \in SUBSET conn[c].armed
      OBVIOUS
    <2>2. conn[c] \in ConnType /\ ConnOK(conn[c]) /\ conn[c].active = {}
      BY <1>1
    <2> HIDE DEF S
    <2> QED
      BY <2>1, <2>2, PollMoves DEF S
  <1> HIDE DEF g
  <1> QED
    BY <1>2, <1>3, AllMoveFacts

\* Whatever the step, this is all it does to connections and counters.
LEMMA EveryStep ==
    ASSUME IInv, TimeoutsOwned, [Next]_vars
    PROVE  StepFacts
  <1>1. CASE Start
    BY <1>1, StillFacts DEF Start
  <1>2. CASE PollSome
    BY <1>2, PollFacts DEF PollSome
  <1>3. CASE TimerEvent
    <2>1. CASE TimerRunning
      BY <2>1, TimerRunningFacts
    <2>2. CASE CleanupTimer
      BY <2>2, CleanupTimerFacts
    <2>3. CASE TimerWaiting \/ TimerCleanupWaiting \/ TimerIdle \/ StatTimer
                 \/ RunningTimer \/ WaitingTimer
      <3>1. UNCHANGED <<conn, stats>>
        BY <2>3 DEF TimerWaiting, TimerCleanupWaiting, TimerIdle, StatTimer,
                    RunningTimer, WaitingTimer
      <3> QED
        BY <3>1, StillFacts
    <2> QED
      BY <1>3, <2>1, <2>2, <2>3 DEF TimerEvent
  <1>4. ASSUME NEW c \in Conns, ConnEvent(c)
        PROVE  StepFacts
    BY <1>4, ConnEventFacts
  <1>5. CASE Still
    BY <1>5, StillFacts DEF Still
  <1> QED
    BY <1>1, <1>2, <1>3, <1>4, <1>5, NextCases DEF Dispatch

------------------------------------------------------------------------------
(* The user's limits                                                       *)

\* A connection's requests, a queued one included, are within its limit.
WithinQuota(k) ==
    /\ ~cfg.http_keepalive => Outstanding(k) <= 1
    /\ cfg.target_request_count > 0 => Outstanding(k) <= cfg.target_request_count

QuotaInv ==
    /\ TimeoutsOwned
    /\ cfg.target_total_nconn_count > 0 =>
           stats.conn_count <= cfg.target_total_nconn_count
    /\ \A c \in Conns : WithinQuota(conn[c])

\* A new connection is within its limits, and has no timer.
LEMMA NewWithinQuota ==
    ASSUME cfg \in Configs
    PROVE  LET k == NewConn(cfg.wait_time_pre_http_req_msec)
           IN  WithinQuota(k) /\ TimeoutOwned(k)
  <1> DEFINE k == NewConn(cfg.wait_time_pre_http_req_msec)
  <1>1. /\ k \in ConnType /\ k.cur_req_count = 0
        /\ ~k.req /\ ~Scheduled(k, "timeout")
    BY CfgTypes, NewConnOK
  <1> HIDE DEF k
  <1>2. Outstanding(k) \in {0, 1}
    BY <1>1 DEF Outstanding
  <1>3. cfg.target_request_count \in Int
    BY CfgTypes
  <1>4. WithinQuota(k)
    BY <1>2, <1>3 DEF WithinQuota
  <1>5. TimeoutOwned(k)
    BY <1>1 DEF TimeoutOwned, Scheduled
  <1> QED
    BY <1>4, <1>5 DEF k

\* A connection that moves stays within its limits.
LEMMA MovesWithinQuota ==
    ASSUME cfg \in Configs, NEW k \in ConnType, NEW j \in ConnType,
           Moves(k, j), WithinQuota(k)
    PROVE  WithinQuota(j)
  <1>1. /\ Outstanding(k) \in Nat /\ Outstanding(j) \in Nat
        /\ k.cur_req_count \in Nat /\ cfg.target_request_count \in Int
    BY OutstandingType, CfgTypes DEF ConnType
  <1>2. CASE Outstanding(j) <= Outstanding(k)
    BY <1>1, <1>2 DEF WithinQuota
  <1>3. CASE /\ ConnCheckCreateHttpRequest(k)
             /\ Outstanding(j) <= k.cur_req_count + 1
    BY <1>1, <1>3 DEF WithinQuota, ConnCheckCreateHttpRequest
  <1> QED
    BY <1>2, <1>3 DEF Moves

\* The configuration is fixed when the thread starts.
LEMMA CfgFixed ==
    ASSUME [Next]_vars
    PROVE  cfg' = cfg
  <1>1. ASSUME NEW c \in Conns, ConnEvent(c)
        PROVE  cfg' = cfg
    BY <1>1 DEF ConnEvent, HttpReqEvent, DestroyEvent, ConnTimeout, BevQuiet,
                ResponseProgress, ResponseDone, ParserError, SocketError,
                UpstreamClosed
  <1>2. CASE TimerEvent
    BY <1>2 DEF TimerEvent, TimerRunning, TimerWaiting, TimerCleanupWaiting,
                TimerIdle, StatTimer, RunningTimer, WaitingTimer, CleanupTimer
  <1>3. CASE Start \/ PollSome \/ Still
    BY <1>3 DEF Start, PollSome, Poll, Still
  <1> QED
    BY <1>1, <1>2, <1>3, NextCases DEF Dispatch

\* The limits hold in every state, whatever is queued.
LEMMA QuotaInvariant == Spec => [](IInv /\ QuotaInv)
  <1>1. Init => QuotaInv
    <2> SUFFICES ASSUME Init PROVE QuotaInv
      OBVIOUS
    <2>1. \A c \in Conns : conn[c] = FreeConn
      BY DEF Init
    <2>2. /\ FreeConn.armed = {} /\ FreeConn.active = {}
          /\ FreeConn.cur_req_count = 0 /\ stats.conn_count = 0
      BY DEF FreeConn, Init, StatsZero
    <2>3. Outstanding(FreeConn) = 0 /\ TimeoutOwned(FreeConn)
      BY <2>2 DEF Outstanding, Scheduled, TimeoutOwned
    <2>4. /\ cfg.target_total_nconn_count \in Int
          /\ cfg.target_request_count \in Int
      BY CfgTypes DEF Init
    <2> QED
      BY <2>1, <2>2, <2>3, <2>4 DEF QuotaInv, TimeoutsOwned, WithinQuota
  <1>2. IInv /\ IInv' /\ QuotaInv /\ [Next]_vars => QuotaInv'
    <2> SUFFICES ASSUME IInv, IInv', QuotaInv, [Next]_vars PROVE QuotaInv'
      OBVIOUS
    <2>1. cfg' = cfg /\ cfg \in Configs
          /\ \A c \in Conns : conn[c] \in ConnType /\ conn'[c] \in ConnType
      BY CfgFixed DEF IInv, StateType
    <2>2. PICK new : Opens(new)
      BY EveryStep DEF QuotaInv, StepFacts
    <2>3. ASSUME NEW c \in Conns
          PROVE  WithinQuota(conn'[c]) /\ TimeoutOwned(conn'[c])
      <3>1. WithinQuota(conn[c]) /\ TimeoutOwned(conn[c])
        BY DEF QuotaInv, TimeoutsOwned
      <3>2. CASE c \in new
        BY <2>1, <2>2, <3>2, NewWithinQuota DEF Opens
      <3>3. CASE c \notin new
        <4>1. Moves(conn[c], conn'[c])
          BY <2>2, <3>3 DEF Opens
        <4>2. WithinQuota(conn'[c])
          BY <2>1, <3>1, <4>1, MovesWithinQuota
        <4> QED
          BY <3>1, <4>1, <4>2 DEF Moves
      <3> QED
        BY <3>2, <3>3
    <2>4. cfg.target_total_nconn_count > 0 =>
            stats'.conn_count <= cfg.target_total_nconn_count
      <3>1. CASE new = {}
        <4>1. stats'.conn_count = stats.conn_count
          BY <2>2, <3>1, FS_EmptySet DEF Opens, IInv, StateType, StatsType
        <4> QED
          BY <4>1 DEF QuotaInv
      <3>2. CASE new # {}
        BY <2>2, <3>2 DEF Opens
      <3> QED
        BY <3>1, <3>2
    <2> QED
      BY <2>1, <2>3, <2>4 DEF QuotaInv, TimeoutsOwned, WithinQuota
  <1>3. TypeOK /\ ConnsOK /\ NconnMatchesList => IInv
    BY DEF IInv, StateType, TypeOK
  <1> QED
    BY <1>1, <1>2, <1>3, MgrInvariant, PTL DEF Spec

\* Neither a connection nor the run exceeds what the user allows: a request
\* queued before a limit is reached was counted against it.
THEOREM LimitsKept == Spec => []QuotasRespected
  <1>1. IInv /\ QuotaInv => QuotasRespected
    <2> SUFFICES ASSUME IInv, QuotaInv PROVE QuotasRespected
      OBVIOUS
    <2>1. ASSUME NEW c \in Conns
          PROVE  conn[c].cur_req_count <= Outstanding(conn[c])
                   /\ Outstanding(conn[c]) \in Nat /\ conn[c].cur_req_count \in Nat
      <3>1. conn[c] \in ConnType
        BY DEF IInv, StateType
      <3> QED
        BY <3>1 DEF Outstanding, ConnType
    <2>2. cfg.target_request_count \in Int
      BY CfgTypes DEF IInv, StateType
    <2> QED
      BY <2>1, <2>2 DEF QuotaInv, WithinQuota, QuotasRespected
  <1> QED
    BY <1>1, QuotaInvariant, PTL

------------------------------------------------------------------------------
(* Accounting for requests                                                 *)

\* The requests whose own timer may still be counted.
TimingOut == {c \in Conns : MayTimeOut(conn[c])}

\* Every request is counted as sent, and at most twice as over: once by its own
\* timer, once by whatever ends it.
AccountInv ==
    /\ stats.req_count_ok + stats.req_count_err + Cardinality(InFlight)
         <= stats.req_count
    /\ stats.req_count_ok = TypeSum(stats)
    /\ stats.req_count_ok + stats.req_count_err + stats.req_count_timeout
          + Cardinality(InFlight) + Cardinality(TimingOut)
         <= 2 * stats.req_count

\* Sets of connections that grow or shrink by one.
LEMMA OneMoreOrLess ==
    ASSUME NEW T \in SUBSET Conns, NEW S \in SUBSET Conns
    PROVE  /\ Cardinality(S) \in Nat /\ Cardinality(T) \in Nat
           /\ S \subseteq T => Cardinality(S) <= Cardinality(T)
           /\ \A c \in Conns :
                /\ S \subseteq T \cup {c} => Cardinality(S) <= Cardinality(T) + 1
                /\ c \in T /\ S \subseteq T \ {c} =>
                     Cardinality(S) <= Cardinality(T) - 1
  <1>1. /\ IsFiniteSet(S) /\ IsFiniteSet(T)
        /\ Cardinality(S) \in Nat /\ Cardinality(T) \in Nat
    BY ConnsAssumption, FS_Subset, FS_CardinalityType
  <1>2. S \subseteq T => Cardinality(S) <= Cardinality(T)
    BY <1>1, FS_Subset
  <1>3. ASSUME NEW c \in Conns, S \subseteq T \cup {c}
        PROVE  Cardinality(S) <= Cardinality(T) + 1
    <2>1. /\ IsFiniteSet(T \cup {c})
          /\ Cardinality(T \cup {c}) = IF c \in T THEN Cardinality(T)
                                                  ELSE Cardinality(T) + 1
      BY <1>1, FS_AddElement
    <2>2. Cardinality(S) <= Cardinality(T \cup {c})
      BY <1>3, <2>1, FS_Subset
    <2> QED
      BY <1>1, <2>1, <2>2
  <1>4. ASSUME NEW c \in Conns, c \in T, S \subseteq T \ {c}
        PROVE  Cardinality(S) <= Cardinality(T) - 1
    <2>1. IsFiniteSet(T \ {c}) /\ Cardinality(T \ {c}) = Cardinality(T) - 1
      BY <1>1, <1>4, FS_RemoveElement
    <2>2. Cardinality(S) <= Cardinality(T \ {c})
      BY <1>4, <2>1, FS_Subset
    <2> QED
      BY <2>1, <2>2
  <1> QED
    BY <1>1, <1>2, <1>3, <1>4

\* The counters of requests are numbers.
LEMMA CountTypes ==
    ASSUME NEW s \in StatsType
    PROVE  /\ s.req_count \in Nat /\ s.req_count_ok \in Nat
           /\ s.req_count_err \in Nat /\ s.req_count_timeout \in Nat
           /\ TypeSum(s) \in Nat
  <1>1. s.req_statustype \in [StatusTypes -> Nat]
    BY DEF StatsType
  <1>2. TypeSum(s) \in Nat
    BY <1>1 DEF TypeSum, StatusTypes
  <1> QED
    BY <1>2 DEF StatsType

\* What a step counts keeps the account right.
LEMMA AccountStep ==
    ASSUME IInv, IInv', AccountInv, Counts
    PROVE  AccountInv'
  <1> DEFINE F == InFlight
             G == InFlight'
             M == TimingOut
             N == TimingOut'
  <1>1. /\ F \in SUBSET Conns /\ G \in SUBSET Conns
        /\ M \in SUBSET Conns /\ N \in SUBSET Conns
    BY DEF InFlight, TimingOut
  <1>2. /\ stats \in StatsType /\ stats' \in StatsType
    BY DEF IInv, StateType
  <1>3. /\ stats.req_count \in Nat /\ stats.req_count_ok \in Nat
        /\ stats.req_count_err \in Nat /\ stats.req_count_timeout \in Nat
        /\ TypeSum(stats) \in Nat
    BY <1>2, CountTypes
  <1>4. /\ Cardinality(F) \in Nat /\ Cardinality(G) \in Nat
        /\ Cardinality(M) \in Nat /\ Cardinality(N) \in Nat
    BY <1>1, OneMoreOrLess
  <1>5. AccountInv' =
          /\ stats'.req_count_ok + stats'.req_count_err + Cardinality(G)
               <= stats'.req_count
          /\ stats'.req_count_ok = TypeSum(stats')
          /\ stats'.req_count_ok + stats'.req_count_err + stats'.req_count_timeout
                + Cardinality(G) + Cardinality(N) <= 2 * stats'.req_count
    BY DEF AccountInv, TypeSum
  <1>6. /\ stats.req_count_ok + stats.req_count_err + Cardinality(F)
             <= stats.req_count
        /\ stats.req_count_ok = TypeSum(stats)
        /\ stats.req_count_ok + stats.req_count_err + stats.req_count_timeout
              + Cardinality(F) + Cardinality(M) <= 2 * stats.req_count
    BY DEF AccountInv
  <1>7. /\ \A c \in Conns : (c \in F <=> conn[c].req) /\ (c \in G <=> conn'[c].req)
        /\ \A c \in Conns : /\ c \in M <=> MayTimeOut(conn[c])
                            /\ c \in N <=> MayTimeOut(conn'[c])
    BY DEF InFlight, TimingOut, MayTimeOut
  <1>8. stats'.req_statustype = stats.req_statustype => TypeSum(stats') = TypeSum(stats)
    BY DEF TypeSum
  <1> HIDE DEF F, G, M, N
  <1>9. CASE SameCounts(stats', stats) /\ AllQuiet
    <2>1. G \subseteq F /\ N \subseteq M
      BY <1>1, <1>7, <1>9 DEF AllQuiet, Quiet
    <2>2. Cardinality(G) <= Cardinality(F) /\ Cardinality(N) <= Cardinality(M)
      BY <1>1, <2>1, OneMoreOrLess
    <2> QED
      BY <1>3, <1>4, <1>5, <1>6, <1>8, <1>9, <2>2 DEF SameCounts
  <1>10. ASSUME NEW c \in Conns, CountsOne(c)
         PROVE  AccountInv'
    <2>1. \A d \in Conns \ {c} : Quiet(conn[d], conn'[d])
      BY <1>10 DEF CountsOne, OthersQuiet
    <2>2. CASE Sent
      <3>1. G \subseteq F \cup {c} /\ N \subseteq M \cup {c}
        BY <1>1, <1>7, <2>1 DEF Quiet
      <3>2. /\ Cardinality(G) <= Cardinality(F) + 1
            /\ Cardinality(N) <= Cardinality(M) + 1
        BY <1>1, <3>1, OneMoreOrLess
      <3> QED
        BY <1>3, <1>4, <1>5, <1>6, <1>8, <2>2, <3>2 DEF Sent
    <2>3. CASE conn[c].req /\ ~conn'[c].req /\ (Answered \/ Failed \/ TimedOut)
      <3>1. c \in F /\ G \subseteq F \ {c}
        BY <1>1, <1>7, <2>1, <2>3 DEF Quiet
      <3>2. N \subseteq M
        BY <1>1, <1>7, <2>1, <2>3 DEF Quiet, MayTimeOut
      <3>3. /\ Cardinality(G) <= Cardinality(F) - 1
            /\ Cardinality(N) <= Cardinality(M)
        BY <1>1, <3>1, <3>2, OneMoreOrLess
      <3>4. CASE Answered
        BY <1>3, <1>4, <1>5, <1>6, <3>3, <3>4 DEF Answered
      <3>5. CASE Failed
        BY <1>3, <1>4, <1>5, <1>6, <1>8, <3>3, <3>5 DEF Failed
      <3>6. CASE TimedOut
        BY <1>3, <1>4, <1>5, <1>6, <1>8, <3>3, <3>6 DEF TimedOut
      <3> QED
        BY <2>3, <3>4, <3>5, <3>6
    <2>4. CASE /\ MayTimeOut(conn[c]) /\ ~MayTimeOut(conn'[c])
               /\ Quiet(conn[c], conn'[c])
               /\ TimedOut
      <3>1. G \subseteq F
        BY <1>1, <1>7, <2>1, <2>4 DEF Quiet
      <3>2. c \in M /\ N \subseteq M \ {c}
        BY <1>1, <1>7, <2>1, <2>4 DEF Quiet
      <3>3. /\ Cardinality(G) <= Cardinality(F)
            /\ Cardinality(N) <= Cardinality(M) - 1
        BY <1>1, <3>1, <3>2, OneMoreOrLess
      <3> QED
        BY <1>3, <1>4, <1>5, <1>6, <1>8, <2>4, <3>3 DEF TimedOut
    <2> QED
      BY <1>10, <2>2, <2>3, <2>4 DEF CountsOne
  <1> QED
    BY <1>9, <1>10 DEF Counts

\* No request is counted twice as done, and none more than twice at all,
\* whichever of its response, an error, either timer and the end of its
\* connection comes first.
THEOREM RequestsAddUp == Spec => []RequestsAccounted
  <1>1. Init => AccountInv
    <2> SUFFICES ASSUME Init PROVE AccountInv
      OBVIOUS
    <2>1. \A c \in Conns : ~conn[c].req
      BY DEF Init, FreeConn
    <2>2. InFlight = {} /\ TimingOut = {}
      BY <2>1 DEF InFlight, TimingOut, MayTimeOut
    <2>3. /\ stats.req_count = 0 /\ stats.req_count_ok = 0
          /\ stats.req_count_err = 0 /\ stats.req_count_timeout = 0
          /\ TypeSum(stats) = 0
      BY DEF Init, StatsZero, TypeSum, StatusTypes
    <2> QED
      BY <2>2, <2>3, FS_EmptySet DEF AccountInv
  <1>2. IInv /\ IInv' /\ QuotaInv /\ AccountInv /\ [Next]_vars => AccountInv'
    BY EveryStep, AccountStep DEF QuotaInv, StepFacts
  <1>3. IInv /\ AccountInv => RequestsAccounted
    <2> SUFFICES ASSUME IInv, AccountInv PROVE RequestsAccounted
      OBVIOUS
    <2>1. /\ stats.req_count \in Nat /\ stats.req_count_ok \in Nat
          /\ stats.req_count_err \in Nat /\ stats.req_count_timeout \in Nat
      BY CountTypes DEF IInv, StateType
    <2>2. Cardinality(InFlight) \in Nat /\ Cardinality(TimingOut) \in Nat
      BY OneMoreOrLess DEF InFlight, TimingOut
    <2> QED
      BY <2>1, <2>2 DEF AccountInv, TypeSum, RequestsAccounted
  <1> QED
    BY <1>1, <1>2, <1>3, QuotaInvariant, PTL DEF Spec
==============================================================================
