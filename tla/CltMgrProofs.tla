---------------------------- MODULE CltMgrProofs -----------------------------
(***************************************************************************)
(* The manager keeps every connection in good order, and its gauge of open *)
(* connections right, for every pool of connections, every configuration   *)
(* and every value of the bounds.                                          *)
(***************************************************************************)
EXTENDS CltMgr, CltConnProofs, FiniteSetTheorems

\* The configuration's fields have their types.
LEMMA CfgTypes ==
    ASSUME cfg \in Configs
    PROVE  /\ cfg.target_nconn \in Nat /\ cfg.burst_conn \in Nat
           /\ cfg.target_request_rate \in Int
           /\ cfg.target_request_count \in Int
           /\ cfg.target_global_request_count \in Int
           /\ cfg.target_total_nconn_count \in Int
           /\ cfg.running_period_sec \in Int
           /\ cfg.wait_time_pre_http_req_msec \in Int
           /\ cfg.http_keepalive \in BOOLEAN
  BY ConfigsAssumption

\* Truncating division by a positive number gives an integer.
LEMMA CDivType ==
    ASSUME NEW a \in Int, NEW b \in Nat \ {0}
    PROVE  CDiv(a, b) \in Int
  BY DEF CDiv

\* A pacer update keeps the pacer's fields integers.
LEMMA PacerUpdateType ==
    ASSUME NEW r \in Int, NEW p \in PacerType
    PROVE  PacerUpdate(r, p) \in PacerType
  <1> DEFINE t == IntervalShare(r)
             e == Clamp(p.error - p.cur * REQRATE_FIXED_MULT + t, t)
  <1>1. t \in Int
    BY CDivType DEF IntervalShare, REQRATE_INT, REQRATE_FIXED_MULT
  <1>2. p.error \in Int /\ p.cur \in Int
    BY DEF PacerType
  <1> HIDE DEF t
  <1>3. e \in Int
    BY <1>1, <1>2 DEF Clamp, REQRATE_FIXED_MULT
  <1> HIDE DEF e
  <1>4. CDiv(r, REQRATE_INT) + CDiv(e, REQRATE_FIXED_MULT) \in Int
    BY <1>3, CDivType DEF REQRATE_INT, REQRATE_FIXED_MULT
  <1>5. PacerUpdate(r, p) = [error |-> e, cur |-> 0,
          target |-> CDiv(r, REQRATE_INT) + CDiv(e, REQRATE_FIXED_MULT)]
    BY DEF PacerUpdate, t, e
  <1> QED
    BY <1>3, <1>4, <1>5 DEF PacerType

\* Taking permits keeps the pacer's fields integers.
LEMMA PacerAddType ==
    ASSUME NEW r \in Int, NEW p \in PacerType, NEW n \in Nat
    PROVE  PacerAdd(r, p, n) \in PacerType
  BY DEF PacerAdd, PacerType

\* The counters after n connections were opened.
LEMMA StatsOpenedFacts ==
    ASSUME NEW s \in StatsType, NEW n \in Nat
    PROVE  /\ StatsOpened(s, n) \in StatsType
           /\ StatsOpened(s, n).nconn = s.nconn + n
           /\ StatsOpened(s, n).conn_count = s.conn_count + n
  <1> DEFINE a == [s EXCEPT !.nconn = @ + n]
             b == [a EXCEPT !.conn_count = @ + n]
  <1>1. /\ a \in StatsType /\ a.nconn = s.nconn + n
        /\ a.conn_count = s.conn_count
    BY DEF StatsType
  <1> HIDE DEF a
  <1>2. /\ b \in StatsType /\ b.nconn = a.nconn
        /\ b.conn_count = a.conn_count + n
    BY <1>1 DEF StatsType
  <1>3. StatsOpened(s, n) = b
    BY DEF StatsOpened, a
  <1> HIDE DEF b
  <1> QED
    BY <1>1, <1>2, <1>3

\* The connections on the list, in the connection objects f.
LiveIn(f) == {c \in Conns : f[c].live}

\* One round of clt_mgr_conn_try_create: the new connections are in good order
\* and counted, and target_nconn is not exceeded.
LEMMA CreatedFacts ==
    ASSUME cfg \in Configs,
           NEW n \in Nat, NEW s \in StatsType, NEW p \in PacerType,
           NEW f \in [Conns -> ConnType], \A c \in Conns : ConnOK(f[c]),
           NEW new \in SUBSET Conns, TryCreate(n, s, p, new),
           s.nconn <= cfg.target_nconn
    PROVE  /\ Cardinality(new) \in Nat
           /\ ConnsCreated(f, new) \in [Conns -> ConnType]
           /\ \A c \in Conns : ConnOK(ConnsCreated(f, new)[c])
           /\ LiveIn(ConnsCreated(f, new)) = LiveIn(f) \cup new
           /\ StatsCreated(n, s, p, new) \in StatsType
           /\ StatsCreated(n, s, p, new).nconn = s.nconn + Cardinality(new)
           /\ s.nconn + Cardinality(new) <= cfg.target_nconn
           /\ PacerOpened(p, Cardinality(new)) \in PacerType
  <1> DEFINE m == Cardinality(new)
             g == ConnsCreated(f, new)
  <1>1. m \in Nat /\ IsFiniteSet(new)
    BY ConnsAssumption, FS_Subset, FS_CardinalityType
  <1>2. /\ NewConn(cfg.wait_time_pre_http_req_msec) \in ConnType
        /\ ConnOK(NewConn(cfg.wait_time_pre_http_req_msec))
        /\ NewConn(cfg.wait_time_pre_http_req_msec).live
    BY CfgTypes, NewConnOK
  <1>3. /\ g \in [Conns -> ConnType]
        /\ \A c \in Conns : g[c] = IF c \in new
             THEN NewConn(cfg.wait_time_pre_http_req_msec) ELSE f[c]
    BY <1>2 DEF ConnsCreated
  <1> HIDE DEF g
  <1>4. \A c \in Conns : ConnOK(g[c])
    BY <1>2, <1>3
  <1>5. LiveIn(g) = LiveIn(f) \cup new
    BY <1>2, <1>3 DEF LiveIn
  <1> HIDE DEF m
  <1>6. /\ StatsOpened(s, m) \in StatsType
        /\ StatsOpened(s, m).nconn = s.nconn + m
    BY <1>1, StatsOpenedFacts
  <1>7. /\ StatsCreated(n, s, p, new) \in StatsType
        /\ StatsCreated(n, s, p, new).nconn = s.nconn + m
    <2> DEFINE o == StatsOpened(s, m)
    <2>1. StatsCreated(n, s, p, new) = [o EXCEPT !.nconn_create_failed =
            IF CreateFailed(n, s, p, new) THEN @ + 1 ELSE @]
      BY DEF StatsCreated, m
    <2> HIDE DEF o
    <2>2. o \in StatsType /\ o.nconn = s.nconn + m
      BY <1>6 DEF o
    <2> QED
      BY <2>1, <2>2 DEF StatsType
  <1>8. s.nconn + m <= cfg.target_nconn
    <2>0. s.nconn \in Int /\ cfg.target_nconn \in Nat
      BY CfgTypes DEF StatsType
    <2>1. CASE m = 0
      BY <2>0, <2>1
    <2>2. CASE m > 0
      <3>1. m - 1 \in 0..(m - 1) /\ m - 1 \in Nat
        BY <2>2, <1>1
      <3>2. MayCreate(s, p, m - 1)
        BY <3>1 DEF TryCreate, m
      <3>3. StatsOpened(s, m - 1).nconn < cfg.target_nconn
        BY <3>2 DEF MayCreate, CheckCreateConn
      <3>4. StatsOpened(s, m - 1).nconn = s.nconn + (m - 1)
        BY <3>1, StatsOpenedFacts
      <3> QED
        BY <3>3, <3>4, <2>0, <1>1
    <2> QED
      BY <2>1, <2>2, <1>1
  <1>9. PacerOpened(p, m) \in PacerType
    BY <1>1, CfgTypes, PacerAddType DEF PacerOpened
  <1> QED
    BY <1>1, <1>3, <1>4, <1>5, <1>7, <1>8, <1>9 DEF m, g

\* One connection changes, and stays on the list or off it as it was.
LEMMA OneConnFacts ==
    ASSUME NEW f \in [Conns -> ConnType], \A c \in Conns : ConnOK(f[c]),
           NEW c \in Conns, NEW k \in ConnType, ConnOK(k)
    PROVE  LET g == [f EXCEPT ![c] = k]
           IN  /\ g \in [Conns -> ConnType]
               /\ \A d \in Conns : ConnOK(g[d])
               /\ k.live = f[c].live => LiveIn(g) = LiveIn(f)
               /\ ~k.live => LiveIn(g) = LiveIn(f) \ {c}
  BY DEF LiveIn

\* Disjoint sets of connections add up.
LEMMA CardinalityFacts ==
    ASSUME NEW S \in SUBSET Conns, NEW new \in SUBSET (Conns \ S)
    PROVE  /\ Cardinality(S) \in Nat /\ Cardinality(new) \in Nat
           /\ Cardinality(S \cup new) = Cardinality(S) + Cardinality(new)
           /\ \A c \in S : Cardinality(S \ {c}) = Cardinality(S) - 1
  <1>1. IsFiniteSet(S) /\ IsFiniteSet(new)
    BY ConnsAssumption, FS_Subset
  <1>2. S \cap new = {}
    OBVIOUS
  <1>3. Cardinality(S \cap new) = 0
    BY <1>2, FS_EmptySet
  <1>4. Cardinality(S) \in Nat /\ Cardinality(new) \in Nat
    BY <1>1, FS_CardinalityType
  <1>5. Cardinality(S \cup new) = Cardinality(S) + Cardinality(new) - Cardinality(S \cap new)
    BY <1>1, FS_Union
  <1>6. \A c \in S : Cardinality(S \ {c}) = Cardinality(S) - 1
    BY <1>1, FS_RemoveElement
  <1> QED
    BY <1>3, <1>4, <1>5, <1>6

------------------------------------------------------------------------------
\* The types of everything but `died`.
StateType ==
    /\ cfg \in Configs
    /\ mgr_state \in States
    /\ conn \in [Conns -> ConnType]
    /\ armed \subseteq Timers
    /\ active \subseteq Timers
    /\ stats \in StatsType
    /\ pacer \in PacerType
    /\ reported \in BOOLEAN

\* The inductive invariant.
IInv == StateType /\ ConnsOK /\ NconnMatchesList

\* Nothing happens, or the process dies.
Still ==
    UNCHANGED <<cfg, mgr_state, conn, armed, active, stats, pacer, reported>>

\* The steps of the manager as the proofs tell them apart.
LEMMA NextCases ==
    ASSUME [Next]_vars
    PROVE  Start \/ PollSome \/ Dispatch \/ Still
  <1>1. CASE UNCHANGED vars
    BY <1>1 DEF vars, Still
  <1>2. ASSUME NEW c \in Conns, UseFreedRequest(c)
        PROVE  Still
    BY <1>2 DEF UseFreedRequest, Still
  <1> QED
    BY <1>1, <1>2 DEF Next, ThreadDone

\* A connection closes (its fini hook ran): what is left of it is k, and the
\* caller frees it if `gone` is 1.  At most one replacement is opened, and the
\* gauge is right afterwards.
LEMMA ConnClosingStep ==
    ASSUME IInv, NEW c \in Conns, conn[c].live,
           NEW k \in ConnType, ConnOK(k),
           NEW s \in StatsType, s.nconn = stats.nconn,
           NEW p \in PacerType, NEW gone \in {0, 1},
           k.live <=> gone = 0,
           ConnClosing(c, k, s, p, gone)
    PROVE  /\ conn' \in [Conns -> ConnType]
           /\ stats' \in StatsType
           /\ pacer' \in PacerType
           /\ \A d \in Conns : ConnOK(conn'[d])
           /\ stats'.nconn = Cardinality(LiveIn(conn'))
           /\ stats'.nconn <= cfg.target_nconn
  <1> DEFINE t == [s EXCEPT !.conn_closing_count = @ + 1]
             g == [conn EXCEPT ![c] = k]
  <1>1. PICK new \in SUBSET (Conns \ Live) :
          /\ TryCreate(1, t, p, new)
          /\ conn' = ConnsCreated(g, new)
          /\ stats' = [StatsCreated(1, t, p, new) EXCEPT !.nconn = @ - gone]
          /\ pacer' = PacerOpened(p, Cardinality(new))
    BY DEF ConnClosing
  <1>2. t \in StatsType /\ t.nconn = stats.nconn
    BY DEF StatsType
  <1> HIDE DEF t
  <1>3. /\ g \in [Conns -> ConnType] /\ \A d \in Conns : ConnOK(g[d])
        /\ gone = 0 => LiveIn(g) = Live
        /\ gone = 1 => LiveIn(g) = Live \ {c}
    BY OneConnFacts DEF IInv, StateType, ConnsOK, Live, LiveIn, ConnType
  <1> HIDE DEF g
  <1>4. cfg \in Configs /\ t.nconn <= cfg.target_nconn
        /\ stats.nconn = Cardinality(Live)
    BY <1>2 DEF IInv, StateType, NconnMatchesList
  <1>5. /\ Cardinality(new) \in Nat
        /\ ConnsCreated(g, new) \in [Conns -> ConnType]
        /\ \A d \in Conns : ConnOK(ConnsCreated(g, new)[d])
        /\ LiveIn(ConnsCreated(g, new)) = LiveIn(g) \cup new
        /\ StatsCreated(1, t, p, new) \in StatsType
        /\ StatsCreated(1, t, p, new).nconn = t.nconn + Cardinality(new)
        /\ t.nconn + Cardinality(new) <= cfg.target_nconn
        /\ PacerOpened(p, Cardinality(new)) \in PacerType
    BY <1>1, <1>2, <1>3, <1>4, CreatedFacts
  <1>6. /\ stats' \in StatsType
        /\ stats'.nconn = t.nconn + Cardinality(new) - gone
    <2> DEFINE o == StatsCreated(1, t, p, new)
    <2>1. o \in StatsType /\ o.nconn = t.nconn + Cardinality(new)
      BY <1>5
    <2>2. stats' = [o EXCEPT !.nconn = @ - gone]
      BY <1>1
    <2>3. gone \in Int
      OBVIOUS
    <2> HIDE DEF o
    <2>4. /\ [o EXCEPT !.nconn = @ - gone] \in StatsType
          /\ [o EXCEPT !.nconn = @ - gone].nconn = o.nconn - gone
      BY <2>1, <2>3 DEF StatsType
    <2>5. stats' \in StatsType /\ stats'.nconn = o.nconn - gone
      BY <2>2, <2>4, Zenon
    <2>6. t.nconn \in Int /\ Cardinality(new) \in Int
      BY <1>2, <1>5 DEF IInv, StateType, StatsType
    <2> QED
      BY <2>1, <2>3, <2>5, <2>6
  <1>7. Cardinality(LiveIn(conn')) = Cardinality(Live) - gone + Cardinality(new)
    <2>1. Live \in SUBSET Conns /\ c \in Live
      BY DEF Live
    <2>2. CASE gone = 0
      <3>1. Cardinality(Live \cup new) = Cardinality(Live) + Cardinality(new)
            /\ Cardinality(Live) \in Nat
        BY <2>1, <1>1, CardinalityFacts
      <3>2. LiveIn(conn') = Live \cup new
        BY <2>2, <1>1, <1>3, <1>5
      <3> QED
        BY <2>2, <3>1, <3>2, <1>5
    <2>3. CASE gone = 1
      <3>1. Live \ {c} \in SUBSET Conns /\ new \in SUBSET (Conns \ (Live \ {c}))
        BY <2>1
      <3>2. Cardinality(Live \ {c}) = Cardinality(Live) - 1
        BY <2>1, <1>1, CardinalityFacts
      <3>3. Cardinality((Live \ {c}) \cup new)
              = Cardinality(Live \ {c}) + Cardinality(new)
        BY <3>1, CardinalityFacts
      <3>4. Cardinality(Live) \in Nat
        BY <2>1, <1>1, CardinalityFacts
      <3>5. LiveIn(conn') = (Live \ {c}) \cup new
        BY <2>3, <1>1, <1>3, <1>5
      <3> QED
        BY <2>3, <3>2, <3>3, <3>4, <3>5, <1>5
    <2> QED
      BY <2>2, <2>3
  <1>8. Cardinality(Live) \in Nat /\ cfg.target_nconn \in Nat
    BY <1>4, CfgTypes, CardinalityFacts DEF Live
  <1> QED
    BY <1>1, <1>2, <1>4, <1>5, <1>6, <1>7, <1>8

\* The manager's counters may change freely as long as nconn does not.
LEMMA StatsFacts ==
    ASSUME NEW s \in StatsType
    PROVE  /\ [s EXCEPT !.req_count = @ + 1] \in StatsType
           /\ [s EXCEPT !.req_count = @ + 1].nconn = s.nconn
           /\ [s EXCEPT !.req_count_create_err = @ + 1] \in StatsType
           /\ [s EXCEPT !.req_count_create_err = @ + 1].nconn = s.nconn
           /\ [s EXCEPT !.req_count_timeout = @ + 1] \in StatsType
           /\ [s EXCEPT !.req_count_timeout = @ + 1].nconn = s.nconn
           /\ [s EXCEPT !.req_count_err = @ + 1] \in StatsType
           /\ [s EXCEPT !.req_count_err = @ + 1].nconn = s.nconn
           /\ [s EXCEPT !.nconn = @ - 1] \in StatsType
           /\ [s EXCEPT !.nconn = @ - 1].nconn = s.nconn - 1
  <1>1. /\ [s EXCEPT !.req_count = @ + 1] \in StatsType
        /\ [s EXCEPT !.req_count = @ + 1].nconn = s.nconn
    BY DEF StatsType
  <1>2. /\ [s EXCEPT !.req_count_create_err = @ + 1] \in StatsType
        /\ [s EXCEPT !.req_count_create_err = @ + 1].nconn = s.nconn
    BY DEF StatsType
  <1>3. /\ [s EXCEPT !.req_count_timeout = @ + 1] \in StatsType
        /\ [s EXCEPT !.req_count_timeout = @ + 1].nconn = s.nconn
    BY DEF StatsType
  <1>4. /\ [s EXCEPT !.req_count_err = @ + 1] \in StatsType
        /\ [s EXCEPT !.req_count_err = @ + 1].nconn = s.nconn
    BY DEF StatsType
  <1>5. /\ [s EXCEPT !.nconn = @ - 1] \in StatsType
        /\ [s EXCEPT !.nconn = @ - 1].nconn = s.nconn - 1
    BY DEF StatsType
  <1> QED
    BY <1>1, <1>2, <1>3, <1>4, <1>5, Zenon

\* The counters of a response with this status.
LEMMA StatsDoneFacts ==
    ASSUME NEW s \in StatsType, NEW status
    PROVE  LET d == [s EXCEPT !.req_count_ok = @ + 1,
                              !.req_statustype[StatusType(status)] = @ + 1]
           IN  d \in StatsType /\ d.nconn = s.nconn
  <1> DEFINE a == [s EXCEPT !.req_count_ok = @ + 1]
             y == StatusType(status)
             b == [a EXCEPT !.req_statustype[y] = @ + 1]
  <1>1. y \in StatusTypes
    BY DEF StatusType, StatusTypes
  <1> HIDE DEF y
  <1>2. a \in StatsType /\ a.nconn = s.nconn
    BY DEF StatsType
  <1> HIDE DEF a
  <1>3. b \in StatsType /\ b.nconn = a.nconn
    BY <1>1, <1>2 DEF StatsType
  <1> QED
    BY <1>2, <1>3 DEF a, b, y

\* The steps that change one connection, keep it on the list, and leave the
\* gauge alone keep the invariant.
LEMMA OneConnStep ==
    ASSUME IInv, NEW c \in Conns, NEW k \in ConnType, ConnOK(k),
           k.live = conn[c].live,
           conn' = [conn EXCEPT ![c] = k],
           stats' \in StatsType, stats'.nconn = stats.nconn,
           pacer' \in PacerType, reported' \in BOOLEAN,
           UNCHANGED <<cfg, mgr_state, armed, active>>
    PROVE  IInv'
  <1>1. /\ conn' \in [Conns -> ConnType]
        /\ \A d \in Conns : ConnOK(conn'[d])
        /\ LiveIn(conn') = LiveIn(conn)
    BY OneConnFacts DEF IInv, StateType, ConnsOK
  <1>2. Live' = Live
    BY <1>1 DEF Live, LiveIn
  <1> QED
    BY <1>1, <1>2 DEF IInv, StateType, ConnsOK, NconnMatchesList

\* The steps that close a connection keep the invariant.
LEMMA ConnClosingInv ==
    ASSUME IInv, NEW c \in Conns, conn[c].live,
           NEW k \in ConnType, ConnOK(k),
           NEW s \in StatsType, s.nconn = stats.nconn,
           NEW p \in PacerType, NEW gone \in {0, 1},
           k.live <=> gone = 0,
           ConnClosing(c, k, s, p, gone),
           reported' \in BOOLEAN,
           UNCHANGED <<cfg, mgr_state, armed, active>>
    PROVE  IInv'
  <1>1. /\ conn' \in [Conns -> ConnType]
        /\ stats' \in StatsType
        /\ pacer' \in PacerType
        /\ \A d \in Conns : ConnOK(conn'[d])
        /\ stats'.nconn = Cardinality(LiveIn(conn'))
        /\ stats'.nconn <= cfg.target_nconn
    BY ConnClosingStep
  <1>2. Live' = LiveIn(conn')
    BY DEF Live, LiveIn
  <1> QED
    BY <1>1, <1>2 DEF IInv, StateType, ConnsOK, NconnMatchesList

\* The flag about the last snapshot stays a Boolean.
LEMMA TouchedType ==
    ASSUME StateType, StatsTouched
    PROVE  reported' \in BOOLEAN
  BY Zenon DEF StateType, StatsTouched

------------------------------------------------------------------------------
\* The callbacks of the manager's timers keep the invariant.
LEMMA TimerStep ==
    ASSUME IInv, TimerEvent
    PROVE  IInv'
  <1> USE DEF Timers, States
  <1>1. CASE TimerRunning
    <2> DEFINE n == cfg.burst_conn + 1
               p == IF cfg.target_request_rate > 0
                      THEN PacerUpdate(cfg.target_request_rate, pacer) ELSE pacer
    <2>1. PICK new \in SUBSET (Conns \ Live) :
            /\ TryCreate(n, stats, p, new)
            /\ conn' = ConnsCreated(conn, new)
            /\ stats' = StatsCreated(n, stats, p, new)
            /\ pacer' = PacerOpened(p, Cardinality(new))
      BY <1>1 DEF TimerRunning
    <2>2. n \in Nat /\ p \in PacerType
      BY CfgTypes, PacerUpdateType DEF IInv, StateType
    <2> HIDE DEF n, p
    <2>3. /\ cfg \in Configs /\ stats \in StatsType
          /\ conn \in [Conns -> ConnType] /\ \A c \in Conns : ConnOK(conn[c])
          /\ stats.nconn = Cardinality(Live) /\ stats.nconn <= cfg.target_nconn
      BY DEF IInv, StateType, ConnsOK, NconnMatchesList
    <2>4. /\ Cardinality(new) \in Nat
          /\ ConnsCreated(conn, new) \in [Conns -> ConnType]
          /\ \A c \in Conns : ConnOK(ConnsCreated(conn, new)[c])
          /\ LiveIn(ConnsCreated(conn, new)) = LiveIn(conn) \cup new
          /\ StatsCreated(n, stats, p, new) \in StatsType
          /\ StatsCreated(n, stats, p, new).nconn = stats.nconn + Cardinality(new)
          /\ stats.nconn + Cardinality(new) <= cfg.target_nconn
          /\ PacerOpened(p, Cardinality(new)) \in PacerType
      BY <2>1, <2>2, <2>3, CreatedFacts
    <2>5. Live' = Live \cup new
      BY <2>1, <2>4 DEF Live, LiveIn
    <2>6. Cardinality(Live \cup new) = Cardinality(Live) + Cardinality(new)
      BY <2>1, CardinalityFacts DEF Live
    <2>7. /\ cfg' = cfg /\ armed' \subseteq Timers /\ active' \subseteq Timers
          /\ mgr_state' \in States
      BY <1>1 DEF TimerRunning, SetWaiting, IInv, StateType
    <2>8. reported' \in BOOLEAN
      BY <1>1, TouchedType DEF TimerRunning, IInv
    <2>9. StateType'
      BY <2>1, <2>3, <2>4, <2>7, <2>8 DEF StateType
    <2>10. ConnsOK'
      BY <2>1, <2>4 DEF ConnsOK
    <2>11. NconnMatchesList'
      BY <2>1, <2>3, <2>4, <2>5, <2>6, <2>7 DEF NconnMatchesList
    <2> QED
      BY <2>9, <2>10, <2>11 DEF IInv
  <1>2. CASE CleanupTimer
    <2> DEFINE g == [c \in Conns |-> IF conn[c].live THEN ScheduleDestroy(conn[c])
                                     ELSE conn[c]]
    <2>1. /\ conn \in [Conns -> ConnType] /\ \A c \in Conns : ConnOK(conn[c])
      BY DEF IInv, StateType, ConnsOK
    <2>2. ASSUME NEW c \in Conns
          PROVE  /\ g[c] \in ConnType /\ ConnOK(g[c])
                 /\ g[c].live <=> conn[c].live
      BY <2>1, ScheduleDestroyOK
    <2>3. g \in [Conns -> ConnType]
      BY <2>2
    <2>4. conn' = g \/ conn' = conn
      BY <1>2 DEF CleanupTimer
    <2> HIDE DEF g
    <2>5. /\ conn' \in [Conns -> ConnType] /\ \A c \in Conns : ConnOK(conn'[c])
          /\ \A c \in Conns : conn'[c].live <=> conn[c].live
      BY <2>1, <2>2, <2>3, <2>4
    <2>6. Live' = Live
      BY <2>5 DEF Live
    <2>7. /\ UNCHANGED <<cfg, armed, stats, pacer, reported>>
          /\ mgr_state' \in States /\ active' \subseteq Timers
      BY <1>2 DEF CleanupTimer, IInv, StateType
    <2> QED
      BY <2>5, <2>6, <2>7 DEF IInv, StateType, ConnsOK, NconnMatchesList
  <1>3. ASSUME UNCHANGED <<cfg, conn, stats, pacer>>,
               mgr_state' \in States, armed' \subseteq Timers,
               active' \subseteq Timers, reported' \in BOOLEAN
        PROVE  IInv'
    BY <1>3 DEF IInv, StateType, ConnsOK, NconnMatchesList, Live
  <1>4. CASE TimerWaiting
    BY <1>3, <1>4 DEF TimerWaiting, IInv, StateType
  <1>5. CASE TimerIdle
    BY <1>3, <1>5 DEF TimerIdle, IInv, StateType
  <1>6. CASE TimerCleanupWaiting
    BY <1>3, <1>6 DEF TimerCleanupWaiting, IInv, StateType
  <1>7. CASE StatTimer
    BY <1>3, <1>7 DEF StatTimer, IInv, StateType
  <1>8. CASE RunningTimer
    BY <1>3, <1>8 DEF RunningTimer, SetWaiting, IInv, StateType
  <1>9. CASE WaitingTimer
    BY <1>3, <1>9 DEF WaitingTimer, IInv, StateType
  <1> QED
    BY <1>1, <1>2, <1>4, <1>5, <1>6, <1>7, <1>8, <1>9 DEF TimerEvent

\* libevhtp closes a connection its hooks left as k.
LEMMA UpstreamClosedStep ==
    ASSUME IInv, NEW c \in Conns, conn[c].live,
           NEW k \in ConnType, ConnOK(k), k.con,
           NEW s \in StatsType, s.nconn = stats.nconn,
           UpstreamClosed(c, k, s)
    PROVE  IInv'
  <1> DEFINE go == k.con_req /\ AnotherRequest(k)
             j == ConnectionFree(k, TRUE, go, cfg.wait_time_pre_http_req_msec)
  <1>1. /\ ConnClosing(c, j, s, PacerAfter(go), 0)
        /\ StatsTouched /\ UNCHANGED <<cfg, mgr_state, armed, active>>
    BY DEF UpstreamClosed
  <1>2. go \in BOOLEAN
    OBVIOUS
  <1> HIDE DEF go
  <1>3. /\ cfg.wait_time_pre_http_req_msec \in Int
        /\ cfg.target_request_rate \in Int /\ pacer \in PacerType /\ StateType
    BY CfgTypes DEF IInv, StateType
  <1>4. j \in ConnType /\ ConnOK(j) /\ j.live
    BY <1>2, <1>3, ConnectionFreeOK
  <1>5. PacerAfter(go) \in PacerType
    BY <1>3, PacerAddType DEF PacerAfter, PacerInc
  <1>6. reported' \in BOOLEAN
    BY <1>1, <1>3, TouchedType
  <1> HIDE DEF j
  <1> QED
    BY <1>1, <1>4, <1>5, <1>6, ConnClosingInv

\* The callbacks of one connection's events keep the invariant.
LEMMA ConnStep ==
    ASSUME IInv, NEW c \in Conns, ConnEvent(c)
    PROVE  IInv'
  <1> DEFINE msec == cfg.wait_time_pre_http_req_msec
  <1>1. /\ cfg \in Configs /\ conn[c] \in ConnType /\ ConnOK(conn[c])
        /\ stats \in StatsType /\ pacer \in PacerType /\ reported \in BOOLEAN
        /\ conn \in [Conns -> ConnType] /\ StateType
    BY DEF IInv, StateType, ConnsOK
  <1>2. msec \in Int /\ cfg.target_request_rate \in Int
    BY <1>1, CfgTypes
  <1>3. \A e \in ConnEv : e \in conn[c].active => conn[c].live
    BY <1>1 DEF ConnOK
  <1>4. /\ "http_req" \in ConnEv /\ "destroy" \in ConnEv
        /\ "timeout" \in ConnEv \ {"destroy"} /\ "bev" \in ConnEv \ {"destroy"}
    BY DEF ConnEv
  <1> DEFINE b == BevFired(c)
  <1>5. /\ b \in ConnType /\ ConnOK(b) /\ SameOwner(b, conn[c])
    BY <1>1, <1>4, EventFiredOK, EventFiredFacts DEF BevFired
  <1>6. ASSUME NEW go \in BOOLEAN
        PROVE  PacerAfter(go) \in PacerType
    BY <1>1, <1>2, PacerAddType DEF PacerAfter, PacerInc
  <1> HIDE DEF msec, b
  <1>7. CASE HttpReqEvent(c)
    <2> DEFINE q == [EventFired(conn[c], "http_req") EXCEPT !.pending_http_req = FALSE]
               j == [ReqCreate(q) EXCEPT !.cur_req_count = @ + 1]
    <2>1. /\ q \in ConnType /\ ConnOK(q) /\ q.live = conn[c].live
          /\ j \in ConnType /\ ConnOK(j) /\ j.live = conn[c].live
      BY <1>1, <1>7, HttpReqOK DEF HttpReqEvent
    <2>2. /\ reported' \in BOOLEAN /\ pacer' \in PacerType
          /\ UNCHANGED <<cfg, mgr_state, armed, active>>
      BY <1>1, <1>7, TouchedType DEF HttpReqEvent
    <2>3. \/ /\ conn' = [conn EXCEPT ![c] = j]
             /\ stats' = [stats EXCEPT !.req_count = @ + 1]
          \/ /\ conn' = [conn EXCEPT ![c] = q]
             /\ stats' = [stats EXCEPT !.req_count_create_err = @ + 1]
      BY <1>7 DEF HttpReqEvent
    <2> HIDE DEF q, j
    <2>4. stats' \in StatsType /\ stats'.nconn = stats.nconn
      BY <1>1, <2>3, StatsFacts, Zenon
    <2>5. CASE conn' = [conn EXCEPT ![c] = j]
      BY <2>1, <2>2, <2>4, <2>5, OneConnStep DEF q, j
    <2>6. CASE conn' = [conn EXCEPT ![c] = q]
      BY <2>1, <2>2, <2>4, <2>6, OneConnStep DEF q, j
    <2> QED
      BY <2>3, <2>5, <2>6
  <1>8. CASE DestroyEvent(c)
    <2> DEFINE k == MgrConnDestroy(EventFired(conn[c], "destroy"))
    <2>1. k = FreeConn /\ k \in ConnType /\ ConnOK(k) /\ ~k.live
      BY <1>1, MgrConnDestroyIsFree, FreeConnOK
    <2>2. conn[c].live
      BY <1>3, <1>4, <1>8 DEF DestroyEvent
    <2>3. /\ reported' \in BOOLEAN
          /\ UNCHANGED <<cfg, mgr_state, armed, active>>
      BY <1>1, <1>8, TouchedType DEF DestroyEvent
    <2>4. \/ ConnClosing(c, k, stats, pacer, 1)
          \/ /\ conn' = [conn EXCEPT ![c] = k]
             /\ stats' = [stats EXCEPT !.nconn = @ - 1]
             /\ pacer' = pacer
      BY <1>8 DEF DestroyEvent
    <2> HIDE DEF k
    <2>5. CASE ConnClosing(c, k, stats, pacer, 1)
      BY <1>1, <2>1, <2>2, <2>3, <2>5, ConnClosingInv DEF k
    <2>6. CASE /\ conn' = [conn EXCEPT ![c] = k]
               /\ stats' = [stats EXCEPT !.nconn = @ - 1]
               /\ pacer' = pacer
      <3>1. k \in ConnType /\ ConnOK(k) /\ ~k.live
        BY <2>1 DEF k
      <3>2. /\ conn' \in [Conns -> ConnType] /\ \A d \in Conns : ConnOK(conn'[d])
            /\ LiveIn(conn') = LiveIn(conn) \ {c}
        BY <1>1, <2>6, <3>1, OneConnFacts DEF IInv, ConnsOK
      <3>3. stats' \in StatsType /\ stats'.nconn = stats.nconn - 1
        BY <1>1, <2>6, StatsFacts, Zenon
      <3>4. Live' = Live \ {c} /\ c \in Live /\ Live \in SUBSET Conns
        BY <2>2, <3>2 DEF Live, LiveIn
      <3>5. Cardinality(Live \ {c}) = Cardinality(Live) - 1
        BY <3>4, CardinalityFacts
      <3>6. stats.nconn \in Int /\ cfg.target_nconn \in Nat
        BY <1>1, CfgTypes DEF StatsType
      <3>7. NconnMatchesList'
        BY <2>3, <3>3, <3>4, <3>5, <3>6 DEF IInv, NconnMatchesList
      <3> QED
        BY <1>1, <2>3, <2>6, <3>2, <3>3, <3>7 DEF IInv, StateType, ConnsOK
    <2> QED
      BY <2>4, <2>5, <2>6
  <1>9. CASE ConnTimeout(c)
    <2> DEFINE f == EventFired(conn[c], "timeout")
               k == NotifyTimeout(f)
    <2>1. f \in ConnType /\ ConnOK(f) /\ SameOwner(f, conn[c])
      BY <1>1, <1>4, EventFiredOK, EventFiredFacts
    <2>2. conn[c].live
      BY <1>3, <1>4, <1>9 DEF ConnTimeout
    <2> HIDE DEF f
    <2>3. k \in ConnType /\ ConnOK(k) /\ k.live = conn[c].live
      <3>1. f \in ConnType /\ ConnOK(f) /\ f.live /\ f.live = conn[c].live
        BY <2>1, <2>2 DEF f, SameOwner
      <3> QED
        BY <3>1, ScheduleDestroyOK DEF SameRequest
    <2>4. /\ conn' = [conn EXCEPT ![c] = k]
          /\ stats' = [stats EXCEPT !.req_count_timeout = @ + 1]
          /\ UNCHANGED <<cfg, mgr_state, armed, active, pacer>>
          /\ reported' \in BOOLEAN
      BY <1>1, <1>9, TouchedType DEF ConnTimeout, f
    <2>5. stats' \in StatsType /\ stats'.nconn = stats.nconn
      BY <1>1, <2>4, StatsFacts, Zenon
    <2> HIDE DEF k
    <2> QED
      BY <1>1, <2>3, <2>4, <2>5, OneConnStep DEF k
  <1>10. CASE BevQuiet(c)
    <2>1. conn' = [conn EXCEPT ![c] = b]
          /\ UNCHANGED <<cfg, mgr_state, armed, active, stats, pacer, reported>>
      BY <1>10 DEF BevQuiet, b
    <2>2. b \in ConnType /\ ConnOK(b) /\ b.live = conn[c].live
      BY <1>5 DEF b, SameOwner
    <2> QED
      BY <1>1, <2>1, <2>2, OneConnStep
  <1>11. CASE ResponseProgress(c)
    <2>1. conn' = [conn EXCEPT ![c] = TimeoutRearm(b)]
          /\ UNCHANGED <<cfg, mgr_state, armed, active, stats, pacer, reported>>
      BY <1>11 DEF ResponseProgress, b
    <2>2. b \in ConnType /\ ConnOK(b) /\ b.live = conn[c].live /\ b.live
      BY <1>3, <1>4, <1>5, <1>11 DEF b, SameOwner, ResponseProgress
    <2>3. /\ TimeoutRearm(b) \in ConnType /\ ConnOK(TimeoutRearm(b))
          /\ TimeoutRearm(b).live = conn[c].live
      BY <2>2, TimeoutOK DEF SameOwner
    <2> QED
      BY <1>1, <2>1, <2>3, OneConnStep
  <1>12. ASSUME NEW status \in Statuses, ResponseDone(c, status)
         PROVE  IInv'
    <2> DEFINE go == AnotherRequest(b)
               k == ReqCb(b, go, msec)
    <2>1. /\ conn' = [conn EXCEPT ![c] = k]
          /\ stats' = [stats EXCEPT !.req_count_ok = @ + 1,
                         !.req_statustype[StatusType(status)] = @ + 1]
          /\ pacer' = PacerAfter(go)
          /\ StatsTouched /\ UNCHANGED <<cfg, mgr_state, armed, active>>
          /\ b.con_req /\ "bev" \in conn[c].active
      BY <1>12 DEF ResponseDone, b, msec
    <2>2. go \in BOOLEAN /\ (go => ~b.is_dead)
      BY DEF AnotherRequest, ConnCheckCreateHttpRequest
    <2> HIDE DEF go
    <2>3. b \in ConnType /\ ConnOK(b) /\ b.live = conn[c].live
      BY <1>5 DEF b, SameOwner
    <2>4. k \in ConnType /\ ConnOK(k) /\ k.live
      BY <1>2, <2>1, <2>2, <2>3, ReqCbOK DEF msec
    <2>5. k.live = conn[c].live
      <3>1. conn[c].live = TRUE
        BY <1>1, <1>3, <1>4, <2>1 DEF ConnType
      <3>2. k.live = TRUE
        BY <2>4 DEF ConnType
      <3> QED
        BY <3>1, <3>2
    <2>6. stats' \in StatsType /\ stats'.nconn = stats.nconn
      BY <1>1, <2>1, StatsDoneFacts, Zenon
    <2>7. pacer' \in PacerType /\ reported' \in BOOLEAN
      BY <1>1, <1>6, <2>1, <2>2, TouchedType
    <2> HIDE DEF k
    <2> QED
      BY <1>1, <2>1, <2>4, <2>5, <2>6, <2>7, OneConnStep DEF k
  <1>13. CASE ParserError(c)
    <2>1. /\ "bev" \in conn[c].active /\ conn[c].con_req
          /\ UpstreamClosed(c, b, stats)
      BY <1>13 DEF ParserError, b
    <2>2. conn[c].live /\ conn[c].con
      BY <1>1, <1>3, <1>4, <2>1 DEF ConnOK
    <2>3. b \in ConnType /\ ConnOK(b) /\ b.con
      BY <1>5, <2>2 DEF b, SameOwner
    <2> QED
      BY <1>1, <2>1, <2>2, <2>3, UpstreamClosedStep
  <1>14. ASSUME NEW timeout \in BOOLEAN, SocketError(c, timeout)
         PROVE  IInv'
    <2>1. "bev" \in conn[c].active
      BY <1>14 DEF SocketError
    <2>2. conn[c].live /\ conn[c].con
      BY <1>1, <1>3, <1>4, <2>1 DEF ConnOK, Scheduled
    <2>3. b \in ConnType /\ ConnOK(b) /\ b.con /\ b.live
      BY <1>5, <2>2 DEF b, SameOwner
    <2>4. CASE conn[c].con_req
      <3> DEFINE k == UpstreamError(b, timeout)
                 s == IF timeout THEN [stats EXCEPT !.req_count_timeout = @ + 1]
                                 ELSE [stats EXCEPT !.req_count_err = @ + 1]
      <3>1. UpstreamClosed(c, k, s)
        BY <1>14, <2>4 DEF SocketError, b
      <3>2. k \in ConnType /\ ConnOK(k) /\ k.con
        BY <2>3, UpstreamErrorOK DEF SameRequest
      <3>3. s \in StatsType /\ s.nconn = stats.nconn
        <4>1. CASE timeout
          BY <1>1, <4>1, StatsFacts, Zenon
        <4>2. CASE ~timeout
          BY <1>1, <4>2, StatsFacts, Zenon
        <4> QED
          BY <4>1, <4>2
      <3> HIDE DEF k, s
      <3> QED
        BY <2>2, <3>1, <3>2, <3>3, UpstreamClosedStep DEF k, s
    <2>5. CASE ~conn[c].con_req
      <3>1. UpstreamClosed(c, b, stats)
        BY <1>14, <2>5 DEF SocketError, b
      <3> QED
        BY <1>1, <2>2, <2>3, <3>1, UpstreamClosedStep
    <2> QED
      BY <2>4, <2>5
  <1> QED
    BY <1>7, <1>8, <1>9, <1>10, <1>11, <1>12, <1>13, <1>14 DEF ConnEvent

\* The poll keeps the invariant.
LEMMA PollStep ==
    ASSUME IInv, NEW batch, Poll(batch)
    PROVE  IInv'
  <1>1. /\ conn \in [Conns -> ConnType] /\ \A c \in Conns : ConnOK(conn[c])
        /\ \A c \in Conns : conn[c].active = {}
    BY DEF IInv, StateType, ConnsOK, Poll, QueueEmpty
  <1> DEFINE fired(c) == {e \in conn[c].armed : <<c, e>> \in batch}
             g(c) == [conn[c] EXCEPT !.active = fired(c),
                                     !.armed = @ \ (fired(c) \ {"bev"})]
  <1>2. conn' = [c \in Conns |-> g(c)]
    BY DEF Poll
  <1>3. ASSUME NEW c \in Conns
        PROVE  g(c) \in ConnType /\ ConnOK(g(c)) /\ g(c).live = conn[c].live
    <2> DEFINE S == fired(c)
    <2>1. S \in SUBSET conn[c].armed
      OBVIOUS
    <2>2. /\ conn[c] \in ConnType /\ ConnOK(conn[c]) /\ conn[c].active = {}
      BY <1>1
    <2> HIDE DEF S
    <2> QED
      BY <2>1, <2>2, PollOK DEF S, SameOwner
  <1> HIDE DEF g
  <1>4. /\ conn' \in [Conns -> ConnType] /\ \A c \in Conns : ConnOK(conn'[c])
        /\ \A c \in Conns : conn'[c].live = conn[c].live
    BY <1>2, <1>3
  <1>5. Live' = Live
    BY <1>4 DEF Live
  <1>6. /\ UNCHANGED <<cfg, mgr_state, stats, pacer, reported>>
        /\ armed' \subseteq Timers /\ active' \subseteq Timers
    BY DEF Poll, IInv, StateType
  <1> QED
    BY <1>4, <1>5, <1>6 DEF IInv, StateType, ConnsOK, NconnMatchesList

------------------------------------------------------------------------------
\* Every callback keeps the invariant.
LEMMA IInvariant == Spec => []IInv
  <1>1. Init => IInv
    <2> SUFFICES ASSUME Init PROVE IInv
      OBVIOUS
    <2>1. /\ FreeConn \in ConnType /\ ConnOK(FreeConn) /\ ~FreeConn.live
      BY FreeConnOK
    <2>2. conn \in [Conns -> ConnType] /\ \A c \in Conns : conn[c] = FreeConn
      BY <2>1 DEF Init
    <2>3. ConnsOK /\ Live = {}
      BY <2>1, <2>2 DEF ConnsOK, Live
    <2>4. stats \in StatsType /\ stats.nconn = 0 /\ pacer \in PacerType
      BY DEF Init, StatsZero, StatsType, StatusTypes, PacerZero, PacerType
    <2>5. cfg.target_nconn \in Nat
      BY CfgTypes DEF Init
    <2>6. NconnMatchesList
      BY <2>3, <2>4, <2>5, FS_EmptySet DEF NconnMatchesList
    <2> QED
      BY <2>2, <2>3, <2>4, <2>6 DEF IInv, StateType, Init, States
  <1>2. IInv /\ [Next]_vars => IInv'
    <2> SUFFICES ASSUME IInv, [Next]_vars PROVE IInv'
      OBVIOUS
    <2>1. CASE Start
      BY <2>1 DEF Start, IInv, StateType, ConnsOK, NconnMatchesList, Live,
                  Timers, States
    <2>2. CASE PollSome
      BY <2>2, PollStep DEF PollSome
    <2>3. CASE Dispatch
      BY <2>3, TimerStep, ConnStep DEF Dispatch
    <2>4. CASE Still
      BY <2>4 DEF Still, IInv, StateType, ConnsOK, NconnMatchesList, Live
    <2> QED
      BY <2>1, <2>2, <2>3, <2>4, NextCases
  <1> QED
    BY <1>1, <1>2, PTL DEF Spec

\* The manager keeps the types of its state, every connection in good order
\* and its gauge equal to the length of its list, for every configuration.
THEOREM MgrInvariant == Spec => [](TypeOK /\ ConnsOK /\ NconnMatchesList)
  <1> DEFINE Outcome == died \in BOOLEAN
  <1>1. Init => Outcome
    BY DEF Init
  <1>2. Outcome /\ [Next]_vars => Outcome'
    BY DEF Next, Alive, UseFreedRequest, ThreadDone, vars
  <1>3. IInv /\ Outcome => TypeOK /\ ConnsOK /\ NconnMatchesList
    BY DEF IInv, StateType, TypeOK
  <1> HIDE DEF Outcome
  <1> QED
    BY <1>1, <1>2, <1>3, IInvariant, PTL DEF Spec

\* Between two callbacks every evhtp request is known to both of its owners
\* and has been freed exactly as often as it must; none was used once freed
\* when the network, and not the manager, closed its connection.
THEOREM NoDoubleFree == Spec => []RequestFreedOnce
  <1>1. ConnsOK => RequestFreedOnce
    BY DEF ConnsOK, ConnOK, RequestFreedOnce
  <1> QED
    BY <1>1, MgrInvariant, PTL

\* A freed request is used, and the process may die of it, only when a dead
\* connection is destroyed with its request in flight.
THEOREM UseConfined == Spec => DiesOnlyInFlight
  <1>1. ConnsOK /\ TypeOK /\ [Next]_vars =>
          died' = died \/ \E c \in Conns : conn[c].is_dead /\ conn[c].con_req
    <2> SUFFICES ASSUME ConnsOK, TypeOK, [Next]_vars, ~(died' = died)
                 PROVE  \E c \in Conns : conn[c].is_dead /\ conn[c].con_req
      OBVIOUS
    <2>1. PICK c \in Conns : UseFreedRequest(c)
      BY DEF Next, Alive, ThreadDone, vars
    <2>2. conn[c] \in ConnType /\ ConnOK(conn[c])
      BY DEF ConnsOK, TypeOK
    <2>3. conn[c].is_dead
      BY <2>1, <2>2 DEF UseFreedRequest, ConnOK
    <2>4. conn[c].con_req
      BY <2>1, <2>2, IdleDestroyClean DEF UseFreedRequest
    <2> QED
      BY <2>3, <2>4
  <1> QED
    BY <1>1, MgrInvariant, PTL DEF Spec, DiesOnlyInFlight

\* No event of a connection outlives it.
THEOREM NoUseAfterFree == Spec => []NoDanglingEvents
  <1>1. ConnsOK => NoDanglingEvents
    BY DEF ConnsOK, ConnOK, NoDanglingEvents
  <1> QED
    BY <1>1, MgrInvariant, PTL

\* A queued request always finds an open connection with no request on it.
THEOREM RequestsNeverCollide == Spec => []OneRequestAtATime
  <1>1. ConnsOK => OneRequestAtATime
    BY DEF ConnsOK, ConnOK, OneRequestAtATime
  <1> QED
    BY <1>1, MgrInvariant, PTL

\* Every connection on the list has an event that will retire it.
THEOREM NobodyForgotten == Spec => []ConnHasWaker
  <1>1. ConnsOK => ConnHasWaker
    BY DEF ConnsOK, ConnOK, ConnHasWaker
  <1> QED
    BY <1>1, MgrInvariant, PTL

\* The gauge of open connections is exact and within its target.
THEOREM GaugeIsExact == Spec => []NconnMatchesList
  BY MgrInvariant, PTL

------------------------------------------------------------------------------
(* The phases and their timers.                                            *)

\* Before the manager has started, none of its timers is set.
TimersInv ==
    /\ PhaseTimers
    /\ mgr_state = "NONE" => armed = {} /\ active = {}

\* The timers are those of the phase, also before the manager has started.
LEMMA TimersInvariant == Spec => []TimersInv
  <1>1. Init => TimersInv
    BY DEF Init, TimersInv, PhaseTimers
  <1>2. TypeOK /\ TimersInv /\ [Next]_vars => TimersInv'
    <2> SUFFICES ASSUME TypeOK, TimersInv, [Next]_vars PROVE TimersInv'
      OBVIOUS
    <2> USE DEF TimersInv, PhaseTimers
    <2>0. /\ mgr_state \in States /\ cfg \in Configs
          /\ armed \subseteq Timers /\ active \subseteq Timers
          /\ cfg.running_period_sec \in Int
      BY CfgTypes DEF TypeOK
    <2>1. CASE Start
      BY <2>0, <2>1 DEF Start
    <2>2. ASSUME NEW batch, Poll(batch) PROVE TimersInv'
      <3>1. /\ active = {} /\ cfg' = cfg /\ mgr_state' = mgr_state
            /\ active' \subseteq armed /\ armed' = armed \ active'
        BY <2>2 DEF Poll, QueueEmpty
      <3>2. armed' \cup active' = armed \cup active /\ armed' \cap active' = {}
        BY <3>1
      <3>3. mgr_state = "NONE" => armed' = {} /\ active' = {}
        BY <3>1
      <3> QED
        BY <3>1, <3>2, <3>3
    <2>3. CASE TimerRunning
      <3>1. /\ "timer" \in active /\ mgr_state = "RUNNING" /\ cfg' = cfg
            /\ \/ SetWaiting(armed \cup {"timer"}, active \ {"timer"})
               \/ /\ armed' = armed \cup {"timer"}
                  /\ active' = active \ {"timer"}
                  /\ mgr_state' = mgr_state
        BY <2>3 DEF TimerRunning
      <3> QED
        BY <2>0, <3>1 DEF SetWaiting
    <2>4. CASE TimerWaiting
      BY <2>0, <2>4 DEF TimerWaiting
    <2>5. CASE TimerCleanupWaiting
      BY <2>0, <2>5 DEF TimerCleanupWaiting
    <2>6. CASE TimerIdle
      BY <2>0, <2>6 DEF TimerIdle
    <2>7. CASE StatTimer
      BY <2>0, <2>7 DEF StatTimer
    <2>8. CASE RunningTimer
      BY <2>0, <2>8 DEF RunningTimer, SetWaiting
    <2>9. CASE WaitingTimer
      BY <2>0, <2>9 DEF WaitingTimer
    <2>10. CASE CleanupTimer
      BY <2>0, <2>10 DEF CleanupTimer
    <2>11. ASSUME UNCHANGED <<cfg, mgr_state, armed, active>> PROVE TimersInv'
      BY <2>11
    <2>12. ASSUME NEW c \in Conns, ConnEvent(c)
           PROVE  UNCHANGED <<cfg, mgr_state, armed, active>>
      BY <2>12 DEF ConnEvent, HttpReqEvent, DestroyEvent, ConnTimeout, BevQuiet,
                   ResponseProgress, ResponseDone, ParserError, SocketError,
                   UpstreamClosed
    <2>13. CASE Still
      BY <2>11, <2>13 DEF Still
    <2> HIDE DEF TimersInv, PhaseTimers
    <2> QED
      BY <2>1, <2>2, <2>3, <2>4, <2>5, <2>6, <2>7, <2>8, <2>9, <2>10, <2>11,
         <2>12, <2>13, NextCases DEF PollSome, Dispatch, TimerEvent
  <1> QED
    BY <1>1, <1>2, MgrInvariant, PTL DEF Spec

\* In every phase exactly the timers of that phase are set: whichever of the
\* periodic timer, the running timer, the waiting timer and a connection's
\* callback comes first, no phase is ever left without its timer, or with
\* that of another.
THEOREM PhasesHaveTheirTimers == Spec => []PhaseTimers
  <1>1. TimersInv => PhaseTimers
    BY DEF TimersInv
  <1> QED
    BY <1>1, TimersInvariant, PTL
==============================================================================
