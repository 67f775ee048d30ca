------------------------ MODULE CltMgrLifecycleProofs ------------------------
(***************************************************************************)
(* The phases of the manager: they only go forward, nothing new is begun   *)
(* once RUNNING is over, the run ends clean, and all of this together is   *)
(* what MgrLifecycle promises.                                             *)
(***************************************************************************)
EXTENDS CltMgrLifecycle, CltMgrStepProofs

\* What is true of each phase.  In CLEANUP_WAITING every connection is dying;
\* from COMPLETED on there is none, and the statistics timer is still to come
\* unless the final counters were reported.
PhaseInv ==
    /\ mgr_state # "INIT"
    /\ mgr_state \in {"NONE", "COMPLETED"} => Live = {}
    /\ mgr_state = "CLEANUP_WAITING" => \A c \in Live : conn[c].is_dead
    /\ mgr_state = "COMPLETED" => "stat" \in armed \cup active \/ reported

\* All the invariants of the manager.
AllInv == IInv /\ QuotaInv /\ TimersInv /\ PhaseInv

------------------------------------------------------------------------------
\* With no connection on the list there is no connection event.
LEMMA NoConnNoEvent ==
    ASSUME IInv, Live = {}
    PROVE  /\ \A c \in Conns : conn[c].armed = {} /\ conn[c].active = {}
           /\ \A c \in Conns : ~ConnEvent(c)
  <1>1. \A c \in Conns : conn[c].armed = {} /\ conn[c].active = {}
    BY DEF IInv, ConnsOK, ConnOK, Live
  <1> QED
    BY <1>1 DEF ConnEvent, HttpReqEvent, DestroyEvent, ConnTimeout, BevQuiet,
                ResponseProgress, ResponseDone, ParserError, SocketError

\* The gauge at 0 means an empty list.
LEMMA NconnZero ==
    ASSUME IInv, stats.nconn = 0
    PROVE  Live = {}
  <1>1. IsFiniteSet(Live)
    BY ConnsAssumption, FS_Subset DEF Live
  <1> QED
    BY <1>1, FS_EmptySet DEF IInv, NconnMatchesList

\* The connections after a step: in RUNNING some may be opened, otherwise none.
LEMMA ListAfter ==
    ASSUME IInv, QuotaInv, mgr_state # "INIT", [Next]_vars
    PROVE  /\ stats'.conn_count = stats.conn_count + Cardinality(Live' \ Live)
           /\ Live' \ Live # {} =>
                /\ mgr_state = "RUNNING"
                /\ cfg.target_total_nconn_count > 0 =>
                     stats'.conn_count <= cfg.target_total_nconn_count
           /\ mgr_state # "RUNNING" =>
                /\ Live' \subseteq Live
                /\ stats'.conn_count = stats.conn_count
                /\ \A c \in Conns : Moves(conn[c], conn'[c])
  <1>1. PICK new : Opens(new)
    BY EveryStep DEF QuotaInv, StepFacts
  <1>2. NewConn(cfg.wait_time_pre_http_req_msec).live
    BY CfgTypes, NewConnOK DEF IInv, StateType
  <1>3. \A c \in Conns \ new : conn'[c].live => conn[c].live
    BY <1>1 DEF Opens, Moves
  <1>4. \A c \in new : conn'[c].live /\ ~conn[c].live /\ c \in Conns
    BY <1>1, <1>2 DEF Opens, Live
  <1>5. Live' \ Live = new
    BY <1>3, <1>4 DEF Live
  <1>6. mgr_state # "RUNNING" => new = {}
    BY <1>1 DEF Opens
  <1>7. new = {} => stats'.conn_count = stats.conn_count
    BY <1>1, FS_EmptySet DEF Opens, IInv, StateType, StatsType
  <1>8. new # {} /\ cfg.target_total_nconn_count > 0 =>
          stats'.conn_count <= cfg.target_total_nconn_count
    BY <1>1 DEF Opens
  <1> QED
    BY <1>1, <1>5, <1>6, <1>7, <1>8 DEF Opens

\* The phases follow each other.
PhaseStep ==
    \/ mgr_state' = mgr_state
    \/ mgr_state = "NONE" /\ mgr_state' = "RUNNING" /\ Start
    \/ mgr_state = "RUNNING" /\ mgr_state' = "WAITING"
    \/ mgr_state = "WAITING" /\ mgr_state' = "CLEANUP"
    \/ mgr_state = "CLEANUP" /\ mgr_state' = "CLEANUP_WAITING" /\ CleanupTimer
    \/ /\ mgr_state = "CLEANUP_WAITING" /\ mgr_state' = "COMPLETED"
       /\ stats.nconn = 0
       /\ active' = active \ {"timer"} /\ armed' = armed \ {"timer"}
       /\ UNCHANGED <<conn, stats, reported>>

\* No callback skips a phase or goes back to one, a late running timer included.
LEMMA PhaseSteps ==
    ASSUME TimersInv, [Next]_vars
    PROVE  PhaseStep
  <1>1. CASE UNCHANGED mgr_state
    BY <1>1 DEF PhaseStep
  <1>2. CASE Start
    BY <1>2 DEF Start, PhaseStep
  <1>3. CASE TimerRunning
    BY <1>3 DEF TimerRunning, SetWaiting, PhaseStep
  <1>4. CASE TimerWaiting
    BY <1>4 DEF TimerWaiting, PhaseStep
  <1>5. CASE TimerCleanupWaiting
    BY <1>5 DEF TimerCleanupWaiting, PhaseStep
  <1>6. CASE RunningTimer
    BY <1>6 DEF RunningTimer, SetWaiting, PhaseStep, TimersInv, PhaseTimers
  <1>7. CASE WaitingTimer
    BY <1>7 DEF WaitingTimer, PhaseStep
  <1>8. CASE CleanupTimer
    <2>1. \/ mgr_state = "CLEANUP" /\ mgr_state' = "CLEANUP_WAITING"
          \/ mgr_state' = mgr_state
      BY <1>8 DEF CleanupTimer
    <2> QED
      BY <1>8, <2>1 DEF PhaseStep
  <1>9. CASE TimerIdle \/ StatTimer \/ PollSome \/ Still
    BY <1>1, <1>9 DEF TimerIdle, StatTimer, PollSome, Poll, Still
  <1>10. ASSUME NEW c \in Conns, ConnEvent(c)
         PROVE  UNCHANGED mgr_state
    BY <1>10 DEF ConnEvent, HttpReqEvent, DestroyEvent, ConnTimeout, BevQuiet,
                 ResponseProgress, ResponseDone, ParserError, SocketError,
                 UpstreamClosed
  <1> QED
    BY <1>1, <1>2, <1>3, <1>4, <1>5, <1>6, <1>7, <1>8, <1>9, <1>10,
       NextCases DEF Dispatch, TimerEvent

\* After completion only the statistics timer is still at work.
LEMMA CompletedSteps ==
    ASSUME IInv, TimersInv, PhaseInv, mgr_state = "COMPLETED", [Next]_vars
    PROVE  \/ StatTimer
           \/ /\ armed' \cup active' = armed \cup active
              /\ UNCHANGED <<cfg, stats, reported>>
  <1>1. CASE StatTimer
    BY <1>1
  <1>2. ASSUME NEW batch, Poll(batch)
        PROVE  /\ armed' \cup active' = armed \cup active
               /\ UNCHANGED <<cfg, stats, reported>>
    <2>1. /\ active = {} /\ active' \subseteq armed /\ armed' = armed \ active'
          /\ UNCHANGED <<cfg, stats, reported>>
      BY <1>2 DEF Poll, QueueEmpty
    <2> QED
      BY <2>1
  <1>3. CASE Still
    BY <1>3 DEF Still
  <1>4. \A c \in Conns : ~ConnEvent(c)
    BY NoConnNoEvent DEF PhaseInv
  <1>5. "timer" \notin active /\ "running" \notin active
          /\ "wait" \notin active /\ "cleanup" \notin active
    BY DEF TimersInv, PhaseTimers
  <1>6. ~(TimerRunning \/ TimerWaiting \/ TimerCleanupWaiting \/ TimerIdle
            \/ RunningTimer \/ WaitingTimer \/ CleanupTimer \/ Start)
    BY <1>5 DEF TimerRunning, TimerWaiting, TimerCleanupWaiting, TimerIdle,
                RunningTimer, WaitingTimer, CleanupTimer, Start
  <1> QED
    BY <1>1, <1>2, <1>3, <1>4, <1>6, NextCases
       DEF Dispatch, TimerEvent, PollSome

\* Every phase begins as it should and stays so.
LEMMA PhaseInvStep ==
    ASSUME AllInv, IInv', [Next]_vars
    PROVE  PhaseInv'
  <1>1. /\ IInv /\ QuotaInv /\ TimersInv /\ PhaseInv /\ mgr_state # "INIT"
    BY DEF AllInv, PhaseInv
  <1>2. PhaseStep
    BY <1>1, PhaseSteps
  <1>3. mgr_state # "RUNNING" =>
          Live' \subseteq Live /\ \A c \in Conns : Moves(conn[c], conn'[c])
    BY <1>1, ListAfter
  <1>4. mgr_state' # "INIT"
    BY <1>1, <1>2 DEF PhaseStep
  <1>5. mgr_state' \in {"NONE", "COMPLETED"} => Live' = {}
    <2>1. CASE mgr_state' = mgr_state
      BY <1>1, <1>3, <2>1 DEF PhaseInv
    <2>2. CASE mgr_state = "CLEANUP_WAITING" /\ stats.nconn = 0
      BY <1>1, <1>3, <2>2, NconnZero
    <2> QED
      BY <1>2, <2>1, <2>2 DEF PhaseStep
  <1>6. ASSUME mgr_state' = "CLEANUP_WAITING", NEW c \in Live'
        PROVE  conn'[c].is_dead
    <2>0. c \in Conns /\ conn'[c].live
      BY DEF Live
    <2>1. CASE mgr_state = "CLEANUP_WAITING"
      <3>1. c \in Live /\ Moves(conn[c], conn'[c])
        BY <1>3, <2>0, <2>1
      <3> QED
        BY <1>1, <2>0, <2>1, <3>1 DEF PhaseInv, Moves
    <2>2. CASE mgr_state = "CLEANUP" /\ CleanupTimer
      <3>1. conn[c].live
        BY <1>3, <2>0, <2>2 DEF Moves
      <3> QED
        BY <1>1, <2>0, <2>2, <3>1, CleanupTimerFacts
    <2> QED
      BY <1>2, <1>6, <2>1, <2>2 DEF PhaseStep
  <1>7. ASSUME mgr_state' = "COMPLETED"
        PROVE  "stat" \in armed' \cup active' \/ reported'
    <2>1. CASE mgr_state = "COMPLETED"
      <3>1. "stat" \in armed \cup active \/ reported
        BY <1>1, <2>1 DEF PhaseInv
      <3>2. CASE StatTimer
        BY <3>2 DEF StatTimer
      <3>3. CASE /\ armed' \cup active' = armed \cup active
                 /\ UNCHANGED <<cfg, stats, reported>>
        BY <3>1, <3>3
      <3> QED
        BY <1>1, <2>1, <3>2, <3>3, CompletedSteps
    <2>2. CASE /\ mgr_state = "CLEANUP_WAITING"
               /\ active' = active \ {"timer"} /\ armed' = armed \ {"timer"}
      <3>1. "stat" \in armed \cup active
        BY <1>1, <2>2 DEF TimersInv, PhaseTimers
      <3> QED
        BY <2>2, <3>1
    <2> QED
      BY <1>2, <1>7, <2>1, <2>2 DEF PhaseStep
  <1> QED
    BY <1>4, <1>5, <1>6, <1>7 DEF PhaseInv

\* All of it holds in every state.
LEMMA AllInvariant == Spec => []AllInv
  <1>1. Init => PhaseInv
    <2> SUFFICES ASSUME Init PROVE PhaseInv
      OBVIOUS
    <2>1. \A c \in Conns : ~conn[c].live
      BY DEF Init, FreeConn
    <2> QED
      BY <2>1 DEF Init, PhaseInv, Live
  <1>2. AllInv /\ IInv' /\ [Next]_vars => PhaseInv'
    BY PhaseInvStep
  <1>3. AllInv <=> IInv /\ QuotaInv /\ TimersInv /\ PhaseInv
    BY DEF AllInv
  <1> QED
    BY <1>1, <1>2, <1>3, QuotaInvariant, TimersInvariant, PTL DEF Spec

------------------------------------------------------------------------------
(* The end of a run                                                        *)

\* A completed manager has no connection left, and the event loop runs out of
\* events only after the final counters were reported.
THEOREM ExitIsClean == Spec => []CleanExit
  <1>1. AllInv => CleanExit
    BY DEF AllInv, PhaseInv, CleanExit, Terminated, QueueEmpty
  <1> QED
    BY <1>1, AllInvariant, PTL

\* Phases are gone through in order; connections are opened only in RUNNING;
\* in forced cleanup nothing is left alive.
THEOREM PhasesGoForward == Spec => LifecycleForward
  <1> DEFINE Forward ==
               /\ Phase[mgr_state'] >= Phase[mgr_state]
               /\ mgr_state # "RUNNING" => Live' \subseteq Live
               /\ mgr_state = "CLEANUP_WAITING" => \A c \in Live : conn[c].is_dead
  <1>1. AllInv /\ [Next]_vars => Forward
    <2> SUFFICES ASSUME AllInv, [Next]_vars PROVE Forward
      OBVIOUS
    <2>1. /\ IInv /\ QuotaInv /\ TimersInv /\ PhaseInv /\ mgr_state # "INIT"
          /\ mgr_state \in States
      BY DEF AllInv, PhaseInv, IInv, StateType
    <2>2. PhaseStep
      BY <2>1, PhaseSteps
    <2>3. mgr_state # "RUNNING" => Live' \subseteq Live
      BY <2>1, ListAfter
    <2>4. Phase[mgr_state'] >= Phase[mgr_state]
      BY <2>1, <2>2 DEF PhaseStep, Phase, States
    <2> QED
      BY <2>1, <2>3, <2>4 DEF PhaseInv
  <1>2. AllInv /\ [Next]_vars => [Forward]_vars
    BY <1>1
  <1> QED
    BY <1>2, AllInvariant, PTL DEF Spec, LifecycleForward

\* Once RUNNING is over no callback queues another request on a connection
\* without a request limit of its own.
THEOREM NoNewRequests == Spec => QuietAfterRunning
  <1> DEFINE Silent == mgr_state # "RUNNING" /\ cfg.target_request_count <= 0 =>
               \A c \in Conns : conn'[c].pending_http_req => conn[c].pending_http_req
  <1>1. AllInv /\ [Next]_vars => Silent
    <2> SUFFICES ASSUME AllInv, [Next]_vars, mgr_state # "RUNNING",
                        cfg.target_request_count <= 0,
                        NEW c \in Conns, conn'[c].pending_http_req
                 PROVE  conn[c].pending_http_req
      OBVIOUS
    <2>1. IInv /\ QuotaInv /\ mgr_state # "INIT"
      BY DEF AllInv, PhaseInv
    <2>2. Moves(conn[c], conn'[c])
      BY <2>1, ListAfter
    <2> QED
      BY <2>2 DEF Moves, ConnCheckCreateHttpRequest
  <1>2. AllInv /\ [Next]_vars => [Silent]_vars
    BY <1>1
  <1> QED
    BY <1>2, AllInvariant, PTL DEF Spec, QuietAfterRunning

------------------------------------------------------------------------------
(* Refinement                                                              *)

\* When the loop of a completed manager has ended.
LEMMA TerminatedWhen ==
    ASSUME IInv, mgr_state = "COMPLETED", Live = {}
    PROVE  Terminated <=> armed \cup active = {}
  BY NoConnNoEvent DEF Terminated, QueueEmpty

\* The initial states are initial states of the lifecycle.
LEMMA LifecycleInit ==
    ASSUME Init
    PROVE  Lifecycle!Init
  <1>1. Live = {}
    BY DEF Init, FreeConn, Live
  <1>2. cfg.target_nconn \in Nat /\ cfg.target_total_nconn_count \in Int
    BY CfgTypes DEF Init
  <1>3. ~Terminated
    BY DEF Init, Terminated
  <1> QED
    BY <1>1, <1>2, <1>3 DEF Init, StatsZero, Lifecycle!Init

\* Every step is a step of the lifecycle, or changes nothing it speaks of.
LEMMA LifecycleStep ==
    ASSUME AllInv, AllInv', [Next]_vars
    PROVE  [Lifecycle!Next]_(Lifecycle!vars)
  <1>1. /\ IInv /\ QuotaInv /\ TimersInv /\ PhaseInv /\ mgr_state # "INIT"
        /\ mgr_state \in States
        /\ IInv' /\ PhaseInv' /\ TimersInv'
    BY DEF AllInv, PhaseInv, IInv, StateType
  <1>2. PhaseStep
    BY <1>1, PhaseSteps
  <1>3. cfg' = cfg
    BY CfgFixed
  <1>4. /\ stats'.conn_count = stats.conn_count + Cardinality(Live' \ Live)
        /\ Live' \ Live # {} =>
             /\ mgr_state = "RUNNING"
             /\ cfg.target_total_nconn_count > 0 =>
                  stats'.conn_count <= cfg.target_total_nconn_count
        /\ mgr_state # "RUNNING" =>
             Live' \subseteq Live /\ stats'.conn_count = stats.conn_count
    BY <1>1, ListAfter
  <1>5. reported' \in BOOLEAN
    BY <1>1 DEF IInv, StateType
  <1>6. /\ mgr_state # "COMPLETED" => Terminated = FALSE
        /\ mgr_state' # "COMPLETED" => Terminated' = FALSE
    BY DEF Terminated
  <1> DEFINE lim == [nconn |-> cfg.target_nconn,
                     total |-> cfg.target_total_nconn_count]
  <1>7. lim' = lim /\ lim.nconn = cfg.target_nconn
          /\ lim.total = cfg.target_total_nconn_count
    BY <1>3
  <1>8. CASE mgr_state = "NONE"
    <2>1. CASE Start
      BY <1>6, <1>7, <1>8, <2>1 DEF Start, Live, Lifecycle!Next, Lifecycle!Begin
    <2>2. CASE mgr_state' = mgr_state
      <3>1. Live = {} /\ Live' = {}
        BY <1>1, <1>8, <2>2 DEF PhaseInv
      <3>2. reported' = reported
        <4>1. active = {} /\ \A c \in Conns : ~ConnEvent(c)
          BY <1>1, <1>8, <3>1, NoConnNoEvent DEF TimersInv
        <4> QED
          BY <1>8, <4>1, NextCases DEF Start, PollSome, Poll, Dispatch,
             TimerEvent, TimerRunning, TimerWaiting, TimerCleanupWaiting,
             TimerIdle, StatTimer, RunningTimer, WaitingTimer, CleanupTimer, Still
      <3> QED
        BY <1>4, <1>6, <1>7, <1>8, <2>2, <3>1, <3>2 DEF Lifecycle!vars
    <2> QED
      BY <1>2, <1>8, <2>1, <2>2 DEF PhaseStep
  <1>9. CASE mgr_state = "RUNNING"
    <2>1. mgr_state' \in {"RUNNING", "WAITING"}
      BY <1>2, <1>9 DEF PhaseStep
    <2>2. Terminated' = Terminated
      BY <1>6, <1>9, <2>1
    <2>3. Live' \in SUBSET Conns /\ Cardinality(Live') <= cfg.target_nconn
      BY <1>1, <1>3 DEF Live, IInv, NconnMatchesList
    <2>4. cfg.target_total_nconn_count > 0 /\ stats'.conn_count > stats.conn_count =>
            stats'.conn_count <= cfg.target_total_nconn_count
      <3>1. stats.conn_count \in Nat /\ Cardinality({}) = 0
        BY <1>1, FS_EmptySet DEF IInv, StateType, StatsType
      <3>2. CASE Live' \ Live = {}
        <4>1. stats'.conn_count = stats.conn_count + Cardinality({})
          BY <1>4, <3>2
        <4> QED
          BY <3>1, <4>1
      <3> QED
        BY <1>4, <3>2
    <2>5. \A S : Lifecycle!Cardinality(S) = Cardinality(S)
      BY DEF Lifecycle!Cardinality, Cardinality
    <2>6. Lifecycle!Run
      BY <1>4, <1>5, <1>7, <1>9, <2>1, <2>2, <2>3, <2>4, <2>5 DEF Lifecycle!Run
    <2> QED
      BY <2>6 DEF Lifecycle!Next
  <1>10. CASE mgr_state \in {"WAITING", "CLEANUP", "CLEANUP_WAITING"}
    <2>1. mgr_state' \in {mgr_state, Lifecycle!After[mgr_state]}
            /\ mgr_state \in DOMAIN Lifecycle!After
      BY <1>2, <1>10 DEF PhaseStep, Lifecycle!After
    <2>2. mgr_state' = "COMPLETED" => Live' = {}
      BY <1>1 DEF PhaseInv
    <2>3. Terminated' = FALSE
      <3>1. CASE mgr_state' = "COMPLETED"
        <4>1. /\ mgr_state = "CLEANUP_WAITING"
              /\ active' = active \ {"timer"} /\ armed' = armed \ {"timer"}
          BY <1>2, <1>10, <3>1 DEF PhaseStep
        <4>2. "stat" \in armed \cup active
          BY <1>1, <4>1 DEF TimersInv, PhaseTimers
        <4> QED
          BY <4>1, <4>2 DEF Terminated, QueueEmpty
      <3> QED
        BY <1>6, <3>1
    <2>4. Terminated = FALSE
      BY <1>6, <1>10
    <2>5. Lifecycle!Drain
      BY <1>4, <1>5, <1>7, <1>10, <2>1, <2>2, <2>3, <2>4 DEF Lifecycle!Drain
    <2> QED
      BY <2>5 DEF Lifecycle!Next
  <1>11. CASE mgr_state = "COMPLETED"
    <2>1. mgr_state' = "COMPLETED" /\ Live = {} /\ Live' = {}
      BY <1>1, <1>2, <1>11 DEF PhaseStep, PhaseInv
    <2>2. /\ Terminated <=> armed \cup active = {}
          /\ Terminated' <=> armed' \cup active' = {}
      <3>1. Terminated <=> armed \cup active = {}
        BY <1>1, <1>11, <2>1, TerminatedWhen
      <3>2. \A c \in Conns : conn'[c].armed = {} /\ conn'[c].active = {}
        BY <1>1, <2>1 DEF IInv, ConnsOK, ConnOK, Live
      <3>3. Terminated' <=> armed' \cup active' = {}
        BY <2>1, <3>2 DEF Terminated, QueueEmpty
      <3> QED
        BY <3>1, <3>3
    <2>3. stats'.conn_count = stats.conn_count
      BY <1>4, <1>11
    <2>4. CASE StatTimer
      <3>1. reported' = TRUE /\ Terminated = FALSE /\ Terminated' \in BOOLEAN
        BY <2>2, <2>4 DEF StatTimer, Terminated
      <3>2. Lifecycle!Report
        BY <1>7, <1>11, <2>1, <2>3, <3>1 DEF Lifecycle!Report
      <3> QED
        BY <3>2 DEF Lifecycle!Next
    <2>5. CASE /\ armed' \cup active' = armed \cup active
               /\ UNCHANGED <<cfg, stats, reported>>
      <3>1. Terminated' = Terminated
        BY <2>2, <2>5 DEF Terminated
      <3> QED
        BY <1>7, <1>11, <2>1, <2>3, <2>5, <3>1 DEF Lifecycle!vars
    <2> QED
      BY <1>1, <1>11, <2>4, <2>5, CompletedSteps
  <1> QED
    BY <1>1, <1>8, <1>9, <1>10, <1>11 DEF States

\* The manager implements its abstract specification, for every configuration
\* and every pool of connections.
THEOREM LifecycleImplemented == Spec => ImplementsLifecycle
  <1>1. Init => Lifecycle!Init
    BY LifecycleInit
  <1>2. AllInv /\ AllInv' /\ [Next]_vars => [Lifecycle!Next]_(Lifecycle!vars)
    BY LifecycleStep
  <1> QED
    BY <1>1, <1>2, AllInvariant, PTL DEF Spec, ImplementsLifecycle, Lifecycle!Spec
==============================================================================
