------------------------------ MODULE AppProofs ------------------------------
(***************************************************************************)
(* The client's threads, for any number of workers and of requests: what   *)
(* is freed is no longer used, the totals are consistent, and a sweep of   *)
(* the statistics thread adds up to no less than the one before.           *)
(***************************************************************************)
EXTENDS App, WellFoundedInduction, TLAPS

\* The types, but for sum.from, of which Sweep speaks.
Types ==
    /\ main \in [pc : {"create", "join", "join_stats", "print", "free", "exited"},
                 i : 1..(NumThreads + 1)]
    /\ worker \in [Workers -> {"none", "run", "locked", "copied", "done"}]
    /\ stats \in [Workers -> StatsType]
    /\ prev_stats \in [Workers -> StatsType]
    /\ mtx \in [Workers -> {"free", "worker", "stats", "destroyed"}]
    /\ sum = [pc |-> sum.pc, i |-> sum.i, total |-> sum.total, from |-> sum.from]
    /\ sum.pc \in {"none", "check", "sleep", "sweep", "locked", "added", "done"}
    /\ sum.i \in 1..(NumThreads + 1)
    /\ sum.total \in StatsType
    /\ app_prev_stats \in StatsType

\* main joins the workers in turn, then the statistics thread, and only then
\* frees.
Shutdown ==
    /\ main.pc = "join" => \A w \in Workers : w < main.i => worker[w] = "done"
    /\ main.pc \in {"join_stats", "print", "free"} =>
         \A w \in Workers : worker[w] = "done"
    /\ main.pc \in {"print", "free"} => sum.pc = "done"
    /\ main.pc \notin {"free", "exited"} => \A w \in Workers : mtx[w] # "destroyed"
    /\ FreedWhenUnused

\* Who copies or adds holds the mutex.
Locks ==
    /\ \A w \in Workers : worker[w] \in {"locked", "copied"} => mtx[w] = "worker"
    /\ sum.pc \in {"locked", "added"} => sum.i \in Workers /\ mtx[sum.i] = "stats"

\* A snapshot is no newer than the counters; half copied, it has the new
\* req_count.
Ordered(w) ==
    /\ stats[w].req_count_ok <= stats[w].req_count
    /\ prev_stats[w].req_count <= stats[w].req_count
    /\ prev_stats[w].req_count_ok <= stats[w].req_count_ok
    /\ prev_stats[w].req_count_ok <= prev_stats[w].req_count
    /\ worker[w] = "copied" => prev_stats[w].req_count = stats[w].req_count

Counters == \A w \in Workers : Ordered(w)

\* With one counter of a snapshot added, there is room for the other.
Totals ==
    /\ TotalsConsistent
    /\ sum.pc = "added" =>
         sum.total.req_count_ok + prev_stats[sum.i].req_count_ok
           <= sum.total.req_count

AppInv == Types /\ Shutdown /\ Locks /\ Counters /\ Totals

USE DEF Workers

------------------------------------------------------------------------------
LEMMA AppInit == Init => AppInv
  <1> SUFFICES ASSUME Init PROVE AppInv
    OBVIOUS
  <1> USE AppAssumption DEF Init
  <1>1. StatsZero \in StatsType /\ StatsZero.req_count = 0 /\ StatsZero.req_count_ok = 0
    BY DEF StatsZero, StatsType
  <1>2. Types
    BY <1>1 DEF Types, ThrSetup
  <1>3. Shutdown
    BY DEF Shutdown, FreedWhenUnused, ThrSetup
  <1>4. Locks
    BY DEF Locks
  <1>5. Counters /\ Totals
    BY <1>1 DEF Counters, Ordered, Totals, TotalsConsistent
  <1> QED
    BY <1>2, <1>3, <1>4, <1>5 DEF AppInv

\* One of the counters changes.
LEMMA OneCounter ==
    ASSUME NEW s \in StatsType, NEW n \in Nat
    PROVE  LET a == [s EXCEPT !.req_count = n]
               b == [s EXCEPT !.req_count_ok = n]
           IN  /\ a \in StatsType /\ a.req_count = n
               /\ a.req_count_ok = s.req_count_ok
               /\ b \in StatsType /\ b.req_count_ok = n
               /\ b.req_count = s.req_count
  BY DEF StatsType

\* One worker's req_count changes.
LEMMA NewReqCount ==
    ASSUME NEW f \in [Workers -> StatsType], NEW w \in Workers, NEW n \in Nat,
           NEW g, g = [f EXCEPT ![w].req_count = n]
    PROVE  /\ g \in [Workers -> StatsType]
           /\ \A v \in Workers \ {w} : g[v] = f[v]
           /\ g[w].req_count = n
           /\ g[w].req_count_ok = f[w].req_count_ok
  <1> DEFINE c == [f[w] EXCEPT !.req_count = n]
  <1>1. c \in StatsType /\ c.req_count = n /\ c.req_count_ok = f[w].req_count_ok
    BY OneCounter
  <1>2. g = [f EXCEPT ![w] = c]
    OBVIOUS
  <1> HIDE DEF c
  <1> QED
    BY <1>1, <1>2

\* One worker's req_count_ok changes.
LEMMA NewReqCountOk ==
    ASSUME NEW f \in [Workers -> StatsType], NEW w \in Workers, NEW n \in Nat,
           NEW g, g = [f EXCEPT ![w].req_count_ok = n]
    PROVE  /\ g \in [Workers -> StatsType]
           /\ \A v \in Workers \ {w} : g[v] = f[v]
           /\ g[w].req_count_ok = n
           /\ g[w].req_count = f[w].req_count
  <1> DEFINE c == [f[w] EXCEPT !.req_count_ok = n]
  <1>1. c \in StatsType /\ c.req_count_ok = n /\ c.req_count = f[w].req_count
    BY OneCounter
  <1>2. g = [f EXCEPT ![w] = c]
    OBVIOUS
  <1> HIDE DEF c
  <1> QED
    BY <1>1, <1>2

\* The steps of a worker.
LEMMA WorkerStepInv ==
    ASSUME AppInv, NEW w \in Workers, WorkerStep(w)
    PROVE  AppInv'
  <1> USE AppAssumption DEF AppInv
  <1>1. CASE WorkerCounts(w)
    <2> USE <1>1 DEF WorkerCounts
    <2>1. UNCHANGED <<main, worker, prev_stats, mtx, sum, app_prev_stats>>
      OBVIOUS
    <2>2. /\ stats \in [Workers -> StatsType]
          /\ stats[w].req_count_ok <= stats[w].req_count
          /\ stats[w].req_count \in Nat /\ stats[w].req_count_ok \in Nat
      BY DEF Types, StatsType, Counters, Ordered
    <2>7. \/ stats' = [stats EXCEPT ![w].req_count = stats[w].req_count + 1]
          \/ /\ stats[w].req_count_ok < stats[w].req_count
             /\ stats' = [stats EXCEPT ![w].req_count_ok = stats[w].req_count_ok + 1]
      OBVIOUS
    <2>3. /\ stats' \in [Workers -> StatsType]
          /\ \A v \in Workers \ {w} : stats'[v] = stats[v]
          /\ stats'[w].req_count >= stats[w].req_count
          /\ stats'[w].req_count_ok >= stats[w].req_count_ok
          /\ stats'[w].req_count_ok <= stats'[w].req_count
      <3> HIDE <1>1, AppAssumption DEF WorkerCounts, AppInv, Workers
      <3>1. CASE stats' = [stats EXCEPT ![w].req_count = stats[w].req_count + 1]
        <4>0. stats[w].req_count + 1 \in Nat
          BY <2>2
        <4>1. /\ stats' \in [Workers -> StatsType]
              /\ \A v \in Workers \ {w} : stats'[v] = stats[v]
              /\ stats'[w].req_count = stats[w].req_count + 1
              /\ stats'[w].req_count_ok = stats[w].req_count_ok
          BY <2>2, <4>0, <3>1, NewReqCount
        <4> QED
          BY <2>2, <4>1
      <3>2. CASE /\ stats[w].req_count_ok < stats[w].req_count
                 /\ stats' = [stats EXCEPT ![w].req_count_ok = stats[w].req_count_ok + 1]
        <4>0. stats[w].req_count_ok + 1 \in Nat
          BY <2>2
        <4>1. /\ stats' \in [Workers -> StatsType]
              /\ \A v \in Workers \ {w} : stats'[v] = stats[v]
              /\ stats'[w].req_count = stats[w].req_count
              /\ stats'[w].req_count_ok = stats[w].req_count_ok + 1
          BY <2>2, <4>0, <3>2, NewReqCountOk
        <4> QED
          BY <2>2, <3>2, <4>1
      <3> QED
        BY <2>7, <3>1, <3>2
    <2>4. Types'
      BY <2>1, <2>3 DEF Types
    <2>5. Shutdown' /\ Locks' /\ Totals'
      BY <2>1 DEF Shutdown, Locks, Totals, TotalsConsistent, FreedWhenUnused
    <2>6. Counters'
      <3>0. Ordered(w) /\ stats[w] \in StatsType /\ prev_stats[w] \in StatsType
        BY DEF Types, Counters
      <3>1. Ordered(w)'
        BY <3>0, <2>1, <2>3 DEF Types, Ordered, StatsType
      <3>2. ASSUME NEW v \in Workers \ {w} PROVE Ordered(v)'
        BY <2>1, <2>3 DEF Types, Counters, Ordered
      <3> QED
        BY <3>1, <3>2 DEF Counters
    <2> QED
      BY <2>4, <2>5, <2>6
  <1>2. CASE PublishLock(w)
    <2> USE <1>2 DEF PublishLock
    <2>1. Types'
      BY DEF Types
    <2>2. Shutdown'
      BY DEF Types, Shutdown, FreedWhenUnused, Running
    <2>3. Locks'
      BY DEF Types, Locks
    <2>4. Counters'
      BY DEF Types, Counters, Ordered
    <2>5. Totals'
      BY DEF Totals, TotalsConsistent
    <2> QED
      BY <2>1, <2>2, <2>3, <2>4, <2>5
  <1>3. CASE PublishReqCount(w)
    <2> USE <1>3 DEF PublishReqCount, Copied
    <2>0. /\ \A v \in Workers \ {w} : prev_stats'[v] = prev_stats[v]
          /\ prev_stats'[w].req_count = stats[w].req_count
          /\ prev_stats'[w].req_count_ok = prev_stats[w].req_count_ok
          /\ prev_stats' \in [Workers -> StatsType]
      <3> DEFINE c == [prev_stats[w] EXCEPT !.req_count = stats[w].req_count]
      <3>1. prev_stats' = [prev_stats EXCEPT ![w] = c]
        OBVIOUS
      <3>2. /\ prev_stats \in [Workers -> StatsType]
            /\ prev_stats[w] \in StatsType /\ stats[w].req_count \in Nat
        BY DEF Types, StatsType
      <3> HIDE <1>3 DEF PublishReqCount, Copied, AppInv, Workers
      <3>3. /\ c \in StatsType /\ c.req_count = stats[w].req_count
            /\ c.req_count_ok = prev_stats[w].req_count_ok
        BY <3>2, OneCounter
      <3> HIDE DEF c
      <3> QED
        BY <3>1, <3>2, <3>3
    <2>1. Types'
      BY <2>0 DEF Types
    <2>2. Shutdown'
      BY DEF Types, Shutdown, FreedWhenUnused, Running
    <2>3. Locks'
      BY DEF Types, Locks
    <2>4. Counters'
      <3>0. Ordered(w) /\ stats[w] \in StatsType /\ prev_stats[w] \in StatsType
        BY DEF Types, Counters
      <3>1. Ordered(w)'
        BY <3>0, <2>0 DEF Types, Ordered, StatsType
      <3>2. ASSUME NEW v \in Workers \ {w} PROVE Ordered(v)'
        BY <2>0 DEF Types, Counters, Ordered
      <3> QED
        BY <3>1, <3>2 DEF Counters
    <2>5. Totals'
      BY <2>0 DEF Totals, TotalsConsistent, Locks, Types
    <2> QED
      BY <2>1, <2>2, <2>3, <2>4, <2>5
  <1>4. CASE PublishReqCountOk(w)
    <2> USE <1>4 DEF PublishReqCountOk, Copied
    <2>0. /\ \A v \in Workers \ {w} : prev_stats'[v] = prev_stats[v]
          /\ prev_stats'[w].req_count = prev_stats[w].req_count
          /\ prev_stats'[w].req_count_ok = stats[w].req_count_ok
          /\ prev_stats' \in [Workers -> StatsType]
      <3> DEFINE c == [prev_stats[w] EXCEPT !.req_count_ok = stats[w].req_count_ok]
      <3>1. prev_stats' = [prev_stats EXCEPT ![w] = c]
        OBVIOUS
      <3>2. /\ prev_stats \in [Workers -> StatsType]
            /\ prev_stats[w] \in StatsType /\ stats[w].req_count_ok \in Nat
        BY DEF Types, StatsType
      <3> HIDE <1>4 DEF PublishReqCountOk, Copied, AppInv, Workers
      <3>3. /\ c \in StatsType /\ c.req_count_ok = stats[w].req_count_ok
            /\ c.req_count = prev_stats[w].req_count
        BY <3>2, OneCounter
      <3> HIDE DEF c
      <3> QED
        BY <3>1, <3>2, <3>3
    <2>1. Types'
      BY <2>0 DEF Types
    <2>2. Shutdown'
      BY DEF Types, Shutdown, FreedWhenUnused, Running
    <2>3. Locks'
      BY DEF Types, Locks
    <2>4. Counters'
      <3>0. Ordered(w) /\ stats[w] \in StatsType /\ prev_stats[w] \in StatsType
        BY DEF Types, Counters
      <3>1. Ordered(w)'
        BY <3>0, <2>0 DEF Types, Ordered, StatsType
      <3>2. ASSUME NEW v \in Workers \ {w} PROVE Ordered(v)'
        BY <2>0 DEF Types, Counters, Ordered
      <3> QED
        BY <3>1, <3>2 DEF Counters
    <2>5. Totals'
      BY <2>0 DEF Totals, TotalsConsistent, Locks, Types
    <2> QED
      BY <2>1, <2>2, <2>3, <2>4, <2>5
  <1>5. CASE WorkerEnds(w)
    <2> USE <1>5 DEF WorkerEnds
    <2>1. Types'
      BY DEF Types
    <2>2. Shutdown'
      BY DEF Types, Shutdown, FreedWhenUnused
    <2>3. Locks' /\ Counters' /\ Totals'
      BY DEF Types, Locks, Counters, Ordered, Totals, TotalsConsistent
    <2> QED
      BY <2>1, <2>2, <2>3
  <1> QED
    BY <1>1, <1>2, <1>3, <1>4, <1>5 DEF WorkerStep

\* The steps of the statistics thread.
LEMMA SumStepInv ==
    ASSUME AppInv, SumStep
    PROVE  AppInv'
  <1> USE AppAssumption DEF AppInv
  <1>0. /\ sum.total \in StatsType /\ sum.total.req_count \in Nat
        /\ sum.total.req_count_ok \in Nat
    BY DEF Types, StatsType
  <1>1. CASE SumCheck
    <2> USE <1>1 DEF SumCheck
    <2>1. Types'
      BY DEF Types
    <2>2. Shutdown'
      BY DEF Types, Shutdown, FreedWhenUnused
    <2>3. Locks' /\ Counters' /\ Totals'
      BY DEF Types, Locks, Counters, Ordered, Totals, TotalsConsistent
    <2> QED
      BY <2>1, <2>2, <2>3
  <1>2. CASE SumWake
    <2> USE <1>2 DEF SumWake
    <2>0. StatsZero \in StatsType /\ StatsZero.req_count = 0 /\ StatsZero.req_count_ok = 0
      BY DEF StatsZero, StatsType
    <2>1. Types'
      BY <2>0 DEF Types
    <2>2. Shutdown'
      BY DEF Types, Shutdown, FreedWhenUnused
    <2>3. Locks' /\ Counters' /\ Totals'
      BY <2>0 DEF Types, Locks, Counters, Ordered, Totals, TotalsConsistent
    <2> QED
      BY <2>1, <2>2, <2>3
  <1>3. CASE SumLock
    <2> USE <1>3 DEF SumLock
    <2>0. sum.i \in Workers
      BY DEF Types
    <2>1. Types'
      BY DEF Types
    <2>2. Shutdown'
      BY <2>0 DEF Types, Shutdown, FreedWhenUnused
    <2>3. Locks'
      BY <2>0 DEF Types, Locks
    <2>4. Counters' /\ Totals'
      BY DEF Types, Counters, Ordered, Totals, TotalsConsistent
    <2> QED
      BY <2>1, <2>2, <2>3, <2>4
  <1>4. CASE SumReqCount
    <2> USE <1>4 DEF SumReqCount, Added
    <2>0. /\ sum.i \in Workers /\ prev_stats[sum.i].req_count \in Nat
          /\ prev_stats[sum.i].req_count_ok \in Nat
          /\ prev_stats[sum.i].req_count_ok <= prev_stats[sum.i].req_count
      BY DEF Types, Locks, StatsType, Counters, Ordered
    <2>1. /\ sum'.total \in StatsType
          /\ sum'.total.req_count = sum.total.req_count + prev_stats[sum.i].req_count
          /\ sum'.total.req_count_ok = sum.total.req_count_ok
          /\ sum'.pc = "added" /\ sum'.i = sum.i
          /\ sum' = [pc |-> sum'.pc, i |-> sum'.i, total |-> sum'.total,
                     from |-> sum'.from]
      <3> DEFINE t == [sum.total EXCEPT !.req_count =
                         sum.total.req_count + prev_stats[sum.i].req_count]
      <3>1. /\ t \in StatsType /\ t.req_count_ok = sum.total.req_count_ok
            /\ t.req_count = sum.total.req_count + prev_stats[sum.i].req_count
        <4> HIDE <1>4, AppAssumption DEF SumReqCount, Added, AppInv, Workers
        <4>1. sum.total.req_count + prev_stats[sum.i].req_count \in Nat
          BY <1>0, <2>0
        <4> QED
          BY <1>0, <4>1, OneCounter
      <3>2. sum' = [pc |-> "added", i |-> sum.i, total |-> t, from |-> sum.from]
        BY DEF Types
      <3> HIDE DEF t, SumReqCount, AppInv
      <3> QED
        BY <3>1, <3>2
    <2>2. Types'
      BY <2>1 DEF Types
    <2>3. Shutdown' /\ Locks' /\ Counters'
      BY <2>1 DEF Types, Shutdown, FreedWhenUnused, Locks, Counters, Ordered
    <2>4. Totals'
      BY <1>0, <2>0, <2>1 DEF Totals, TotalsConsistent
    <2> QED
      BY <2>2, <2>3, <2>4
  <1>5. CASE SumReqCountOk
    <2> USE <1>5 DEF SumReqCountOk, Added
    <2>0. sum.i \in Workers /\ prev_stats[sum.i].req_count_ok \in Nat
      BY DEF Types, Locks, StatsType
    <2>1. /\ sum'.total \in StatsType
          /\ sum'.total.req_count = sum.total.req_count
          /\ sum'.total.req_count_ok
               = sum.total.req_count_ok + prev_stats[sum.i].req_count_ok
          /\ sum'.pc = "sweep" /\ sum'.i \in 1..(NumThreads + 1)
          /\ sum' = [pc |-> sum'.pc, i |-> sum'.i, total |-> sum'.total,
                     from |-> sum'.from]
      <3> DEFINE t == [sum.total EXCEPT !.req_count_ok =
                         sum.total.req_count_ok + prev_stats[sum.i].req_count_ok]
      <3>1. /\ t \in StatsType /\ t.req_count = sum.total.req_count
            /\ t.req_count_ok
                 = sum.total.req_count_ok + prev_stats[sum.i].req_count_ok
        <4> HIDE <1>5, AppAssumption DEF SumReqCountOk, Added, AppInv, Workers
        <4>1. sum.total.req_count_ok + prev_stats[sum.i].req_count_ok \in Nat
          BY <1>0, <2>0
        <4> QED
          BY <1>0, <4>1, OneCounter
      <3>2. sum' = [pc |-> "sweep", i |-> sum.i + 1, total |-> t, from |-> sum.from]
        BY DEF Types
      <3>3. sum.i + 1 \in 1..(NumThreads + 1)
        BY <2>0
      <3> HIDE DEF t, SumReqCountOk, AppInv
      <3> QED
        BY <3>1, <3>2, <3>3
    <2>2. Types'
      BY <2>1 DEF Types
    <2>3. Shutdown'
      BY <2>1 DEF Types, Shutdown, FreedWhenUnused
    <2>4. Locks'
      BY <2>0, <2>1 DEF Types, Locks
    <2>5. Counters'
      BY DEF Counters, Ordered
    <2>6. Totals'
      BY <1>0, <2>0, <2>1 DEF Totals, TotalsConsistent
    <2> QED
      BY <2>2, <2>3, <2>4, <2>5, <2>6
  <1>6. CASE SumPrint
    <2> USE <1>6 DEF SumPrint
    <2>1. Types'
      BY DEF Types
    <2>2. Shutdown' /\ Locks' /\ Counters' /\ Totals'
      BY DEF Types, Shutdown, FreedWhenUnused, Locks, Counters, Ordered,
             Totals, TotalsConsistent
    <2> QED
      BY <2>1, <2>2
  <1> QED
    BY <1>1, <1>2, <1>3, <1>4, <1>5, <1>6 DEF SumStep

\* The steps of main.
LEMMA MainStepInv ==
    ASSUME AppInv, MainStep
    PROVE  AppInv'
  <1> USE AppAssumption DEF AppInv
  <1>1. CASE MainCreate
    <2> USE <1>1 DEF MainCreate
    <2>0. main.i \in Workers /\ main.i + 1 \in 1..(NumThreads + 1)
      BY DEF Types
    <2>1. Types'
      <3>1. main' = [pc |-> "create", i |-> main.i + 1]
        BY DEF Types
      <3>2. worker' \in [Workers -> {"none", "run", "locked", "copied", "done"}]
        BY <2>0 DEF Types
      <3> QED
        BY <2>0, <3>1, <3>2 DEF Types
    <2>2. Shutdown'
      BY DEF Types, Shutdown, FreedWhenUnused
    <2>3. Locks'
      BY DEF Types, Locks
    <2>4. Counters' /\ Totals'
      BY DEF Types, Counters, Ordered, Totals, TotalsConsistent
    <2> QED
      BY <2>1, <2>2, <2>3, <2>4
  <1>2. CASE MainCreateStats
    <2> USE <1>2 DEF MainCreateStats
    <2>1. Types'
      BY DEF Types
    <2>2. Shutdown' /\ Locks' /\ Counters' /\ Totals'
      BY DEF Types, Shutdown, FreedWhenUnused, Locks, Counters, Ordered,
             Totals, TotalsConsistent
    <2> QED
      BY <2>1, <2>2
  <1>3. ASSUME UNCHANGED <<worker, stats, prev_stats, mtx, sum, app_prev_stats>>
        PROVE  Locks' /\ Counters' /\ Totals'
    BY <1>3 DEF Locks, Counters, Ordered, Totals, TotalsConsistent
  <1>4. CASE MainCreateFails \/ MainJoin \/ MainStop \/ MainJoinStats \/ MainPrint
    <2> USE <1>4 DEF MainCreateFails, MainJoin, MainStop, MainJoinStats, MainPrint
    <2>1. Types'
      BY DEF Types
    <2>2. Shutdown'
      BY DEF Types, Shutdown, FreedWhenUnused
    <2> QED
      BY <1>3, <2>1, <2>2
  <1>5. CASE MainFree
    <2> USE <1>5 DEF MainFree, ThrFree
    <2>1. Types'
      <3>1. /\ main' \in [pc : {"create", "join", "join_stats", "print", "free",
                                "exited"},
                          i : 1..(NumThreads + 1)]
            /\ mtx' \in [Workers -> {"free", "worker", "stats", "destroyed"}]
        <4>1. CASE main.i <= NumThreads
          <5>1. main' = [main EXCEPT !.i = @ + 1] /\ main.i + 1 \in 1..(NumThreads + 1)
            BY <4>1 DEF Types
          <5>2. main.i \in Workers /\ mtx' = [mtx EXCEPT ![main.i] = "destroyed"]
            BY <4>1 DEF Types
          <5> QED
            BY <5>1, <5>2 DEF Types
        <4>2. CASE ~(main.i <= NumThreads)
          BY <4>2 DEF Types
        <4> QED
          BY <4>1, <4>2
      <3>2. UNCHANGED <<worker, stats, prev_stats, sum, app_prev_stats>>
        OBVIOUS
      <3> QED
        BY <3>1, <3>2 DEF Types
    <2>2. Shutdown'
      BY DEF Types, Shutdown, FreedWhenUnused
    <2>3. Locks'
      BY DEF Types, Shutdown, Locks
    <2>4. Counters' /\ Totals'
      BY DEF Types, Counters, Ordered, Totals, TotalsConsistent
    <2> QED
      BY <2>1, <2>2, <2>3, <2>4
  <1> QED
    BY <1>1, <1>2, <1>4, <1>5 DEF MainStep

\* The invariant holds for any number of threads and requests.
LEMMA AppInvariant == Spec => []AppInv
  <1>1. AppInv /\ [Next]_vars => AppInv'
    <2> SUFFICES ASSUME AppInv, [Next]_vars PROVE AppInv'
      OBVIOUS
    <2>1. CASE UNCHANGED vars
      BY <2>1 DEF vars, AppInv, Types, Shutdown, FreedWhenUnused, Locks,
                  Counters, Ordered, Totals, TotalsConsistent
    <2> QED
      BY <2>1, WorkerStepInv, SumStepInv, MainStepInv DEF Next, Exited
  <1> QED
    BY <1>1, AppInit, PTL DEF Spec

\* However many workers there are, and whenever they end, clt_thr_free finds
\* neither a worker nor the statistics thread using what it destroys.
THEOREM NothingFreedInUse == Spec => []FreedWhenUnused
  <1>1. AppInv => FreedWhenUnused
    BY DEF AppInv, Shutdown
  <1> QED
    BY <1>1, AppInvariant, PTL

\* No total ever shows more responses than requests, although copying and
\* adding are not atomic: prev_stats_mtx is enough.
THEOREM MutexSuffices == Spec => []TotalsConsistent
  <1>1. AppInv => TotalsConsistent
    BY DEF AppInv, Totals
  <1> QED
    BY <1>1, AppInvariant, PTL

------------------------------------------------------------------------------
(* Sums over the workers.  What holds of every partial sum is shown by way  *)
(* of a least one it does not hold of.                                      *)

\* A set of natural numbers that is not empty has a least element.
LEMMA LeastElement ==
    ASSUME NEW T \in SUBSET Nat, T # {}
    PROVE  \E x \in T : \A y \in T : x <= y
  <1> DEFINE R == OpToRel(<, Nat)
  <1>1. IsWellFoundedOn(R, Nat)
    BY NatLessThanWellFounded
  <1>2. R = {ss \in Nat \X Nat : ss[1] < ss[2]}
    BY DEF OpToRel
  <1> HIDE DEF R
  <1>3. PICK x \in T : \A y \in T : ~(<<y, x>> \in R)
    BY <1>1, WFMin
  <1>4. \A y \in T : ~(y < x)
    BY <1>2, <1>3
  <1> QED
    BY <1>4

\* g has the partial sums of f up to m.
SumsUpTo(g, f, m) ==
    /\ g \in [0..m -> Nat]
    /\ g[0] = 0
    /\ \A k \in 1..m : g[k] = g[k - 1] + f[k]

\* There are partial sums up to every worker.
LEMMA SumsExist ==
    ASSUME NEW f \in [Workers -> Nat]
    PROVE  \E g : SumsUpTo(g, f, NumThreads)
  <1> DEFINE T == {m \in 0..NumThreads : ~\E g : SumsUpTo(g, f, m)}
  <1>0. NumThreads \in Nat
    BY AppAssumption
  <1> SUFFICES ASSUME ~\E g : SumsUpTo(g, f, NumThreads) PROVE FALSE
    OBVIOUS
  <1>a. NumThreads \in T
    BY <1>0
  <1>1. PICK m \in T : \A y \in T : m <= y
    <2>1. T \in SUBSET Nat
      BY <1>0
    <2> HIDE DEF T
    <2> QED
      BY <1>a, <2>1, LeastElement
  <1>2. m \in Nat /\ m <= NumThreads /\ ~\E g : SumsUpTo(g, f, m)
    BY <1>0
  <1>3. m # 0
    <2>1. SumsUpTo([k \in 0..0 |-> 0], f, 0)
      BY DEF SumsUpTo
    <2> QED
      BY <1>2, <2>1
  <1>4. PICK g : SumsUpTo(g, f, m - 1)
    <2>1. m - 1 \in 0..NumThreads /\ ~(m <= m - 1)
      BY <1>0, <1>2, <1>3
    <2>2. m - 1 \notin T
      BY <1>1, <2>1
    <2> QED
      BY <2>1, <2>2
  <1> DEFINE h == [k \in 0..m |-> IF k = m THEN g[m - 1] + f[m] ELSE g[k]]
  <1>5. SumsUpTo(h, f, m)
    <2>1. g[m - 1] + f[m] \in Nat
      BY <1>0, <1>2, <1>3, <1>4 DEF SumsUpTo
    <2>2. h \in [0..m -> Nat]
      BY <1>2, <1>4, <2>1 DEF SumsUpTo
    <2>3. h[0] = 0
      BY <1>2, <1>3, <1>4 DEF SumsUpTo
    <2>4. ASSUME NEW k \in 1..m
          PROVE  h[k] = h[k - 1] + f[k]
      <3>1. CASE k = m
        BY <1>2, <1>3, <3>1
      <3>2. CASE k # m
        <4>1. h[k] = g[k] /\ h[k - 1] = g[k - 1] /\ k \in 1..(m - 1)
          BY <1>2, <3>2
        <4> QED
          BY <1>4, <4>1 DEF SumsUpTo
      <3> QED
        BY <3>1, <3>2
    <2> HIDE DEF h
    <2> QED
      BY <2>2, <2>3, <2>4 DEF SumsUpTo
  <1> QED
    BY <1>2, <1>5

\* The recursive definition has them.
LEMMA PartialSumsFacts ==
    ASSUME NEW f \in [Workers -> Nat]
    PROVE  SumsUpTo(PartialSums(f), f, NumThreads)
  <1>0. NumThreads \in Nat
    BY AppAssumption
  <1> DEFINE Is(g) == g = [k \in 0..NumThreads |->
                             IF k = 0 THEN 0 ELSE g[k - 1] + f[k]]
  <1>1. PICK g : SumsUpTo(g, f, NumThreads)
    BY SumsExist
  <1>2. Is(g)
    BY <1>0, <1>1 DEF SumsUpTo
  <1>3. PartialSums(f) = CHOOSE h : Is(h)
    BY DEF PartialSums
  <1>4. Is(PartialSums(f))
    BY <1>2, <1>3
  <1>5. DOMAIN PartialSums(f) = 0..NumThreads
    BY <1>4
  <1> DEFINE T == {k \in 0..NumThreads : PartialSums(f)[k] # g[k]}
  <1>6. T = {}
    <2> SUFFICES ASSUME T # {} PROVE FALSE
      OBVIOUS
    <2>1. PICK m \in T : \A y \in T : m <= y
      <3>1. T \in SUBSET Nat
        BY <1>0
      <3> HIDE DEF T
      <3> QED
        BY <3>1, LeastElement
    <2>2. m \in 0..NumThreads /\ PartialSums(f)[m] # g[m]
      BY <2>1
    <2>3. m # 0
      BY <1>0, <1>1, <1>4, <2>2 DEF SumsUpTo
    <2>4. PartialSums(f)[m - 1] = g[m - 1]
      <3>1. m - 1 \in 0..NumThreads /\ ~(m <= m - 1)
        BY <1>0, <2>2, <2>3
      <3> QED
        BY <2>1, <3>1
    <2>5. PartialSums(f)[m] = PartialSums(f)[m - 1] + f[m]
      BY <1>0, <1>4, <2>2, <2>3
    <2>6. g[m] = g[m - 1] + f[m]
      BY <1>0, <1>1, <2>2, <2>3 DEF SumsUpTo
    <2> QED
      BY <2>2, <2>4, <2>5, <2>6
  <1>7. PartialSums(f) = g
    <2>1. \A k \in 0..NumThreads : PartialSums(f)[k] = g[k]
      BY <1>6
    <2> QED
      BY <1>1, <1>4, <2>1 DEF SumsUpTo
  <1> QED
    BY <1>1, <1>7

\* h is f, but for worker w's value, which is d more.
GrowsAt(f, h, w, d) ==
    h[w] = f[w] + d /\ \A x \in Workers \ {w} : h[x] = f[x]

\* When one worker's value grows by d, so do the sums from that worker on.
LEMMA SumsGrow ==
    ASSUME NEW f \in [Workers -> Nat], NEW h \in [Workers -> Nat],
           NEW w \in Workers, NEW d \in Nat, GrowsAt(f, h, w, d)
    PROVE  \A k \in 0..NumThreads :
             PartialSums(h)[k] = PartialSums(f)[k] + (IF w <= k THEN d ELSE 0)
  <1> DEFINE F == PartialSums(f)
             H == PartialSums(h)
             D(k) == IF w <= k THEN d ELSE 0
             T == {k \in 0..NumThreads : H[k] # F[k] + D(k)}
  <1>0. NumThreads \in Nat /\ w \in 1..NumThreads
    BY AppAssumption
  <1>1. SumsUpTo(F, f, NumThreads) /\ SumsUpTo(H, h, NumThreads)
    BY PartialSumsFacts
  <1> HIDE DEF F, H
  <1> SUFFICES ASSUME T # {} PROVE FALSE
    BY DEF F, H
  <1>2. PICK m \in T : \A y \in T : m <= y
    <2>1. T \in SUBSET Nat
      BY <1>0
    <2> HIDE DEF T
    <2> QED
      BY <2>1, LeastElement
  <1>3. m \in 0..NumThreads /\ H[m] # F[m] + D(m)
    BY <1>2
  <1>4. m # 0
    BY <1>0, <1>1, <1>3 DEF SumsUpTo
  <1>5. m \in Workers /\ m \in 1..NumThreads /\ m - 1 \in 0..NumThreads
    BY <1>0, <1>3, <1>4
  <1>6. H[m - 1] = F[m - 1] + D(m - 1)
    <2>1. ~(m <= m - 1)
      BY <1>5
    <2> QED
      BY <1>2, <1>5, <2>1
  <1>7. H[m] = H[m - 1] + h[m] /\ F[m] = F[m - 1] + f[m]
    BY <1>1, <1>5 DEF SumsUpTo
  <1>8. F[m - 1] \in Nat /\ f[m] \in Nat
    BY <1>1, <1>5 DEF SumsUpTo
  <1>9. h[m] = f[m] + (IF m = w THEN d ELSE 0)
    BY <1>5, <1>8 DEF GrowsAt
  <1>10. D(m) = D(m - 1) + (IF m = w THEN d ELSE 0)
    BY <1>0, <1>5
  <1>11. D(m - 1) \in Nat
    OBVIOUS
  <1> HIDE DEF D
  <1> QED
    BY <1>3, <1>6, <1>7, <1>8, <1>9, <1>10, <1>11

------------------------------------------------------------------------------
(* The sweep of the statistics thread                                      *)

Fields == {"req_count", "req_count_ok"}

\* A counter as published by each worker, and its sum up to worker k.
Snapshot(f) == [w \in Workers |-> prev_stats[w][f]]
UpTo(f, k) == PartialSums(Snapshot(f))[k]

\* The last worker whose counter f is in the total.
SweptTo(f) == IF sum.pc = "added" /\ f = "req_count" THEN sum.i ELSE sum.i - 1

Sweeping == sum.pc \in {"sweep", "locked", "added"}

\* What the total may still miss, compared with a sum x of what had been
\* published earlier, is still to be added.
Missing(x, f) ==
    x + UpTo(f, SweptTo(f)) <= sum.total[f] + UpTo(f, NumThreads)

\* The last total is no more than what is published now; the present one is no
\* more than what the workers already added have published, and with the others
\* it comes to no less than the last total and what was published at its start.
Sweep ==
    /\ sum.from \in Nat
    /\ stats_thread_run \in BOOLEAN
    /\ \A f \in Fields : app_prev_stats[f] <= UpTo(f, NumThreads)
    /\ Sweeping =>
         /\ \A f \in Fields : sum.total[f] <= UpTo(f, SweptTo(f))
         /\ \A f \in Fields : Missing(app_prev_stats[f], f)
         /\ Missing(sum.from, "req_count")

\* The sums of what is published.
LEMMA UpToFacts ==
    ASSUME prev_stats \in [Workers -> StatsType], NEW f \in Fields
    PROVE  /\ \A k \in 0..NumThreads : UpTo(f, k) \in Nat
           /\ UpTo(f, 0) = 0
           /\ \A k \in Workers : UpTo(f, k) = UpTo(f, k - 1) + prev_stats[k][f]
  <1>1. Snapshot(f) \in [Workers -> Nat]
    BY DEF Snapshot, StatsType, Fields
  <1>2. SumsUpTo(PartialSums(Snapshot(f)), Snapshot(f), NumThreads)
    BY <1>1, PartialSumsFacts
  <1>3. \A k \in Workers : Snapshot(f)[k] = prev_stats[k][f]
    BY DEF Snapshot
  <1> QED
    BY <1>2, <1>3 DEF SumsUpTo, UpTo

\* Numbers behind the types.
LEMMA FieldTypes ==
    ASSUME Types, NEW f \in Fields
    PROVE  /\ sum.total[f] \in Nat /\ app_prev_stats[f] \in Nat
           /\ \A w \in Workers : prev_stats[w][f] \in Nat
           /\ sum.i \in 1..(NumThreads + 1) /\ NumThreads \in Nat
           /\ prev_stats \in [Workers -> StatsType]
  BY AppAssumption DEF Types, Fields, StatsType

\* During a sweep the counters of the workers before the index are added.
LEMMA SweptToRange ==
    ASSUME Types, Locks, Sweeping, NEW f \in Fields
    PROVE  SweptTo(f) \in 0..NumThreads
  <1>1. sum.i \in 1..(NumThreads + 1) /\ NumThreads \in Nat
    BY AppAssumption DEF Types
  <1>2. sum.pc = "added" => sum.i \in 1..NumThreads
    BY DEF Locks
  <1> QED
    BY <1>1, <1>2 DEF SweptTo

\* What stays when nothing that the sweep looks at changes.
LEMMA SweepSame ==
    ASSUME Sweep, UNCHANGED <<prev_stats, sum, app_prev_stats, stats_thread_run>>
    PROVE  Sweep'
  BY DEF Sweep, Sweeping, Missing, SweptTo, UpTo, Snapshot

\* A worker publishes: a counter of its snapshot may grow.
LEMMA PublishSweep ==
    ASSUME AppInv, AppInv', Sweep, NEW w \in Workers,
           \A f \in Fields : prev_stats'[w][f] >= prev_stats[w][f],
           \A x \in Workers \ {w} : prev_stats'[x] = prev_stats[x],
           UNCHANGED <<sum, app_prev_stats, stats_thread_run>>
    PROVE  Sweep'
  <1>1. /\ Types /\ Locks /\ NumThreads \in Nat
        /\ prev_stats' \in [Workers -> StatsType]
    BY AppAssumption DEF AppInv, Types
  <1>2. ASSUME NEW f \in Fields
        PROVE  \E d \in Nat : \A k \in 0..NumThreads :
                 UpTo(f, k)' = UpTo(f, k) + (IF w <= k THEN d ELSE 0)
    <2> DEFINE S == Snapshot(f)
               S2 == [x \in Workers |-> prev_stats'[x][f]]
               d == prev_stats'[w][f] - prev_stats[w][f]
    <2>1. /\ S \in [Workers -> Nat] /\ S2 \in [Workers -> Nat]
      BY <1>1 DEF Types, StatsType, Fields, Snapshot
    <2>2. prev_stats'[w][f] \in Nat /\ prev_stats[w][f] \in Nat
      BY <1>1 DEF Types, StatsType, Fields
    <2>3. d \in Nat /\ S2[w] = S[w] + d
      BY <1>2, <2>2 DEF Snapshot
    <2>4. \A x \in Workers \ {w} : S2[x] = S[x]
      BY DEF Snapshot
    <2>5. /\ \A k : UpTo(f, k)' = PartialSums(S2)[k]
          /\ \A k : UpTo(f, k) = PartialSums(S)[k]
      BY DEF UpTo, Snapshot
    <2> HIDE DEF S, S2, d
    <2>6. \A k \in 0..NumThreads :
            PartialSums(S2)[k] = PartialSums(S)[k] + (IF w <= k THEN d ELSE 0)
      <3>1. GrowsAt(S, S2, w, d)
        BY <2>3, <2>4 DEF GrowsAt
      <3> QED
        BY <2>1, <2>3, <3>1, SumsGrow
    <2> QED
      BY <2>3, <2>5, <2>6
  <1>3. /\ sum' = sum /\ app_prev_stats' = app_prev_stats
        /\ stats_thread_run' = stats_thread_run
        /\ Sweeping' = Sweeping /\ \A f : SweptTo(f)' = SweptTo(f)
    BY DEF Sweeping, SweptTo
  <1>4. ASSUME NEW f \in Fields
        PROVE  /\ app_prev_stats'[f] <= UpTo(f, NumThreads)'
               /\ Sweeping =>
                    /\ sum'.total[f] <= UpTo(f, SweptTo(f))'
                    /\ \A x \in Nat : Missing(x, f) => Missing(x, f)'
    <2>1. PICK d \in Nat : \A k \in 0..NumThreads :
            UpTo(f, k)' = UpTo(f, k) + (IF w <= k THEN d ELSE 0)
      BY <1>2
    <2>2. /\ sum.total[f] \in Nat /\ app_prev_stats[f] \in Nat
          /\ \A k \in 0..NumThreads : UpTo(f, k) \in Nat
      BY <1>1, FieldTypes, UpToFacts
    <2>3. UpTo(f, NumThreads)' = UpTo(f, NumThreads) + d
      BY <1>1, <2>1
    <2>4. app_prev_stats'[f] <= UpTo(f, NumThreads)'
      <3>1. app_prev_stats[f] <= UpTo(f, NumThreads) /\ UpTo(f, NumThreads) \in Nat
        BY <1>1, <2>2 DEF Sweep
      <3> QED
        BY <1>3, <2>2, <2>3, <3>1
    <2>5. ASSUME Sweeping
          PROVE  /\ sum'.total[f] <= UpTo(f, SweptTo(f))'
                 /\ \A x \in Nat : Missing(x, f) => Missing(x, f)'
      <3>1. PICK k \in 0..NumThreads : k = SweptTo(f)
        BY <1>1, <2>5, SweptToRange
      <3> DEFINE e == IF w <= k THEN d ELSE 0
      <3>2. /\ UpTo(f, SweptTo(f))' = UpTo(f, k) + e
            /\ e \in Nat /\ e <= d
            /\ UpTo(f, k) \in Nat /\ UpTo(f, NumThreads) \in Nat
        <4>1. UpTo(f, SweptTo(f))' = UpTo(f, k)'
          BY <1>3, <3>1 DEF UpTo
        <4>2. UpTo(f, k)' = UpTo(f, k) + e
          BY <2>1
        <4> QED
          BY <1>1, <2>2, <4>1, <4>2
      <3>3. sum.total[f] <= UpTo(f, k)
        BY <2>5, <3>1 DEF Sweep
      <3> HIDE DEF e
      <3>4. sum'.total[f] <= UpTo(f, SweptTo(f))'
        BY <1>3, <2>2, <3>2, <3>3
      <3>5. ASSUME NEW x \in Nat, Missing(x, f)
            PROVE  Missing(x, f)'
        <4>1. x + UpTo(f, k) <= sum.total[f] + UpTo(f, NumThreads)
          BY <3>1, <3>5 DEF Missing
        <4>2. x + UpTo(f, SweptTo(f))' <= sum'.total[f] + UpTo(f, NumThreads)'
          BY <1>3, <2>2, <2>3, <3>2, <4>1
        <4> QED
          BY <4>2 DEF Missing
      <3> QED
        BY <3>4, <3>5
    <2> QED
      BY <2>4, <2>5
  <1>5. "req_count" \in Fields
    BY DEF Fields
  <1>6. sum.from \in Nat /\ stats_thread_run \in BOOLEAN
    BY DEF Sweep
  <1>7. ASSUME Sweeping'
        PROVE  /\ \A f \in Fields : Missing(app_prev_stats[f], f)'
               /\ Missing(sum.from, "req_count")'
    <2>1. /\ \A f \in Fields : Missing(app_prev_stats[f], f)
          /\ Missing(sum.from, "req_count") /\ Sweeping
      BY <1>3, <1>7 DEF Sweep
    <2>2. \A f \in Fields : app_prev_stats[f] \in Nat
      BY <1>1, FieldTypes
    <2> QED
      BY <1>3, <1>4, <1>5, <1>6, <2>1, <2>2 DEF Missing
  <1> QED
    BY <1>3, <1>4, <1>6, <1>7 DEF Sweep

\* The workers.
LEMMA WorkerSweep ==
    ASSUME AppInv, AppInv', Sweep, NEW w \in Workers, WorkerStep(w)
    PROVE  Sweep'
  <1>1. CASE WorkerCounts(w) \/ PublishLock(w) \/ WorkerEnds(w)
    BY <1>1, SweepSame DEF WorkerCounts, PublishLock, WorkerEnds
  <1>2. Ordered(w) /\ prev_stats \in [Workers -> StatsType]
        /\ prev_stats[w].req_count \in Nat /\ prev_stats[w].req_count_ok \in Nat
    BY DEF AppInv, Counters, Types, StatsType
  <1>3. CASE PublishReqCount(w)
    <2>1. /\ prev_stats' = [prev_stats EXCEPT ![w].req_count = stats[w].req_count]
          /\ UNCHANGED <<sum, app_prev_stats, stats_thread_run>>
      BY <1>3 DEF PublishReqCount, Copied
    <2>2. /\ prev_stats'[w].req_count = stats[w].req_count
          /\ prev_stats'[w].req_count_ok = prev_stats[w].req_count_ok
          /\ \A x \in Workers \ {w} : prev_stats'[x] = prev_stats[x]
      BY <1>2, <2>1 DEF StatsType
    <2>3. \A f \in Fields : prev_stats'[w][f] >= prev_stats[w][f]
      BY <1>2, <2>2 DEF Fields, Ordered
    <2> QED
      BY <2>1, <2>2, <2>3, PublishSweep
  <1>4. CASE PublishReqCountOk(w)
    <2>1. /\ prev_stats' =
               [prev_stats EXCEPT ![w].req_count_ok = stats[w].req_count_ok]
          /\ UNCHANGED <<sum, app_prev_stats, stats_thread_run>>
      BY <1>4 DEF PublishReqCountOk, Copied
    <2>2. /\ prev_stats'[w].req_count_ok = stats[w].req_count_ok
          /\ prev_stats'[w].req_count = prev_stats[w].req_count
          /\ \A x \in Workers \ {w} : prev_stats'[x] = prev_stats[x]
      BY <1>2, <2>1 DEF StatsType
    <2>3. \A f \in Fields : prev_stats'[w][f] >= prev_stats[w][f]
      BY <1>2, <2>2 DEF Fields, Ordered
    <2> QED
      BY <2>1, <2>2, <2>3, PublishSweep
  <1> QED
    BY <1>1, <1>3, <1>4 DEF WorkerStep

\* main: only the start of the statistics thread concerns the sweep.
LEMMA MainSweep ==
    ASSUME AppInv, Sweep, MainStep
    PROVE  Sweep'
  <1>1. /\ UNCHANGED <<prev_stats, app_prev_stats>> /\ stats_thread_run' \in BOOLEAN
        /\ sum' = sum \/ (sum' = [sum EXCEPT !.pc = "check"])
    BY DEF Sweep, MainStep, MainCreate, MainCreateStats, MainCreateFails,
           MainJoin, MainStop, MainJoinStats, MainPrint, MainFree
  <1>2. sum'.from = sum.from /\ (sum'.pc = "check" \/ sum' = sum)
    BY <1>1 DEF AppInv, Types
  <1>3. \A f, k : UpTo(f, k)' = UpTo(f, k)
    BY <1>1 DEF UpTo, Snapshot
  <1>4. CASE sum' = sum
    BY <1>1, <1>3, <1>4 DEF Sweep, Sweeping, Missing, SweptTo, UpTo, Snapshot
  <1>5. CASE sum'.pc = "check"
    BY <1>1, <1>2, <1>3, <1>5 DEF Sweep, Sweeping
  <1> QED
    BY <1>2, <1>4, <1>5

\* One addition: a counter of the worker at the index goes into the total, or
\* it does not and the total is as it was.
LEMMA AddSweep ==
    ASSUME Types, Locks, Sweep, Sweeping, sum.i \in Workers, Sweeping',
           UNCHANGED <<prev_stats, app_prev_stats, stats_thread_run>>,
           sum'.from = sum.from,
           \A f \in Fields :
             \/ SweptTo(f)' = SweptTo(f) /\ sum'.total[f] = sum.total[f]
             \/ /\ SweptTo(f) = sum.i - 1 /\ SweptTo(f)' = sum.i
                /\ sum'.total[f] = sum.total[f] + prev_stats[sum.i][f]
    PROVE  Sweep'
  <1>1. \A f, k : UpTo(f, k)' = UpTo(f, k)
    BY DEF UpTo, Snapshot
  <1>2. ASSUME NEW f \in Fields
        PROVE  \E d \in Nat : /\ sum'.total[f] = sum.total[f] + d
                              /\ UpTo(f, SweptTo(f))' = UpTo(f, SweptTo(f)) + d
    <2>1. /\ sum.total[f] \in Nat /\ prev_stats[sum.i][f] \in Nat
          /\ prev_stats \in [Workers -> StatsType]
      BY FieldTypes
    <2>2. UpTo(f, SweptTo(f)) \in Nat
      BY <2>1, UpToFacts, SweptToRange
    <2>3. UpTo(f, SweptTo(f))' = PartialSums(Snapshot(f))[SweptTo(f)']
      BY DEF UpTo, Snapshot
    <2>4. CASE SweptTo(f)' = SweptTo(f) /\ sum'.total[f] = sum.total[f]
      <3>1. UpTo(f, SweptTo(f))' = UpTo(f, SweptTo(f))
        BY <2>3, <2>4 DEF UpTo
      <3> QED
        BY <2>1, <2>2, <2>4, <3>1
    <2>5. CASE /\ SweptTo(f) = sum.i - 1 /\ SweptTo(f)' = sum.i
               /\ sum'.total[f] = sum.total[f] + prev_stats[sum.i][f]
      <3>1. UpTo(f, SweptTo(f))' = UpTo(f, sum.i)
        BY <2>3, <2>5 DEF UpTo
      <3>2. UpTo(f, sum.i) = UpTo(f, SweptTo(f)) + prev_stats[sum.i][f]
        BY <2>1, <2>5, UpToFacts
      <3> QED
        BY <2>1, <2>5, <3>1, <3>2
    <2> QED
      BY <2>4, <2>5
  <1>3. ASSUME NEW f \in Fields
        PROVE  /\ sum'.total[f] <= UpTo(f, SweptTo(f))'
               /\ \A x \in Nat : Missing(x, f) => Missing(x, f)'
    <2>1. PICK d \in Nat : /\ sum'.total[f] = sum.total[f] + d
                           /\ UpTo(f, SweptTo(f))' = UpTo(f, SweptTo(f)) + d
      BY <1>2
    <2>2. /\ sum.total[f] \in Nat /\ NumThreads \in Nat
          /\ prev_stats \in [Workers -> StatsType]
      BY FieldTypes
    <2>3. UpTo(f, SweptTo(f)) \in Nat /\ UpTo(f, NumThreads) \in Nat
      BY <2>2, UpToFacts, SweptToRange
    <2>4. UpTo(f, NumThreads)' = UpTo(f, NumThreads)
      BY <1>1
    <2>5. sum.total[f] <= UpTo(f, SweptTo(f))
      BY DEF Sweep
    <2>6. sum'.total[f] <= UpTo(f, SweptTo(f))'
      BY <2>1, <2>2, <2>3, <2>5
    <2>7. ASSUME NEW x \in Nat, Missing(x, f)
          PROVE  Missing(x, f)'
      <3>1. x + UpTo(f, SweptTo(f)) <= sum.total[f] + UpTo(f, NumThreads)
        BY <2>7 DEF Missing
      <3>2. x + UpTo(f, SweptTo(f))' <= sum'.total[f] + UpTo(f, NumThreads)'
        BY <2>1, <2>2, <2>3, <2>4, <3>1
      <3> QED
        BY <3>2 DEF Missing
    <2> QED
      BY <2>6, <2>7
  <1>4. /\ "req_count" \in Fields /\ sum.from \in Nat
        /\ stats_thread_run \in BOOLEAN
        /\ \A f \in Fields : app_prev_stats[f] \in Nat
    BY FieldTypes DEF Fields, Sweep
  <1>5. /\ \A f \in Fields : Missing(app_prev_stats[f], f)'
        /\ Missing(sum.from, "req_count")'
    <2>1. /\ \A f \in Fields : Missing(app_prev_stats[f], f)
          /\ Missing(sum.from, "req_count")
      BY DEF Sweep
    <2> QED
      BY <1>3, <1>4, <2>1 DEF Missing
  <1>6. \A f \in Fields : app_prev_stats'[f] <= UpTo(f, NumThreads)'
    BY <1>1 DEF Sweep
  <1> QED
    BY <1>3, <1>4, <1>5, <1>6 DEF Sweep

\* The statistics thread: it begins with nothing, adds one worker after the
\* other and remembers the total.
LEMMA SumSweep ==
    ASSUME AppInv, Sweep, SumStep
    PROVE  Sweep'
  <1>1. /\ Types /\ Locks /\ NumThreads \in Nat /\ sum.total \in StatsType
        /\ sum.i \in 1..(NumThreads + 1) /\ "req_count" \in Fields
        /\ sum.from \in Nat /\ stats_thread_run \in BOOLEAN
    BY AppAssumption DEF AppInv, Types, Sweep, Fields
  <1>2. /\ prev_stats' = prev_stats /\ stats_thread_run' = stats_thread_run
    BY DEF SumStep, SumCheck, SumWake, SumLock, SumReqCount, SumReqCountOk, SumPrint
  <1>3. \A f, k : UpTo(f, k)' = UpTo(f, k)
    BY <1>2 DEF UpTo, Snapshot
  <1>4. \A f \in Fields :
          /\ \A k \in 0..NumThreads : UpTo(f, k) \in Nat
          /\ UpTo(f, 0) = 0
          /\ \A k \in Workers : UpTo(f, k) = UpTo(f, k - 1) + prev_stats[k][f]
          /\ sum.total[f] \in Nat /\ app_prev_stats[f] \in Nat
          /\ \A w \in Workers : prev_stats[w][f] \in Nat
    BY <1>1, UpToFacts, FieldTypes
  <1>5. \A f \in Fields : app_prev_stats[f] <= UpTo(f, NumThreads)
    BY DEF Sweep
  <1>6. CASE SumCheck
    <2>1. /\ sum'.pc \in {"sleep", "done"} /\ sum'.from = sum.from
          /\ app_prev_stats' = app_prev_stats
      BY <1>1, <1>6 DEF SumCheck, Types
    <2> QED
      BY <1>1, <1>2, <1>3, <1>5, <2>1 DEF Sweep, Sweeping
  <1>7. CASE SumWake
    <2>1. /\ sum'.pc = "sweep" /\ sum'.i = 1 /\ sum'.total = StatsZero
          /\ sum'.from = Published /\ app_prev_stats' = app_prev_stats
      BY <1>7 DEF SumWake
    <2>2. Published = UpTo("req_count", NumThreads)
      BY DEF Published, SumOver, UpTo, Snapshot
    <2>3. \A f \in Fields : SweptTo(f)' = 0 /\ sum'.total[f] = 0
      BY <2>1 DEF SweptTo, StatsZero, Fields
    <2>4. \A f \in Fields : UpTo(f, SweptTo(f))' = 0
      BY <1>3, <1>4, <2>3 DEF UpTo
    <2>5. sum'.from \in Nat
      BY <1>1, <1>4, <2>1, <2>2
    <2>6. \A f \in Fields : sum'.total[f] <= UpTo(f, SweptTo(f))'
      BY <2>3, <2>4
    <2>7. \A f \in Fields : Missing(app_prev_stats[f], f)'
      <3> SUFFICES ASSUME NEW f \in Fields PROVE Missing(app_prev_stats[f], f)'
        OBVIOUS
      <3>1. UpTo(f, NumThreads) \in Nat /\ app_prev_stats[f] \in Nat
        BY <1>1, <1>4
      <3> QED
        BY <1>3, <1>5, <2>1, <2>3, <2>4, <3>1 DEF Missing
    <2>8. Missing(sum.from, "req_count")'
      <3>1. UpTo("req_count", NumThreads) \in Nat
        BY <1>1, <1>4
      <3> QED
        BY <1>1, <1>3, <2>1, <2>2, <2>3, <2>4, <3>1 DEF Missing
    <2> QED
      BY <1>1, <1>2, <1>3, <1>5, <2>1, <2>5, <2>6, <2>7, <2>8 DEF Sweep
  <1>8. CASE SumLock
    <2>1. /\ sum'.pc = "locked" /\ sum.pc = "sweep" /\ sum'.i = sum.i
          /\ sum'.total = sum.total /\ sum'.from = sum.from
          /\ app_prev_stats' = app_prev_stats
      BY <1>1, <1>8 DEF SumLock, Types
    <2>2. \A f : SweptTo(f)' = SweptTo(f)
      BY <2>1 DEF SweptTo
    <2>3. \A f : UpTo(f, SweptTo(f))' = UpTo(f, SweptTo(f))
      BY <1>3, <2>2 DEF UpTo
    <2>4. Sweeping
      BY <2>1 DEF Sweeping
    <2> QED
      BY <1>1, <1>2, <1>3, <2>1, <2>3, <2>4 DEF Sweep, Missing
  <1>9. CASE SumPrint
    <2>1. /\ sum'.pc = "check" /\ sum.pc = "sweep" /\ sum'.from = sum.from
          /\ app_prev_stats' = sum.total /\ sum.i > NumThreads
      BY <1>1, <1>9 DEF SumPrint, Types
    <2>2. \A f \in Fields : SweptTo(f) = NumThreads
      BY <1>1, <2>1 DEF SweptTo
    <2>3. \A f \in Fields : sum.total[f] <= UpTo(f, NumThreads)
      BY <2>1, <2>2 DEF Sweep, Sweeping
    <2> QED
      BY <1>1, <1>2, <1>3, <2>1, <2>3 DEF Sweep, Sweeping
  <1>10. CASE SumReqCount
    <2>1. /\ sum.pc = "locked" /\ sum.i \in Workers
          /\ UNCHANGED <<prev_stats, app_prev_stats, stats_thread_run>>
      BY <1>1, <1>10 DEF SumReqCount, Locks
    <2>2. /\ sum'.pc = "added" /\ sum'.i = sum.i /\ sum'.from = sum.from
          /\ sum'.total.req_count = sum.total.req_count + prev_stats[sum.i].req_count
          /\ sum'.total.req_count_ok = sum.total.req_count_ok
      <3> DEFINE t == [sum.total EXCEPT !.req_count =
                         sum.total.req_count + prev_stats[sum.i].req_count]
      <3>1. /\ t.req_count_ok = sum.total.req_count_ok
            /\ t.req_count = sum.total.req_count + prev_stats[sum.i].req_count
        BY <1>1 DEF StatsType
      <3>2. sum' = [pc |-> "added", i |-> sum.i, total |-> t, from |-> sum.from]
        BY <1>1, <1>10 DEF Types, SumReqCount, Added
      <3> HIDE DEF t
      <3> QED
        BY <3>1, <3>2
    <2>3. \A f \in Fields :
            \/ SweptTo(f)' = SweptTo(f) /\ sum'.total[f] = sum.total[f]
            \/ /\ SweptTo(f) = sum.i - 1 /\ SweptTo(f)' = sum.i
               /\ sum'.total[f] = sum.total[f] + prev_stats[sum.i][f]
      BY <2>1, <2>2 DEF Fields, SweptTo
    <2>4. Sweeping /\ Sweeping'
      BY <2>1, <2>2 DEF Sweeping
    <2> QED
      BY <1>1, <2>1, <2>2, <2>3, <2>4, AddSweep
  <1>11. CASE SumReqCountOk
    <2>1. /\ sum.pc = "added" /\ sum.i \in Workers
          /\ UNCHANGED <<prev_stats, app_prev_stats, stats_thread_run>>
      BY <1>1, <1>11 DEF SumReqCountOk, Locks
    <2>2. /\ sum'.pc = "sweep" /\ sum'.i = sum.i + 1 /\ sum'.from = sum.from
          /\ sum'.total.req_count = sum.total.req_count
          /\ sum'.total.req_count_ok
               = sum.total.req_count_ok + prev_stats[sum.i].req_count_ok
      <3> DEFINE t == [sum.total EXCEPT !.req_count_ok =
                         sum.total.req_count_ok + prev_stats[sum.i].req_count_ok]
      <3>1. /\ t.req_count = sum.total.req_count
            /\ t.req_count_ok
                 = sum.total.req_count_ok + prev_stats[sum.i].req_count_ok
        BY <1>1 DEF StatsType
      <3>2. sum' = [pc |-> "sweep", i |-> sum.i + 1, total |-> t, from |-> sum.from]
        BY <1>1, <1>11 DEF Types, SumReqCountOk, Added
      <3> HIDE DEF t
      <3> QED
        BY <3>1, <3>2
    <2>3. \A f \in Fields :
            \/ SweptTo(f)' = SweptTo(f) /\ sum'.total[f] = sum.total[f]
            \/ /\ SweptTo(f) = sum.i - 1 /\ SweptTo(f)' = sum.i
               /\ sum'.total[f] = sum.total[f] + prev_stats[sum.i][f]
      BY <1>1, <2>1, <2>2 DEF Fields, SweptTo
    <2>4. Sweeping /\ Sweeping'
      BY <2>1, <2>2 DEF Sweeping
    <2> QED
      BY <1>1, <2>1, <2>2, <2>3, <2>4, AddSweep
  <1> QED
    BY <1>6, <1>7, <1>8, <1>9, <1>10, <1>11 DEF SumStep

\* Nothing is published or added at the start.
LEMMA SweepInit == Init => Sweep
  <1> SUFFICES ASSUME Init PROVE Sweep
    OBVIOUS
  <1>1. Types /\ NumThreads \in Nat
    BY AppInit, AppAssumption DEF AppInv
  <1>2. /\ sum.from = 0 /\ sum.pc = "none" /\ stats_thread_run = FALSE
        /\ \A f \in Fields : app_prev_stats[f] = 0
    BY DEF Init, StatsZero, Fields
  <1>3. \A f \in Fields : UpTo(f, NumThreads) \in Nat
    BY <1>1, UpToFacts DEF Types
  <1>4. \A f \in Fields : app_prev_stats[f] <= UpTo(f, NumThreads)
    <2>1. \A n \in Nat : 0 <= n
      OBVIOUS
    <2> QED
      BY <1>2, <1>3, <2>1
  <1>5. sum.from \in Nat /\ ~Sweeping
    BY <1>2 DEF Sweeping
  <1>6. stats_thread_run \in BOOLEAN
    BY Zenon DEF Init
  <1> QED
    BY <1>4, <1>5, <1>6 DEF Sweep

\* The sweep's invariant, with the one it rests on.
LEMMA SweepInvariant == Spec => [](AppInv /\ Sweep)
  <1>1. AppInv /\ AppInv' /\ Sweep /\ [Next]_vars => Sweep'
    <2> SUFFICES ASSUME AppInv, AppInv', Sweep, [Next]_vars PROVE Sweep'
      OBVIOUS
    <2>1. CASE UNCHANGED vars
      BY <2>1, SweepSame DEF vars
    <2> QED
      BY <2>1, WorkerSweep, SumSweep, MainSweep DEF Next, Exited
  <1> QED
    BY <1>1, AppInvariant, SweepInit, PTL DEF Spec

\* The variables of main, the workers and the statistics thread keep their
\* types: no sum is ever negative and no index leaves the array of workers.
THEOREM AppTyped == Spec => []TypeOK
  <1>1. AppInv /\ Sweep => TypeOK
    BY DEF AppInv, Types, Sweep, TypeOK
  <1> QED
    BY <1>1, SweepInvariant, PTL

\* However many workers publish while they are being added up, what
\* app_stats_thread has when it is through lies between what was published when
\* it began and what is published now.
THEOREM SweepsBracketed == Spec => []SweepBracketed
  <1>1. AppInv /\ Sweep => SweepBracketed
    <2> SUFFICES ASSUME AppInv, Sweep, sum.pc = "sweep", sum.i > NumThreads
                 PROVE  sum.from <= sum.total.req_count
                        /\ sum.total.req_count <= Published
      BY DEF SweepBracketed
    <2>1. /\ Types /\ "req_count" \in Fields /\ Sweeping
      BY DEF AppInv, Fields, Sweeping
    <2>2. /\ NumThreads \in Nat /\ sum.i \in 1..(NumThreads + 1)
          /\ sum.total.req_count \in Nat /\ prev_stats \in [Workers -> StatsType]
      BY <2>1, FieldTypes
    <2>3. SweptTo("req_count") = NumThreads
      BY <2>2 DEF SweptTo
    <2>4. Published = UpTo("req_count", NumThreads)
      BY DEF Published, SumOver, UpTo, Snapshot
    <2>5. Published \in Nat
      BY <2>1, <2>2, <2>4, UpToFacts
    <2>6. /\ sum.total.req_count <= Published /\ sum.from \in Nat
          /\ sum.from + Published <= sum.total.req_count + Published
      BY <2>1, <2>3, <2>4 DEF Sweep, Missing
    <2> QED
      BY <2>2, <2>5, <2>6
  <1> QED
    BY <1>1, SweepInvariant, PTL

\* What app_stats_thread prints as interval_diff is never negative: no counter
\* of a total is less than it was in the total before.
THEOREM TotalsGrow == Spec => DiffsNonnegative
  <1>1. AppInv /\ Sweep /\ SumPrint => \A f \in Fields : Diff(f) >= 0
    <2> SUFFICES ASSUME AppInv, Sweep, SumPrint, NEW f \in Fields
                 PROVE  Diff(f) >= 0
      OBVIOUS
    <2>1. Types /\ sum.pc = "sweep" /\ sum.i > NumThreads
      BY DEF AppInv, SumPrint
    <2>2. /\ NumThreads \in Nat /\ sum.i \in 1..(NumThreads + 1)
          /\ sum.total[f] \in Nat /\ app_prev_stats[f] \in Nat
          /\ prev_stats \in [Workers -> StatsType]
      BY <2>1, FieldTypes
    <2>3. SweptTo(f) = NumThreads
      BY <2>1, <2>2 DEF SweptTo
    <2>4. UpTo(f, NumThreads) \in Nat
      BY <2>2, UpToFacts
    <2>5. app_prev_stats[f] + UpTo(f, NumThreads) <= sum.total[f] + UpTo(f, NumThreads)
      BY <2>1, <2>3 DEF Sweep, Sweeping, Missing
    <2>6. app_prev_stats[f] <= sum.total[f]
      BY <2>2, <2>4, <2>5
    <2> QED
      BY <2>2, <2>6 DEF Diff
  <1> QED
    BY <1>1, SweepInvariant, PTL DEF DiffsNonnegative, Fields
==============================================================================
