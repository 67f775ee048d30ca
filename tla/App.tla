--------------------------------- MODULE App ---------------------------------
(***************************************************************************)
(* The client's threads (clt/main.c, clt/thr.c, clt/mgr_stats.c): main     *)
(* starts the workers and a statistics thread, joins them and prints the   *)
(* total.  A worker publishes its counters in prev_stats under a mutex;    *)
(* the statistics thread adds the workers' up once a second, taking one    *)
(* mutex at a time.  Copying and adding are a field at a time, so that     *)
(* what the mutex is for can go wrong.                                     *)
(*                                                                         *)
(* A worker is what its manager (CltMgr) promises: it counts, it publishes *)
(* now and then, and its event loop ends only after the final counters     *)
(* were published (CleanExit).  Of the counters, all but the gauge nconn   *)
(* are treated alike; two of them stand for all.                           *)
(***************************************************************************)
EXTENDS Integers

CONSTANTS
    NumThreads,    \* cfg.num_threads
    MaxReqs        \* bound: requests of each worker

Workers == 1..NumThreads

ASSUME AppAssumption == NumThreads \in Nat /\ MaxReqs \in [Workers -> Nat]

VARIABLES
    main,             \* main's place, and the index of its loop
    worker,           \* the workers' places
    stats,            \* mgr->stats of each worker
    prev_stats,       \* its last published snapshot, in struct clt_thr
    mtx,              \* who holds prev_stats_mtx
    sum,              \* the statistics thread: its place, index and total,
                      \* and what was published in all when it began
    app_prev_stats,   \* a.prev_stats
    stats_thread_run

vars == <<main, worker, stats, prev_stats, mtx, sum, app_prev_stats,
          stats_thread_run>>

\* struct mgr_stats.
StatsType == [req_count : Nat, req_count_ok : Nat]
StatsZero == [req_count |-> 0, req_count_ok |-> 0]

TypeOK ==
    /\ main \in [pc : {"create", "join", "join_stats", "print", "free", "exited"},
                 i : 1..(NumThreads + 1)]
    /\ worker \in [Workers -> {"none", "run", "locked", "copied", "done"}]
    /\ stats \in [Workers -> StatsType]
    /\ prev_stats \in [Workers -> StatsType]
    /\ mtx \in [Workers -> {"free", "worker", "stats", "destroyed"}]
    /\ sum \in [pc : {"none", "check", "sleep", "sweep", "locked", "added", "done"},
                i : 1..(NumThreads + 1), total : StatsType, from : Nat]
    /\ app_prev_stats \in StatsType
    /\ stats_thread_run \in BOOLEAN

\* clt_thr_setup and clt_thr_free, as what they do to the mutex; the event base
\* and the HTTP handle come and go with it.
ThrSetup == "free"
ThrFree == "destroyed"

\* main once the workers are set up and have their configurations.
Init ==
    /\ main = [pc |-> "create", i |-> 1]
    /\ worker = [w \in Workers |-> "none"]
    /\ stats = [w \in Workers |-> StatsZero]
    /\ prev_stats = [w \in Workers |-> StatsZero]
    /\ mtx = [w \in Workers |-> ThrSetup]
    /\ sum = [pc |-> "none", i |-> 1, total |-> StatsZero, from |-> 0]
    /\ app_prev_stats = StatsZero
    /\ stats_thread_run = FALSE

\* exit ends every thread.
Running == main.pc # "exited"

\* The sums of f over the workers up to each.
PartialSums(f) ==
    LET upto[k \in 0..NumThreads] == IF k = 0 THEN 0 ELSE upto[k - 1] + f[k]
    IN  upto

SumOver(f) == PartialSums(f)[NumThreads]

\* The requests the workers have published, and those they have made.
Published == SumOver([w \in Workers |-> prev_stats[w].req_count])
Made == SumOver([w \in Workers |-> stats[w].req_count])

------------------------------------------------------------------------------
(* Workers                                                                 *)

\* The event loop counts a request, or a response to one.
WorkerCounts(w) ==
    /\ Running
    /\ worker[w] = "run"
    /\ \/ /\ stats[w].req_count < MaxReqs[w]
          /\ stats' = [stats EXCEPT ![w].req_count = @ + 1]
       \/ /\ stats[w].req_count_ok < stats[w].req_count
          /\ stats' = [stats EXCEPT ![w].req_count_ok = @ + 1]
    /\ UNCHANGED <<main, worker, prev_stats, mtx, sum, app_prev_stats,
                   stats_thread_run>>

\* clt_mgr_stats_notify: lock, copy the one counter, then the other and unlock.
PublishLock(w) ==
    /\ Running
    /\ worker[w] = "run"
    /\ mtx[w] = "free"
    /\ worker' = [worker EXCEPT ![w] = "locked"]
    /\ mtx' = [mtx EXCEPT ![w] = "worker"]
    /\ UNCHANGED <<main, stats, prev_stats, sum, app_prev_stats, stats_thread_run>>

\* Mutant of Copied: the difference is published, not the counter.
BugPublishDiff(w, field) == stats[w][field] - prev_stats[w][field]

\* The value mgr_stats_copy gives a field of the snapshot.
Copied(w, field) == stats[w][field]

PublishReqCount(w) ==
    /\ Running
    /\ worker[w] = "locked"
    /\ prev_stats' = [prev_stats EXCEPT ![w].req_count = Copied(w, "req_count")]
    /\ worker' = [worker EXCEPT ![w] = "copied"]
    /\ UNCHANGED <<main, stats, mtx, sum, app_prev_stats, stats_thread_run>>

PublishReqCountOk(w) ==
    /\ Running
    /\ worker[w] = "copied"
    /\ prev_stats' = [prev_stats EXCEPT ![w].req_count_ok =
                                          Copied(w, "req_count_ok")]
    /\ worker' = [worker EXCEPT ![w] = "run"]
    /\ mtx' = [mtx EXCEPT ![w] = "free"]
    /\ UNCHANGED <<main, stats, sum, app_prev_stats, stats_thread_run>>

\* clt_mgr_thread_run returns: the event loop is out of events.
WorkerEnds(w) ==
    /\ Running
    /\ worker[w] = "run"
    /\ prev_stats[w] = stats[w]
    /\ worker' = [worker EXCEPT ![w] = "done"]
    /\ UNCHANGED <<main, stats, prev_stats, mtx, sum, app_prev_stats,
                   stats_thread_run>>

------------------------------------------------------------------------------
(* app_stats_thread                                                        *)

\* The loop condition.
SumCheck ==
    /\ Running
    /\ sum.pc = "check"
    /\ sum' = [sum EXCEPT !.pc = IF stats_thread_run THEN "sleep" ELSE "done"]
    /\ UNCHANGED <<main, worker, stats, prev_stats, mtx, app_prev_stats,
                   stats_thread_run>>

\* Mutant of SumWake: the total is not zeroed.
BugNoZero ==
    /\ Running
    /\ sum.pc = "sleep"
    /\ sum' = [sum EXCEPT !.pc = "sweep", !.i = 1, !.from = Published]
    /\ UNCHANGED <<main, worker, stats, prev_stats, mtx, app_prev_stats,
                   stats_thread_run>>

\* sleep(1) is over.
SumWake ==
    /\ Running
    /\ sum.pc = "sleep"
    /\ sum' = [pc |-> "sweep", i |-> 1, total |-> StatsZero, from |-> Published]
    /\ UNCHANGED <<main, worker, stats, prev_stats, mtx, app_prev_stats,
                   stats_thread_run>>

\* Mutant of SumLock: no mutex.
BugNoLock ==
    /\ Running
    /\ sum.pc = "sweep"
    /\ sum.i <= NumThreads
    /\ sum' = [sum EXCEPT !.pc = "locked"]
    /\ UNCHANGED <<main, worker, stats, prev_stats, mtx, app_prev_stats,
                   stats_thread_run>>

SumLock ==
    /\ Running
    /\ sum.pc = "sweep"
    /\ sum.i <= NumThreads
    /\ mtx[sum.i] = "free"
    /\ mtx' = [mtx EXCEPT ![sum.i] = "stats"]
    /\ sum' = [sum EXCEPT !.pc = "locked"]
    /\ UNCHANGED <<main, worker, stats, prev_stats, app_prev_stats,
                   stats_thread_run>>

\* Mutant of Added: subtracts, as mgr_stats_diff does.
BugSubtract(field) == sum.total[field] - prev_stats[sum.i][field]

\* The value mgr_stats_add gives a field of the total.
Added(field) == sum.total[field] + prev_stats[sum.i][field]

SumReqCount ==
    /\ Running
    /\ sum.pc = "locked"
    /\ sum' = [sum EXCEPT !.pc = "added", !.total.req_count = Added("req_count")]
    /\ UNCHANGED <<main, worker, stats, prev_stats, mtx, app_prev_stats,
                   stats_thread_run>>

SumReqCountOk ==
    /\ Running
    /\ sum.pc = "added"
    /\ sum' = [sum EXCEPT !.pc = "sweep", !.i = @ + 1,
                          !.total.req_count_ok = Added("req_count_ok")]
    /\ mtx' = [mtx EXCEPT ![sum.i] = "free"]
    /\ UNCHANGED <<main, worker, stats, prev_stats, app_prev_stats,
                   stats_thread_run>>

\* mgr_stats_diff: the interval_diff printed for a field.
Diff(field) == sum.total[field] - app_prev_stats[field]

\* Print the total and its difference from the last one; remember it.
SumPrint ==
    /\ Running
    /\ sum.pc = "sweep"
    /\ sum.i > NumThreads
    /\ app_prev_stats' = sum.total
    /\ sum' = [sum EXCEPT !.pc = "check"]
    /\ UNCHANGED <<main, worker, stats, prev_stats, mtx, stats_thread_run>>

------------------------------------------------------------------------------
(* main                                                                    *)

\* Start the next worker.
MainCreate ==
    /\ main.pc = "create"
    /\ main.i <= NumThreads
    /\ worker' = [worker EXCEPT ![main.i] = "run"]
    /\ main' = [main EXCEPT !.i = @ + 1]
    /\ UNCHANGED <<stats, prev_stats, mtx, sum, app_prev_stats, stats_thread_run>>

\* All started: start the statistics thread.
MainCreateStats ==
    /\ main.pc = "create"
    /\ main.i > NumThreads
    /\ stats_thread_run' = TRUE
    /\ sum' = [sum EXCEPT !.pc = "check"]
    /\ main' = [pc |-> "join", i |-> 1]
    /\ UNCHANGED <<worker, stats, prev_stats, mtx, app_prev_stats>>

\* A thread cannot be created: err() ends the program, whoever is running.
MainCreateFails ==
    /\ main.pc = "create"
    /\ main' = [main EXCEPT !.pc = "exited"]
    /\ UNCHANGED <<worker, stats, prev_stats, mtx, sum, app_prev_stats,
                   stats_thread_run>>

MainJoin ==
    /\ main.pc = "join"
    /\ main.i <= NumThreads
    /\ worker[main.i] = "done"
    /\ main' = [main EXCEPT !.i = @ + 1]
    /\ UNCHANGED <<worker, stats, prev_stats, mtx, sum, app_prev_stats,
                   stats_thread_run>>

\* Mutant of MainStop: the statistics thread is not told.
BugNotTold ==
    /\ main.pc = "join"
    /\ main.i > NumThreads
    /\ main' = [main EXCEPT !.pc = "join_stats"]
    /\ UNCHANGED <<worker, stats, prev_stats, mtx, sum, app_prev_stats,
                   stats_thread_run>>

\* All joined: tell the statistics thread.
MainStop ==
    /\ main.pc = "join"
    /\ main.i > NumThreads
    /\ stats_thread_run' = FALSE
    /\ main' = [main EXCEPT !.pc = "join_stats"]
    /\ UNCHANGED <<worker, stats, prev_stats, mtx, sum, app_prev_stats>>

\* Mutant of MainJoinStats: does not wait.
BugNotJoined ==
    /\ main.pc = "join_stats"
    /\ main' = [main EXCEPT !.pc = "print"]
    /\ UNCHANGED <<worker, stats, prev_stats, mtx, sum, app_prev_stats,
                   stats_thread_run>>

MainJoinStats ==
    /\ main.pc = "join_stats"
    /\ sum.pc = "done"
    /\ main' = [main EXCEPT !.pc = "print"]
    /\ UNCHANGED <<worker, stats, prev_stats, mtx, sum, app_prev_stats,
                   stats_thread_run>>

\* Print app_prev_stats as run_total.
MainPrint ==
    /\ main.pc = "print"
    /\ main' = [pc |-> "free", i |-> 1]
    /\ UNCHANGED <<worker, stats, prev_stats, mtx, sum, app_prev_stats,
                   stats_thread_run>>

\* clt_thr_free for one worker after the other, then exit.
MainFree ==
    /\ main.pc = "free"
    /\ IF main.i <= NumThreads
         THEN /\ mtx' = [mtx EXCEPT ![main.i] = ThrFree]
              /\ main' = [main EXCEPT !.i = @ + 1]
         ELSE /\ main' = [main EXCEPT !.pc = "exited"]
              /\ UNCHANGED mtx
    /\ UNCHANGED <<worker, stats, prev_stats, sum, app_prev_stats,
                   stats_thread_run>>

Exited == ~Running /\ UNCHANGED vars

------------------------------------------------------------------------------
WorkerStep(w) ==
    \/ WorkerCounts(w) \/ PublishLock(w) \/ PublishReqCount(w)
    \/ PublishReqCountOk(w) \/ WorkerEnds(w)

SumStep ==
    \/ SumCheck \/ SumWake \/ SumLock \/ SumReqCount \/ SumReqCountOk \/ SumPrint

MainStep ==
    \/ MainCreate \/ MainCreateStats \/ MainCreateFails \/ MainJoin \/ MainStop
    \/ MainJoinStats \/ MainPrint \/ MainFree

Next == MainStep \/ SumStep \/ (\E w \in Workers : WorkerStep(w)) \/ Exited

Spec == Init /\ [][Next]_vars

\* Every thread is scheduled, and a mutex that keeps becoming free is got in
\* the end.  That a worker publishes its final counters and ends is what its
\* manager guarantees (CltMgr's RunEnds and CleanExit).
Fairness ==
    /\ WF_vars(MainStep)
    /\ WF_vars(SumStep)
    /\ SF_vars(SumLock)
    /\ \A w \in Workers :
         /\ WF_vars(PublishReqCount(w) \/ PublishReqCountOk(w))
         /\ SF_vars(PublishLock(w))
         /\ SF_vars(WorkerEnds(w))

FairSpec == Spec /\ Fairness

------------------------------------------------------------------------------
(* Properties                                                              *)

\* The totals printed make sense: never more OK responses than requests, in
\* the middle of a sweep either, although each counter of each worker is copied
\* and added on its own.  This is what prev_stats_mtx is for.
TotalsConsistent ==
    /\ sum.total.req_count_ok <= sum.total.req_count
    /\ app_prev_stats.req_count_ok <= app_prev_stats.req_count

\* A sweep's total, which mixes snapshots of different moments, lies between
\* what had been published when it began and what has been published now.
SweepBracketed ==
    sum.pc = "sweep" /\ sum.i > NumThreads =>
        sum.from <= sum.total.req_count /\ sum.total.req_count <= Published

\* interval_diff is never negative (it would be printed as a huge unsigned
\* number): the totals only grow, although a worker may publish while others
\* are being added.
DiffsNonnegative ==
    [][SumPrint => \A f \in {"req_count", "req_count_ok"} : Diff(f) >= 0]_vars

\* clt_thr_free destroys a worker's mutex, HTTP handle and event base only when
\* neither the worker nor the statistics thread can still use them.
FreedWhenUnused ==
    \A w \in Workers :
        mtx[w] = "destroyed" => worker[w] = "done" /\ sum.pc = "done"

\* "Completed total!": what is printed as run_total counts all requests.
RunTotalFinal == main.pc = "free" => app_prev_stats.req_count = Made

\* The program ends: main's joins return, and the statistics thread, busy or
\* asleep, notices that it is to stop.
ProgramEnds == <>(main.pc = "exited")
==============================================================================
