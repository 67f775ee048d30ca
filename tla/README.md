# libevhtp-http: a TLA+ verification project

The repository is a toolkit for stress testing libevent and libevhtp: `src/clt`
is a multi-threaded HTTP load generator, `src/srv` a small HTTP server that
answers it. This project models the program's own logic. libevent and libevhtp
are not part of the repository; they are modelled from how the code uses them.

## Inventory

| component | source | state | operations |
|---|---|---|---|
| client manager | `clt/mgr.c` | `mgr_state`, `mgr_conn_list`, five timers, `stats`, `cfg` | start; the callbacks of the periodic, statistics, running, waiting and cleanup timers; creating connections; handling notifications |
| connection and request | `clt/mgr.c` (`clt_mgr_conn`), `clt/clt.c` (`client_req`) | pointers to the evhtp connection and request, `is_dead`, `pending_http_req`, `cur_req_count`, three events | create, request, the evhtp hooks, timeout, deferred destruction |
| request-rate pacer | `clt/mgr.c:92-154` | `request_rate_error`, `request_count_cur`, `request_count_target` | update (per tick), check, inc |
| statistics | `clt/mgr_stats.c`, `main.c:275-294` | per-manager counters, per-thread snapshot | copy, diff, add |
| application | `clt/main.c`, `clt/thr.c` | worker threads, statistics thread, `stats_thread_run` | set up, start, join, sum, print |
| configuration | `clt/main.c:47-244`, `clt/mgr_config.c` | `mgr_config`, the address array | defaults, parsing, splitting over threads, round robin |
| server | `srv/http.c` | `struct req` with a reference count and a write position | `/line`, `/size`, write, error and fini hooks |

How they interact. `main` parses options, splits the configuration over worker
threads and starts them. A worker runs one manager in one event loop; managers
share nothing. Within a worker everything is a callback: timers call the
manager, the manager calls down (`clt_conn_create`, `clt_req_create`,
`clt_conn_destroy`), libevhtp calls the hooks of `clt.c`, and those call up into
the manager through `clt_mgr_conn_notify_cb`. Calls nest: destroying an open
connection runs its fini hook, which notifies the manager, which may open a
replacement, all before the dying connection has left the list. Workers hand
snapshots of their counters to the statistics thread under a mutex.

What is hard here, and so what the properties are about:

- *re-entrancy and ownership*: three parties free an evhtp request; the fini
  hook re-arms and re-activates events of an object about to be freed;
- *order within a batch*: one poll of the event loop may find a timeout, a
  response, a queued request and a manager timer ready at once, and callbacks
  withdraw each other's events;
- *the end of a run*: the thread ends when the event base holds no event at all,
  so one timer or connection left behind means it never does;
- *arithmetic*: the fixed-point pacer with its truncation and clamp, and the
  truncating split of limits over threads;
- *threads*: counters are copied and added field by field while other threads go
  on; what is printed and freed at the end depends on who has stopped by then;
- *reference counts*: on the server an error hook, a fini hook and the clean-up of
  output buffers each drop a reference, in an order the network decides, and one
  pointer (the connection's write hook) is not counted at all.

`PROJECT.json` lists the hazards line by line.

## Modules

| module | models | kind |
|---|---|---|
| `Pacer` | the pacer's functions | operators |
| `PacerRate` | the pacer under arbitrary demand, with a ledger | state machine |
| `CltConn` | one connection: what each function of `clt.c` and of the connection half of `mgr.c` does to it | operators on a record |
| `CltMgr` | the manager of one worker, driving a pool of `CltConn` connections from an event loop, with `Pacer` | state machine, composes the two |
| `MgrLifecycle` | what a manager promises, without events, timers and requests | abstract specification |
| `CltMgrLifecycle` | `CltMgr` with the refinement mapping to `MgrLifecycle` | refinement |
| `App` | `main`, the worker threads and the statistics thread | state machine |
| `MgrConfig` | options, their split over threads, the address array | state machine |
| `HttpSrv` | one connection of the server | operators on a record, state machine |
| `MCPacerRate`, `MCCltMgr`, `MCApp`, `MCMgrConfig`, `MCHttpSrv` | instances for TLC | |
| `PacerRateProofs` | the pacer's rate | proofs |
| `CltConnProofs`, `CltMgrProofs`, `CltMgrStepProofs`, `CltMgrLifecycleProofs` | connections; the manager's frees, events and timers; its limits and counters; its phases and the refinement | proofs, each resting on those before it |
| `AppProofs`, `MgrConfigProofs`, `HttpSrvProofs` | threads; configuration; server | proofs |

How they fit together: `CltMgr` composes `CltConn` and `Pacer`; it implements
`MgrLifecycle`, whose last clause (the thread ends only after its final counters
were reported) is what `App` assumes of a worker (the guard of `WorkerEnds`).
`MgrConfig` produces the per-thread configurations that `CltMgr` takes as its
constant `Configs`. `HttpSrv` is the other end of the wire; the client's model
does not rely on it, since it allows any behaviour of the network.

Definitions named `Bug...` are mutated forms of the definition that follows them
(a dropped guard, a missing cancellation, an off-by-one); `PROJECT.json` says
which property each one breaks.

### State and actions against the code

*A connection* is one record: the pointers `con`, `req` and `con->request` as
"non-null" flags, the number of evhtp requests allocated and not freed
(`reqmem`; it goes negative on a double free and stays positive on a leak), the
flags of `clt_mgr_conn`, whether a fini hook has used a request that was already
freed (`undefined`), and for each of its events (`ev_new_http_req`,
`ev_conn_destroy`, `ev_timeout`, the bufferevent) whether it is pending (`armed`)
or on the active queue. A slot whose connection was freed keeps what outlived
it, so a dangling event or a leaked request is visible.

*The manager* is `mgr_state`, its timers (again armed and active), the counters,
the pacer fields and the connections; `mgr_conn_list` is the set of live slots.
`reported` says whether the snapshot last given to `stats_cb` is still current.
`died` says that the use of a freed request has killed the process: undefined
behaviour is a choice between that (`UseFreedRequest`) and going unnoticed
(`DestroyEvent`), since nothing is allocated between the free and the use. What the
write into freed memory may do to the allocator later on is not modelled, so
properties of behaviours that go on after such a destruction speak of the
ones in which it did no harm.

*One action is one callback*, with everything it calls: callbacks run to
completion in a single thread. `TimerRunning`, `TimerWaiting`, `TimerIdle` and
`TimerCleanupWaiting` are the cases of `clt_mgr_timer`. `DestroyEvent` includes
the nested fini hook, notification and replacement. A socket error includes the
error hook, the request's fini hook (which may queue another request), the
connection's fini hook (which cancels it again) and the replacement.

*The event loop* is two things: `PollSome` puts a batch of fired events on the
active queue, when that is empty; the callbacks (`Dispatch`) take from it, in any
order. libevent runs them first in, first out; "any order" covers every order in
which a poll may find them. `event_add`, `event_active`, `event_del` and
the removal of a fired event are `EventAdd`, `EventActive`, `EventDel` and
`EventFired`.

*The network* is the environment: when a bufferevent fires, the connection may
have made progress of no interest (`BevQuiet`), received part of a response
(`ResponseProgress`), its end (`ResponseDone`), something unparsable
(`ParserError`), or an error, an end of file or a timeout (`SocketError`).
Creating a connection or a request may fail.

Left out of the data: URIs, bodies, headers, durations (a timer
that is armed may fire at any poll) and printing. `burst_conn` and `target_nconn`
are natural numbers.

*The application* (`App`) has a place for each thread. `main` starts the workers
and the statistics thread (each creation may fail, which ends the program), joins
the workers, clears `stats_thread_run`, joins the statistics thread, prints
`run_total` and frees. A worker locks its `prev_stats_mtx`, copies one counter,
then the other, and unlocks; the statistics thread sleeps, zeroes its total, locks
each mutex in turn and adds one counter, then the other, prints, and tests the
flag. Two counters stand for all the monotone ones: `mgr_stats_copy`,
`mgr_stats_add` and `mgr_stats_diff` treat them alike.

*The configuration* (`MgrConfig`) has one action per kind of option, in any order
and number, then `ParseDone` (the check of the minimum configuration, the
allocation of the threads' state, `mgr_config_copy_thread`). Then each thread opens
connections within its own shares (`CheckCreateConn`, `CreateConn`), each to the next
address of its copy, and loses them (`ConnGone`); when is left open, `CltMgr` says
it. `atoi` of an option's text is the choice of a number.

*A server connection* (`HttpSrv`) is one record, and each function of `http.c` an
operator from record to record, as in `CltConn`. A `struct req` has its
reference count, whether `r->req` is set, its type, and its position and size in
one pair for both kinds of reply. libevhtp's part is external: a drained
output buffer calls the write hook and then ends a finished request; a pipelined
request frees a finished one that is still draining; dropping a connection frees
first the request (fini hook), then the output buffer (the clean-up functions of
its references). `undefined` records a use of freed memory, after which
nothing more is said.

### The abstract lifecycle

`MgrLifecycle` has no timers, events, requests or queues. It says: from NONE to
RUNNING; there, connections come and go within `target_nconn` at once and
`target_total_nconn_count` in all; then WAITING, CLEANUP, CLEANUP_WAITING, in
which connections only go; COMPLETED when none is left; the thread ends with the
final counters reported. The mapping is direct: `mgr_state`, the list, `conn_count`,
whether the last snapshot is current, and `Terminated`. A callback is a step of
`Run`, `Drain` or `Report`, or a stuttering step; polls and everything about
requests stutter unless a counter changes.

## Runs

| run | what it shows |
|---|---|
| `pacer_rate` | Rates on both sides of the multiples of 100, 12 ticks, any demand per interval: never above the configured rate plus one interval (`RateNeverExceeded`), all of it under saturating demand from 100 per second up (`RateDelivered`), and the invariant behind both (`Ledger`) |
| `pacer_low_rate` (violation) | rates 1 to 99 never get a permit |
| `mgr_safety` | the gauge (`NconnMatchesList`), no event of a freed connection (`NoDanglingEvents`), each request freed once and not used afterwards when the network ends the connection (`RequestFreedOnce`), nor otherwise unless it is in flight when its connection is destroyed (`DiesOnlyInFlight`), no request queued on a busy or closed connection (`OneRequestAtATime`), no connection forgotten (`ConnHasWaker`), limits (`QuotasRespected`), counters, a timeout counted at most once per timer (`RequestsAccounted`), timers and phases (`PhaseTimers`, `LifecycleForward`), no further request once RUNNING is over (`QuietAfterRunning`), a clean end (`CleanExit`), and the refinement (`ImplementsLifecycle`); deadlock is checked |
| `mgr_liveness` | with a running period the thread ends (`RunEnds`); a connection marked dead is freed, also one that opened its replacement (`DeadIsReaped`); either way unless the process has died |
| `mgr_freed_request` (violation) | a connection is destroyed with a request in flight, and its fini hook uses the request libevhtp has freed |
| `mgr_burst` (violation) | a tick opens `burst_conn + 1` connections |
| `srv_reply` | requests one after the other, pipelined, refused, failing at any point: the reference count is exact (`RefcountExact`), a closed connection leaves nothing behind (`NothingLeaks`), a reply is ended when it is whole and until then will be called again (`ReplyWhole`), and the uncounted write hook is valid unless a buffer's allocation has failed (`WriteHookValid`); a reply in progress ends if the client reads (`ReplyEnds`) |
| `srv_stale_hook` (violation) | a freed `struct req` is used |
| `app_threads` | totals never show more responses than requests (`TotalsConsistent`), a sweep lies between what was published when it began and when it ended (`SweepBracketed`), interval differences are not negative (`DiffsNonnegative`), nothing is freed while a thread can use it (`FreedWhenUnused`), the program ends (`ProgramEnds`) |
| `app_run_total` (violation) | `run_total` leaves requests out |
| `config_split` | threads that know nothing of each other keep together to the connections open at a time, and to the total if there is at least one per thread (`LimitsKeptTogether`); the address array is not overrun (`TypeOK`) |
| `config_total` (violation) | a total smaller than the number of threads becomes no limit, and together they exceed it |

### Findings

1. `mgr.c:641`, `j <= burst_conn`: a tick opens one connection more than
   `main.c:64` and the usage text (`main.c:150`) say.
2. `mgr.c:108-117`: for rates below 100 per second both terms of the target
   truncate to zero and the clamp keeps the error from ever reaching a whole
   request. Such a run makes no request, though `main.c:158` offers any number
   of requests per second.
3. `srv/http.c:402`: `sizecb` ignores that `req_set_type_buf` failed. The request
   goes on with type NONE and is answered with an error, but the connection's write
   hook was set and is never unset; the fini hook frees the `struct req`, and the
   next request on the connection makes libevhtp call the hook with the freed
   pointer. `http.c:71` says "Refcount = only free when the refcnt == 0"; the hook
   is a user that is not counted. It takes a failed `malloc`, so no test meets it.
4. `main.c:428`, "Completed total!" (line 427): `run_total` is the statistics
   thread's last sweep. Usually that thread is asleep when the flag is cleared and
   sweeps once more; but if the last worker publishes and ends after a sweep has
   passed it, and `main` clears the flag before the sweep's thread reads it, no
   further sweep is made and those requests are missing.
5. `mgr_config.c:36`: a `--target-total-nconn-count` smaller than the number of
   threads is divided to 0, which the manager takes for no limit, against
   `main.c:153`.
6. `clt.c:203`: `clt_conn_destroy` with a request in flight unsets the request's
   hooks (line 113), so nobody clears `r->req`; `evhtp_connection_free` frees the
   request and then calls `clt_upstream_conn_fini`, which calls
   `evhtp_unset_all_hooks(&r->req->hooks)` on the freed request, although its own
   comment (line 183) says "Any pending request on the con is also freed". It takes
   no rare event: `ev_timeout` firing and then the destroy event, or forced
   cleanup. `DiesOnlyInFlight` shows that it is the only such path. The order,
   request before connection hook, is libevhtp's and assumed here.

Also seen, and stated by no run: `clt.c:392` says "And start our own timer", but the
timer is only created there and first armed when a response begins, so a server that
accepts and stays silent is noticed by the bufferevent's timeout alone; the usage text
(`main.c:146`) says "randomly select between each" address, but they are taken in turn
(`NextIndex`), and `cfg_ipv4_array_get_random` has no caller; `clt.c:368` copies `host_ip` where it
means `host_hdr`, so `--host-hdr` (`main.c:147`) has no effect;
`--target-global-request-count` (`main.c:154`) is accepted by `getopt` and has no
case in `parse_opts`, so the program prints its usage and exits
(`OptGlobalRequestCount`); `burst_conn` is 1 by default and its share is 0 with two
threads or more, which works only because of finding 1; a `target_nconn`
smaller than the number of threads leaves every thread without connections; the
comment at `mgr.c:272` names phases other than the ones the code tests.

### Bounds, and why they are enough

`Conns` is a pool of three. With `target_nconn = 2` at most two connections live at
once, a dying one included (`nconn` counts it until it is freed, so it can open a
replacement only when it was the only one); the third slot lets two be alive while a
freed slot keeps what outlived its connection.
`MaxConns = 3` and `MaxReqs = 3` stop the network from being heard while
RUNNING once that many connections or requests were made; timers go on, so
every behaviour can still end, and outside RUNNING the network is never
silenced. Three connections give a first pair and a replacement; three requests
give one connection a keepalive request and the other one of its own. `MaxFails`
allows one failed creation of each kind. `BatchMax = 2` lets any two events be
ready in one poll, which is what every race listed as a hazard takes; callbacks
then add to the queue. Connection slots are interchangeable, so the safety run
uses symmetry (not the liveness run). The liveness run has two slots, three
connections in all, two requests, one failed creation of each kind and
batches of two: with `target_nconn = 2` a dying connection opens its replacement, or
fails to. Of its three configurations one ends by its connection total or its
period, whichever comes first, one is paced, and one never ends (for that one
only `DeadIsReaped` says something). Four configurations combine a connection
total or none, a request count or none, pacing or none, a wait before requests or
none, keepalive or not, and a running period or none. The pacer's 12 ticks are
a whole cycle of remainders for rates that are multiples of ten (at most ten
ticks) and the start of one for the others; the theorems remove both bounds.

*Application*: two workers, because what can go wrong takes one that has been swept
and one that has not; one of them makes two requests, so that it may be swept
between them. *Configuration*: five options are enough for a complete command line
(address, URI, port) and a limit with the number of threads; the values are "no
limit", zero, and two numbers of which neither divides the other. A thread makes few
connections, but enough to exceed its share and, with the other threads, the limit. Two addresses
fill the array, a third is refused, and a thread goes round once and begins again.
*Server*: buffers of two bytes and replies of 0 to 5, that is empty, less
than, exactly and more than one and two buffers; three lines for sixteen; four
requests, so that a request whose buffer fails is followed by others and three
pipelined replies have their `struct req`s alive at once.

### Fairness

`FairSpec` assumes that the thread starts (`Start`), that the loop runs some
queued callback while there is one (`Dispatch`), and, for each manager timer,
that a timer pending again and again is found expired by some poll (strong
fairness of `PollTimer`, because a poll happens only when the queue is empty).
libevent guarantees the last two: deadlines pass and an expired timer is
activated by the next poll. Nothing is assumed of the network: a connection may
stay silent for ever, and the run still ends through forced cleanup. A process that
has died owes nothing (`Alive`).

`App` assumes that every thread is scheduled, that a mutex released again and
again is got in the end (strong fairness of the two lock actions), and that a worker
whose snapshot is final again and again ends: that is what `RunEnds` and
`CleanExit` establish of its manager. `HttpSrv` assumes that a client reads what is
sent to it (`DrainAll`) and nothing else; the server sets no timeout, so without a
reading client a reply stays where it is.

## Proofs

All for every value of the constants: every pool of connections, set of
configurations, number of threads and bound.

`PacerRateProofs`. The rate properties are not inductive: they say nothing of
the carried error. `Ledger` adds it: error plus 1000 times the permits granted is
at most 10 times ticks times rate, with equality while demand saturates; the
error lies between 0 and one interval's share; the target is what the error and
the rate make it. `PacerLedger` proves it invariant; `PacerNeverExceedsRate` and
`PacerDeliversRate` follow. Assumption: rates are positive and at most `MaxRate`,
where the C arithmetic does not overflow.

`CltConnProofs`. `ConnOK` is the invariant of one connection between callbacks:
the request known to both of its owners or to neither and allocated exactly then; a
queued request only on an open idle connection; dead exactly when queued for
destruction; a closed connection dead; an open one with its bufferevent armed; a freed
slot with no events. The lemmas say what each function does to a connection in
`ConnOK`, following the nesting (and that no freed request was used in an idle or
network-closed connection): first the event operations, then the
notifications, then the hooks, then `ConnectionFree`, which goes through states
that are not `ConnOK`, then `MgrConnDestroy`, which ends with an empty slot.

`CltMgrProofs`. `TypeOK`, `ConnsOK` (every connection in `ConnOK`) and
`NconnMatchesList` are inductive together (`MgrInvariant`): the gauge needs to know
which slots are live, the destroy callback must find a live connection, and
the bound of the pool needs the gauge. `NoDoubleFree`, `NoUseAfterFree`,
`RequestsNeverCollide`, `NobodyForgotten` and `GaugeIsExact` follow, and
`UseConfined`: destroying a connection without a request in flight uses nothing
freed. None of this says that `clt_conn_destroy` is memory safe with one in flight:
finding 6 shows that it is not. `PhasesHaveTheirTimers`
needs only one fact more, that no timer is set before the start. Assumptions:
the pool is finite and at least as large as `target_nconn`, and the
configuration's fields have their types.

`CltMgrStepProofs`. Limits and counters are shared by every callback, so
one lemma, `EveryStep`, says what any step may do: which connections it opens
(`Opens`), how an existing one may move (`Moves`: the dead stay dead, a request is
queued only on a connection that may ask for one), and which counter goes up for
what became of whose request (`Counts`). A connection's count alone is not
inductive against its limit, since the check is made when a request is queued and
the count goes up when it is sent; `QuotaInv` therefore bounds `Outstanding`, the
count with the queued request. `RequestsAccounted` allows two counts per request,
because its own timer and the bufferevent's may both expire; `AccountInv` also
counts the requests that may still time out (`TimingOut`), which in turn needs that
a queued timeout belongs to a connection with a request (`TimeoutOwned`).
`LimitsKept` and `RequestsAddUp` follow.

`CltMgrLifecycleProofs`. `PhaseInv` is what each phase knows: no connection before
the start and after the end, only dying ones in CLEANUP_WAITING, and after
COMPLETED the statistics timer still to come unless the counters were reported.
With the timers of each phase (`TimersInvariant`) it gives `ExitIsClean`,
`PhasesGoForward` and `NoNewRequests`, and with `QuotaInv` the refinement,
`LifecycleImplemented`: every initial state of `CltMgr` maps to one of
`MgrLifecycle`, and every callback to one of its steps or to none.

`AppProofs`. The first invariant joins four facts that need each other: how far
`main` has got in joining (`Shutdown`), who holds which mutex (`Locks`), that a
snapshot is no newer than the counters and, half copied, has the new `req_count`
(`Counters`), and that a total with one counter of a snapshot added has room for
the other (`Totals`, which holds because the mutex keeps that snapshot from
changing). `NothingFreedInUse` and `MutexSuffices` follow, for any number of
workers. The second, `Sweep`, is about a total that is still being added up while
workers publish. It is no more than what the workers added so far have published
by now; and what it may lack, compared with the total before or with what was
published when the sweep began, is no more than what the workers still to come
have published (`Missing`). At the end of the sweep nobody is still to come, which
gives `SweepsBracketed` and `TotalsGrow` (`DiffsNonnegative`). Sums over the workers
are the values of a recursive function; that they exist, and that all from a worker
on grow when its counter does (`PartialSumsFacts`, `SumsGrow`), is shown from a
least counterexample (`LeastElement`), which needs no induction scheme.

`HttpSrvProofs`. The functions of `http.c` call each other, so `Base` is what each
of them keeps, in the middle of a callback too: every `struct req` counted exactly
(`refs` for buffer pieces in the output, one for the hooks), a free one reset, and
nothing undefined unless a buffer's `malloc` failed. `Between` adds what is true
between callbacks: a reply in progress has its write hook and output pending, a
finished one is whole (`ReplyOK`), a write hook left without a reply belongs to a
request without a type (`HookOK`), and a closed connection refers to nothing.
`CountsExact`, `NoLeak`, `RepliesWhole` and `HooksValid` follow, for any number of
`struct req`s and requests and any sizes of replies and buffers. Finding 3 is why
`HookOK` needs its exception.

`MgrConfigProofs`. Every thread has its share of each limit and keeps to it
(`WithinShares`); the set of all their connections is within threads times share, and
that within the limit, because shares are rounded down (`TogetherBound`,
`ShareBound`). `ArrayNotOverrun` and `ThreadsKeepLimits` follow, for every command line, array
size and number of threads.

Every invariant and action property of a passing run, and the refinement, is thus
a theorem. Only model-checked: the four liveness properties (`RunEnds`,
`DeadIsReaped`, `ReplyEnds`, `ProgramEnds`), which are out of the prover's reach as
everything that takes fairness is; the six violations are shown by TLC's
counterexamples.

## Not modelled

libevent and libevhtp themselves: they are external, and only as much of them is
modelled as the code relies on. On the server, the options (port, threads), the
threads (connections share nothing) and the hooks that only print. On the client,
`cfg_ipv4_array_get_random`, which nothing calls, and the layout of
`mgr_stats_print`. Also the contents of requests and responses, and printing.
`evhtp_unset_all_hooks` is modelled where it decides whether a hook runs later or its
argument may have been freed.
Allocation failures inside libevent (`event_new`) are not handled by the code and
not modelled.

## Plan

The state-changing code is modelled and its safety properties are proved. What is
worth adding:

1. A tick opens at most `burst_conn + 1` connections (`mgr_burst`), as a theorem.
2. What `run_total` does promise, given that it may leave requests out
   (`app_run_total`): never more than was made.
