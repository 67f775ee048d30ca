------------------------------ MODULE MgrConfig ------------------------------
(***************************************************************************)
(* The client's configuration (clt/main.c, clt/mgr_config.c): options are  *)
(* parsed into one mgr_config, which is split over the worker threads;     *)
(* each thread then opens connections within its own shares of the limits  *)
(* and takes the destination of each from its own copy of the address      *)
(* array.  When a thread opens and closes connections is left open here:   *)
(* CltMgr says when.                                                       *)
(***************************************************************************)
EXTENDS Pacer, Sequences, FiniteSets

CONSTANTS
    Values,                \* numbers given to options (atoi of their text)
    Addrs,                 \* addresses given to --host-ip
    CFG_IPV4_ARRAY_MAX,    \* 16 in the code
    MaxOpts,               \* bound: options on the command line
    MaxConns               \* bound: connections opened by a thread

ASSUME ConfigAssumption ==
    /\ Values \subseteq Int
    /\ {CFG_IPV4_ARRAY_MAX, MaxOpts, MaxConns} \subseteq Nat

VARIABLES
    phase,      \* "parse", "run" or "exited"
    why,        \* why the program exited
    nopts,
    cfg,        \* the integers of a.cfg
    names,      \* are a.cfg.uri and a.cfg.host_hdr set?
    ipv4_dst,   \* the addresses of a.cfg
    thr         \* each thread's copy: its integers and the index of its next
                \* address; and its counters of open connections and of all it
                \* has opened

vars == <<phase, why, nopts, cfg, names, ipv4_dst, thr>>

\* The limits that are shared out, and the fields every thread gets as they are.
Limits == {"burst_conn", "target_nconn", "target_request_rate",
           "target_global_request_count", "target_total_nconn_count"}
Plain == {"num_threads", "target_request_count", "running_period_sec",
          "waiting_period_sec", "port", "wait_time_pre_http_req_msec",
          "http_keepalive"}

CfgType == [Limits \cup Plain -> Int]

\* mgr_config_defaults.
Defaults ==
    [num_threads |-> 1, burst_conn |-> 1, target_nconn |-> 128,
     target_request_rate |-> -1, target_request_count |-> -1,
     target_global_request_count |-> -1, target_total_nconn_count |-> -1,
     running_period_sec |-> 30, waiting_period_sec |-> 30, port |-> -1,
     wait_time_pre_http_req_msec |-> 1, http_keepalive |-> 1]

Init ==
    /\ phase = "parse"
    /\ why = "none"
    /\ nopts = 0
    /\ cfg = Defaults
    /\ names = {}
    /\ ipv4_dst = <<>>
    /\ thr = <<>>

Exit(reason) == phase' = "exited" /\ why' = reason

------------------------------------------------------------------------------
(* parse_opts: one option of the command line                              *)

Option == phase = "parse" /\ nopts < MaxOpts /\ nopts' = nopts + 1

\* The options with a number that the switch handles: all but the global
\* request count.
OptInt(field, v) ==
    /\ Option
    /\ field \in (Limits \cup Plain) \ {"target_global_request_count"}
    /\ cfg' = [cfg EXCEPT ![field] = v]
    /\ UNCHANGED <<phase, why, names, ipv4_dst, thr>>

OptName(name) ==
    /\ Option
    /\ names' = names \cup {name}
    /\ UNCHANGED <<phase, why, cfg, ipv4_dst, thr>>

\* cfg_ipv4_array_add refuses when the array is full.
ArrayFull == Len(ipv4_dst) >= CFG_IPV4_ARRAY_MAX

OptHostIp(addr) ==
    /\ Option
    /\ IF ArrayFull
         THEN Exit("too many addresses") /\ UNCHANGED ipv4_dst
         ELSE ipv4_dst' = Append(ipv4_dst, addr) /\ UNCHANGED <<phase, why>>
    /\ UNCHANGED <<cfg, names, thr>>

\* --help, and what getopt_long does not know.
OptUsage ==
    /\ Option
    /\ Exit("usage")
    /\ UNCHANGED <<cfg, names, ipv4_dst, thr>>

\* --target-global-request-count: known to getopt_long, but not to the switch.
OptGlobalRequestCount ==
    /\ Option
    /\ Exit("option not handled")
    /\ UNCHANGED <<cfg, names, ipv4_dst, thr>>

------------------------------------------------------------------------------
(* main: check, split                                                      *)

\* Mutant of Share: rounded up, so that no remainder is lost.
BugRoundedUp(field, n) == CDiv(cfg[field] + n - 1, n)

\* One thread's share of a limit.  Of the five, two are divided whatever they
\* are, and three only when they do limit something.
Share(field, n) ==
    IF field \in {"burst_conn", "target_nconn"} \/ cfg[field] > 0
      THEN CDiv(cfg[field], n) ELSE cfg[field]

\* mgr_config_copy_thread into a zeroed struct clt_mgr.
CopyThread(n) ==
    [cfg |-> [f \in Limits \cup Plain |->
                IF f \in Limits THEN Share(f, n) ELSE cfg[f]],
     cur |-> 0,
     nconn |-> 0, conn_count |-> 0]

\* The minimum configuration.
Complete == ipv4_dst # <<>> /\ "uri" \in names /\ cfg["port"] # -1

\* No more options: check, allocate the threads' state, share out.  calloc
\* takes a negative number of threads for a huge one.
ParseDone ==
    /\ phase = "parse"
    /\ CASE ~Complete -> Exit("incomplete") /\ UNCHANGED thr
         [] Complete /\ cfg["num_threads"] < 0 ->
              Exit("no memory") /\ UNCHANGED thr
         [] Complete /\ cfg["num_threads"] >= 0 ->
              /\ phase' = "run"
              /\ thr' = [t \in 1..cfg["num_threads"] |->
                           CopyThread(cfg["num_threads"])]
              /\ UNCHANGED why
    /\ UNCHANGED <<nopts, cfg, names, ipv4_dst>>

------------------------------------------------------------------------------
(* Threads: connections and their destinations                             *)

\* Mutant of NextIndex: does not wrap around.
BugNoWrap(cur, n) == cur + 1

\* The index after cur in cfg_ipv4_array_get_next.
NextIndex(cur, n) == (cur + 1) % n

\* clt_mgr_check_create_conn with the thread's shares: 0 is no limit for the
\* total, and no connection at all for the number open at a time.
CheckCreateConn(th) ==
    /\ th.cfg["target_total_nconn_count"] > 0 =>
           th.conn_count < th.cfg["target_total_nconn_count"]
    /\ th.nconn < th.cfg["target_nconn"]

\* clt_mgr_conn_try_create: clt_mgr_conn_create takes the next address, also
\* for a connection that clt_conn_create then fails to make (n = 0).
CreateConn(t, n) ==
    LET th == thr[t]
    IN  /\ phase = "run"
        /\ CheckCreateConn(th)
        /\ th.conn_count < MaxConns
        /\ thr' = [thr EXCEPT ![t] =
                     [cfg |-> th.cfg,
                      cur |-> NextIndex(th.cur, Len(ipv4_dst)),
                      nconn |-> th.nconn + n, conn_count |-> th.conn_count + n]]
        /\ UNCHANGED <<phase, why, nopts, cfg, names, ipv4_dst>>

\* _clt_mgr_conn_destroy, of any connection.
ConnGone(t) ==
    /\ phase = "run"
    /\ thr[t].nconn > 0
    /\ thr' = [thr EXCEPT ![t].nconn = @ - 1]
    /\ UNCHANGED <<phase, why, nopts, cfg, names, ipv4_dst>>

\* The rest of the program does not change the configuration.
Done == phase # "parse" /\ UNCHANGED vars

Next ==
    \/ \E f \in Limits \cup Plain, v \in Values : OptInt(f, v)
    \/ \E name \in {"uri", "host_hdr"} : OptName(name)
    \/ \E a \in Addrs : OptHostIp(a)
    \/ OptUsage
    \/ OptGlobalRequestCount
    \/ ParseDone
    \/ \E t \in DOMAIN thr, n \in {0, 1} : CreateConn(t, n)
    \/ \E t \in DOMAIN thr : ConnGone(t)
    \/ Done

Spec == Init /\ [][Next]_vars

------------------------------------------------------------------------------
(* Properties                                                              *)

\* The address array is not overrun, neither by options nor by a thread's index.
TypeOK ==
    /\ phase \in {"parse", "run", "exited"}
    /\ why \in {"none", "too many addresses", "usage", "option not handled",
                "incomplete", "no memory"}
    /\ nopts \in 0..MaxOpts
    /\ cfg \in CfgType
    /\ names \subseteq {"uri", "host_hdr"}
    /\ ipv4_dst \in Seq(Addrs) /\ Len(ipv4_dst) <= CFG_IPV4_ARRAY_MAX
    /\ \A t \in DOMAIN thr :
         thr[t] \in [cfg : CfgType, cur : 0..(Len(ipv4_dst) - 1),
                     nconn : Nat, conn_count : Nat]

\* What the threads count together: a set with one member for each.
Together(f) == UNION {{t} \X (1..thr[t][f]) : t \in DOMAIN thr}

\* The threads know nothing of each other, and each keeps only to its share;
\* together they still never have more connections open than --target-nconn
\* says, nor open more than --target-total-nconn-count if that is at least one
\* per thread.  A closed connection makes room again in its own thread only.
LimitsKeptTogether ==
    /\ Together("nconn") # {} =>
           Cardinality(Together("nconn")) <= cfg["target_nconn"]
    /\ Together("conn_count") # {} =>
           \/ cfg["target_total_nconn_count"] < cfg["num_threads"]
           \/ Cardinality(Together("conn_count")) <= cfg["target_total_nconn_count"]

\* "--target-total-nconn-count=<total number of connections, or -1 for
\* unlimited>": a run with a total keeps it, however many its threads.
TotalKept ==
    cfg["target_total_nconn_count"] > 0 =>
        Cardinality(Together("conn_count")) <= cfg["target_total_nconn_count"]
==============================================================================
