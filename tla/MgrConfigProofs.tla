--------------------------- MODULE MgrConfigProofs ---------------------------
(***************************************************************************)
(* The configuration: for every command line, every number of threads and  *)
(* every address array, the threads together keep to the limits each of    *)
(* them has a share of, and none goes past the end of its array.           *)
(***************************************************************************)
EXTENDS MgrConfig, SequenceTheorems, FiniteSetTheorems, TLAPS

\* A thread's copy of the configuration.
ThreadType ==
    [cfg : CfgType, cur : 0..(Len(ipv4_dst) - 1),
     nconn : Nat, conn_count : Nat]

\* A thread keeps to its shares.
WithinShares(th) ==
    /\ th.nconn > 0 => th.nconn <= th.cfg["target_nconn"]
    /\ th.cfg["target_total_nconn_count"] > 0 =>
         th.conn_count <= th.cfg["target_total_nconn_count"]

\* Each thread has its share of the limits and keeps to it.
ThreadOK(t) ==
    /\ thr[t] \in ThreadType
    /\ \A f \in Limits : thr[t].cfg[f] = Share(f, cfg["num_threads"])
    /\ WithinShares(thr[t])

\* Threads exist once the options are complete, and no earlier.
IInv ==
    /\ TypeOK
    /\ phase # "run" => thr = <<>>
    /\ phase = "run" =>
         /\ DOMAIN thr = 1..cfg["num_threads"]
         /\ thr = [t \in DOMAIN thr |-> thr[t]]
         /\ Len(ipv4_dst) > 0
    /\ \A t \in DOMAIN thr : ThreadOK(t)

------------------------------------------------------------------------------
\* Integer division by a number of threads.
LEMMA DivFacts ==
    ASSUME NEW a \in Nat, NEW n \in Nat \ {0}
    PROVE  /\ a \div n \in Nat
           /\ n * (a \div n) <= a
           /\ a < n * (a \div n + 1)
  OBVIOUS

\* C's division by a number of threads: the sign never changes.
LEMMA CDivFacts ==
    ASSUME NEW a \in Int, NEW n \in Nat \ {0}
    PROVE  /\ CDiv(a, n) \in Int
           /\ a >= 0 => /\ CDiv(a, n) >= 0
                        /\ n * CDiv(a, n) <= a
                        /\ a < n * (CDiv(a, n) + 1)
           /\ a <= 0 => CDiv(a, n) <= 0
  <1>1. CASE a >= 0
    <2>1. CDiv(a, n) = a \div n /\ a \in Nat
      BY <1>1 DEF CDiv
    <2>2. a = 0 => a \div n = 0
      BY DivFacts
    <2> QED
      BY <1>1, <2>1, <2>2, DivFacts
  <1>2. CASE a < 0
    <2>1. CDiv(a, n) = -((-a) \div n) /\ -a \in Nat
      BY <1>2 DEF CDiv
    <2>2. (-a) \div n \in Nat
      BY <2>1, DivFacts
    <2> QED
      BY <1>2, <2>1, <2>2
  <1> QED
    BY <1>1, <1>2

\* A share is a number.
LEMMA ShareType ==
    ASSUME cfg \in CfgType, NEW f \in Limits, NEW n \in Nat \ {0}
    PROVE  Share(f, n) \in Int
  <1>1. cfg[f] \in Int
    BY DEF CfgType
  <1> QED
    BY <1>1, CDivFacts DEF Share

\* The defaults are a configuration.
LEMMA DefaultsType == Defaults \in CfgType
  BY DEF Defaults, CfgType, Limits, Plain

\* An index within the array is left alone by the remainder, its length is not.
LEMMA ModFacts ==
    ASSUME NEW n \in Nat \ {0}, NEW a \in 0..(n - 1)
    PROVE  a % n = a /\ n % n = 0
  OBVIOUS

\* The next address is in the array.
LEMMA NextIndexInside ==
    ASSUME NEW n \in Nat \ {0}, NEW cur \in 0..(n - 1)
    PROVE  NextIndex(cur, n) \in 0..(n - 1)
  <1>1. CASE cur + 1 = n
    BY <1>1, ModFacts DEF NextIndex
  <1>2. CASE cur + 1 # n
    <2>1. cur + 1 \in 0..(n - 1)
      BY <1>2
    <2> QED
      BY <2>1, ModFacts DEF NextIndex
  <1> QED
    BY <1>1, <1>2

\* One thread changes, within its shares; the configuration does not.
LEMMA ThreadStep ==
    ASSUME IInv, phase = "run", NEW t \in DOMAIN thr, NEW th \in ThreadType,
           thr' = [thr EXCEPT ![t] = th], th.cfg = thr[t].cfg,
           WithinShares(th),
           UNCHANGED <<phase, why, nopts, cfg, names, ipv4_dst>>
    PROVE  IInv'
  <1>1. /\ TypeOK /\ DOMAIN thr = 1..cfg["num_threads"]
        /\ thr = [x \in DOMAIN thr |-> thr[x]] /\ Len(ipv4_dst) > 0
        /\ \A x \in DOMAIN thr : ThreadOK(x)
    BY DEF IInv
  <1>2. /\ DOMAIN thr' = DOMAIN thr
        /\ thr' = [x \in DOMAIN thr' |-> thr'[x]]
        /\ thr'[t] = th /\ \A x \in DOMAIN thr : x # t => thr'[x] = thr[x]
    BY <1>1
  <1>3. /\ ThreadType' = ThreadType
        /\ \A f : Share(f, cfg["num_threads"])' = Share(f, cfg["num_threads"])
    BY DEF ThreadType, Share
  <1>4. \A x \in DOMAIN thr' : ThreadOK(x)'
    <2> SUFFICES ASSUME NEW x \in DOMAIN thr PROVE ThreadOK(x)'
      BY <1>2
    <2>1. CASE x = t
      BY <1>1, <1>2, <1>3, <2>1 DEF ThreadOK
    <2>2. CASE x # t
      BY <1>1, <1>2, <1>3, <2>2 DEF ThreadOK
    <2> QED
      BY <2>1, <2>2
  <1>5. TypeOK'
    BY <1>1, <1>4 DEF TypeOK, ThreadOK, ThreadType
  <1> QED
    BY <1>1, <1>2, <1>4, <1>5 DEF IInv

\* A thread's shares are numbers.
LEMMA ShareNumbers ==
    ASSUME NEW th \in ThreadType
    PROVE  /\ th.cfg["target_nconn"] \in Int
           /\ th.cfg["target_total_nconn_count"] \in Int
           /\ th.nconn \in Nat /\ th.conn_count \in Nat
  BY DEF ThreadType, CfgType, Limits

\* A thread takes an address, and has one connection more or does not.
LEMMA CreateStep ==
    ASSUME IInv, NEW t \in DOMAIN thr, NEW k \in {0, 1}, CreateConn(t, k)
    PROVE  IInv'
  <1> DEFINE n == Len(ipv4_dst)
             old == thr[t]
             cur == NextIndex(old.cur, n)
             th == [cfg |-> old.cfg, cur |-> cur,
                    nconn |-> old.nconn + k, conn_count |-> old.conn_count + k]
  <1>1. /\ phase = "run" /\ CheckCreateConn(old)
        /\ UNCHANGED <<phase, why, nopts, cfg, names, ipv4_dst>>
        /\ thr' = [thr EXCEPT ![t] = th]
    BY DEF CreateConn
  <1>2. n \in Nat \ {0}
    <2>1. ipv4_dst \in Seq(Addrs) /\ Len(ipv4_dst) > 0
      BY <1>1 DEF IInv, TypeOK
    <2>2. Len(ipv4_dst) \in Nat
      BY <2>1, LenProperties
    <2> QED
      BY <2>1, <2>2
  <1>3. /\ old \in ThreadType /\ WithinShares(old)
        /\ old.cfg \in CfgType
        /\ old.cur \in 0..(n - 1)
    BY DEF IInv, ThreadOK, ThreadType
  <1>4. cur \in 0..(n - 1)
    BY <1>2, <1>3, NextIndexInside
  <1>5. WithinShares(th)
    <2> DEFINE a == old.nconn
               b == old.conn_count
               c == old.cfg["target_nconn"]
               d == old.cfg["target_total_nconn_count"]
    <2>1. a \in Nat /\ b \in Nat /\ c \in Int /\ d \in Int
      BY <1>3, ShareNumbers
    <2>2. a < c /\ (d > 0 => b < d)
      BY <1>1 DEF CheckCreateConn
    <2> HIDE DEF a, b, c, d
    <2>3. a + k <= c /\ (d > 0 => b + k <= d)
      BY <2>1, <2>2
    <2> QED
      BY <2>3 DEF WithinShares, a, b, c, d
  <1>6. old.nconn + k \in Nat /\ old.conn_count + k \in Nat
    BY <1>3, ShareNumbers
  <1> HIDE DEF cur, n
  <1>7. th \in ThreadType /\ th.cfg = old.cfg
    BY <1>3, <1>4, <1>6 DEF ThreadType, n
  <1> HIDE DEF th
  <1> QED
    BY <1>1, <1>5, <1>7, ThreadStep

\* A connection goes.
LEMMA GoneStep ==
    ASSUME IInv, NEW t \in DOMAIN thr, ConnGone(t)
    PROVE  IInv'
  <1> DEFINE old == thr[t]
             th == [old EXCEPT !.nconn = @ - 1]
  <1>1. /\ phase = "run" /\ old.nconn > 0
        /\ UNCHANGED <<phase, why, nopts, cfg, names, ipv4_dst>>
        /\ thr' = [thr EXCEPT ![t] = th]
    BY DEF ConnGone
  <1>2. old \in ThreadType /\ WithinShares(old)
    BY DEF IInv, ThreadOK
  <1>3. old.nconn \in Nat /\ old.nconn - 1 \in Nat
    BY <1>1, <1>2, ShareNumbers
  <1>4. /\ th \in ThreadType /\ th.cfg = old.cfg
        /\ th.conn_count = old.conn_count
        /\ th.nconn = old.nconn - 1
    BY <1>2, <1>3 DEF ThreadType
  <1>5. WithinShares(th)
    <2> DEFINE a == old.nconn
               c == old.cfg["target_nconn"]
    <2>1. a \in Nat /\ c \in Int /\ a > 0 /\ (a > 0 => a <= c)
      BY <1>1, <1>2, ShareNumbers DEF WithinShares
    <2> HIDE DEF a, c
    <2>2. a - 1 <= c
      BY <2>1
    <2> HIDE DEF th
    <2> QED
      BY <1>2, <1>4, <2>2 DEF WithinShares, a, c
  <1> HIDE DEF th
  <1> QED
    BY <1>1, <1>2, <1>4, <1>5, ThreadStep

\* A counter below its limit can be incremented.
LEMMA Below ==
    ASSUME NEW b \in Nat, NEW a \in Nat
    PROVE  /\ ~(a >= b) => a + 1 <= b
           /\ a \in 0..b /\ a < b => a + 1 \in 0..b
  OBVIOUS

\* What counts up to a number is a number.
LEMMA CountIsNat ==
    ASSUME NEW b \in Nat, NEW a \in 0..b
    PROVE  a \in Nat
  OBVIOUS

\* No thread exists before the options are complete.
LEMMA NoThread ==
    ASSUME thr = <<>>
    PROVE  DOMAIN thr = {}
  OBVIOUS

\* An option changes no thread: there is none.
LEMMA OptionStep ==
    ASSUME IInv, Option, thr' = thr, phase' \in {"parse", "exited"},
           why' \in {"none", "too many addresses", "usage", "option not handled",
                     "incomplete", "no memory"},
           cfg' \in CfgType, names' \subseteq {"uri", "host_hdr"},
           ipv4_dst' \in Seq(Addrs), Len(ipv4_dst') <= CFG_IPV4_ARRAY_MAX
    PROVE  IInv'
  <1>1. thr = <<>> /\ DOMAIN thr = {}
    BY NoThread DEF IInv, Option
  <1>2. nopts' \in 0..MaxOpts
    <2>1. MaxOpts \in Nat
      BY ConfigAssumption
    <2>2. nopts \in 0..MaxOpts /\ nopts < MaxOpts /\ nopts' = nopts + 1
      BY DEF IInv, TypeOK, Option
    <2>3. nopts \in Nat
      BY <2>1, <2>2, CountIsNat
    <2> QED
      BY <2>1, <2>2, <2>3, Below
  <1> QED
    BY <1>1, <1>2 DEF IInv, TypeOK

\* An address is added to an array that is not full.
LEMMA HostIpStep ==
    ASSUME IInv, NEW a \in Addrs, OptHostIp(a)
    PROVE  IInv'
  <1>1. /\ cfg \in CfgType /\ names \subseteq {"uri", "host_hdr"}
        /\ ipv4_dst \in Seq(Addrs) /\ Len(ipv4_dst) <= CFG_IPV4_ARRAY_MAX
        /\ Len(ipv4_dst) \in Nat /\ phase = "parse" /\ Option
        /\ why \in {"none", "too many addresses", "usage", "option not handled",
                     "incomplete", "no memory"}
    BY LenProperties DEF IInv, TypeOK, OptHostIp, Option
  <1>2. /\ Append(ipv4_dst, a) \in Seq(Addrs)
        /\ Len(Append(ipv4_dst, a)) = Len(ipv4_dst) + 1
    BY <1>1, AppendProperties
  <1>3. ipv4_dst' \in Seq(Addrs) /\ Len(ipv4_dst') <= CFG_IPV4_ARRAY_MAX
    <2>1. CASE ArrayFull
      BY <1>1, <2>1 DEF OptHostIp
    <2>2. CASE ~ArrayFull
      <3>1. ipv4_dst' = Append(ipv4_dst, a)
        BY <2>2 DEF OptHostIp
      <3>2. Len(ipv4_dst) + 1 <= CFG_IPV4_ARRAY_MAX
        <4>1. CFG_IPV4_ARRAY_MAX \in Nat
          BY ConfigAssumption
        <4> QED
          BY <1>1, <2>2, <4>1, Below DEF ArrayFull
      <3> QED
        BY <1>2, <3>1, <3>2
    <2> QED
      BY <2>1, <2>2
  <1>4. /\ thr' = thr /\ cfg' = cfg /\ names' = names
        /\ phase' \in {"parse", "exited"}
        /\ why' \in {"none", "too many addresses", "usage", "option not handled",
                     "incomplete", "no memory"}
    BY <1>1 DEF OptHostIp, Exit
  <1> QED
    BY <1>1, <1>3, <1>4, OptionStep

\* A copy for one of n threads: its shares, nothing opened yet.
LEMMA CopyFacts ==
    ASSUME TypeOK, NEW n \in Nat \ {0}, Len(ipv4_dst) \in Nat \ {0}
    PROVE  /\ CopyThread(n) \in ThreadType
           /\ \A f \in Limits : CopyThread(n).cfg[f] = Share(f, n)
           /\ WithinShares(CopyThread(n))
  <1> DEFINE g == [f \in Limits \cup Plain |->
                     IF f \in Limits THEN Share(f, n) ELSE cfg[f]]
  <1>1. CopyThread(n) = [cfg |-> g, cur |-> 0, nconn |-> 0, conn_count |-> 0]
    BY DEF CopyThread
  <1>2. cfg \in [Limits \cup Plain -> Int] /\ cfg \in CfgType
    BY DEF TypeOK, CfgType
  <1>3. g \in CfgType /\ \A f \in Limits : g[f] = Share(f, n)
    BY <1>2, ShareType DEF CfgType
  <1>4. 0 \in 0..(Len(ipv4_dst) - 1)
    OBVIOUS
  <1>5. WithinShares(CopyThread(n))
    <2>1. /\ CopyThread(n).nconn = 0 /\ CopyThread(n).conn_count = 0
          /\ CopyThread(n).cfg["target_total_nconn_count"] \in Int
      BY <1>1, <1>3 DEF CfgType, Limits
    <2> QED
      BY <2>1 DEF WithinShares
  <1> HIDE DEF g
  <1> QED
    BY <1>1, <1>3, <1>4, <1>5 DEF ThreadType

\* The options are complete, or the program exits.
LEMMA ParseStep ==
    ASSUME IInv, ParseDone
    PROVE  IInv'
  <1> DEFINE n == cfg["num_threads"]
  <1>1. /\ phase = "parse" /\ thr = <<>> /\ TypeOK /\ n \in Int
        /\ nopts' = nopts /\ cfg' = cfg /\ names' = names /\ ipv4_dst' = ipv4_dst
    BY DEF IInv, TypeOK, CfgType, Plain, ParseDone
  <1>2. CASE Complete /\ n >= 0
    <2>1. /\ phase' = "run" /\ why' = why /\ n \in Nat
          /\ thr' = [t \in 1..n |-> CopyThread(n)]
      <3>1. n \in Nat /\ ~(n < 0)
        BY <1>1, <1>2
      <3> QED
        BY <1>2, <3>1 DEF ParseDone
    <2>2. Len(ipv4_dst) \in Nat \ {0}
      BY <1>1, <1>2, EmptySeq DEF Complete, TypeOK
    <2>3. /\ DOMAIN thr' = 1..n /\ thr' = [t \in DOMAIN thr' |-> thr'[t]]
          /\ \A t \in 1..n : thr'[t] = CopyThread(n)
      BY <2>1
    <2>4. ASSUME NEW t \in 1..n
          PROVE  ThreadOK(t)'
      <3>1. n \in Nat \ {0}
        BY <2>1, <2>4
      <3>2. /\ CopyThread(n) \in ThreadType
            /\ \A f \in Limits : CopyThread(n).cfg[f] = Share(f, n)
            /\ WithinShares(CopyThread(n))
        BY <1>1, <2>2, <3>1, CopyFacts
      <3>3. ThreadType' = ThreadType /\ \A f : Share(f, n)' = Share(f, n)
        BY <1>1 DEF ThreadType, Share
      <3>4. thr'[t] = CopyThread(n)
        BY <2>3, <2>4
      <3> QED
        BY <1>1, <3>2, <3>3, <3>4 DEF ThreadOK
    <2>5. TypeOK'
      BY <1>1, <2>1, <2>3, <2>4 DEF TypeOK, ThreadOK, ThreadType
    <2> QED
      BY <1>1, <2>1, <2>2, <2>3, <2>4, <2>5 DEF IInv
  <1>3. CASE ~(Complete /\ n >= 0)
    <2>1. /\ phase' = "exited" /\ thr' = thr
          /\ why' \in {"incomplete", "no memory"}
      <3>1. ~Complete \/ (Complete /\ n < 0 /\ ~(n >= 0))
        BY <1>1, <1>3
      <3> QED
        BY <3>1 DEF ParseDone, Exit
    <2>2. DOMAIN thr' = {} /\ thr' = <<>>
      BY <1>1, <2>1, NoThread
    <2> QED
      BY <1>1, <2>1, <2>2 DEF IInv, TypeOK
  <1> QED
    BY <1>2, <1>3

\* The invariant of the configuration.
LEMMA ConfigInvariant == Spec => []IInv
  <1>1. Init => IInv
    <2> SUFFICES ASSUME Init PROVE IInv
      OBVIOUS
    <2>1. DOMAIN thr = {} /\ ipv4_dst \in Seq(Addrs) /\ Len(ipv4_dst) = 0
      BY NoThread, EmptySeq DEF Init
    <2> QED
      BY <2>1, DefaultsType, ConfigAssumption DEF Init, IInv, TypeOK
  <1>2. IInv /\ [Next]_vars => IInv'
    <2> SUFFICES ASSUME IInv, [Next]_vars PROVE IInv'
      OBVIOUS
    <2>1. /\ cfg \in CfgType /\ names \subseteq {"uri", "host_hdr"}
          /\ ipv4_dst \in Seq(Addrs) /\ Len(ipv4_dst) <= CFG_IPV4_ARRAY_MAX
          /\ why \in {"none", "too many addresses", "usage", "option not handled",
                      "incomplete", "no memory"}
      BY DEF IInv, TypeOK
    <2>2. ASSUME NEW f \in Limits \cup Plain, NEW v \in Values, OptInt(f, v)
          PROVE  IInv'
      <3>1. cfg' \in CfgType
        BY <2>1, <2>2, ConfigAssumption DEF OptInt, CfgType
      <3>2. /\ Option /\ thr' = thr /\ phase' = phase /\ phase = "parse"
            /\ why' = why /\ names' = names /\ ipv4_dst' = ipv4_dst
        BY <2>2 DEF OptInt, Option
      <3> QED
        BY <2>1, <3>1, <3>2, OptionStep
    <2>3. ASSUME NEW name \in {"uri", "host_hdr"}, OptName(name)
          PROVE  IInv'
      <3>1. /\ Option /\ thr' = thr /\ phase' = phase /\ phase = "parse"
            /\ why' = why /\ names' \subseteq {"uri", "host_hdr"}
            /\ cfg' = cfg /\ ipv4_dst' = ipv4_dst
        BY <2>1, <2>3 DEF OptName, Option
      <3> QED
        BY <2>1, <3>1, OptionStep
    <2>4. CASE OptUsage \/ OptGlobalRequestCount
      <3>1. /\ Option /\ thr' = thr /\ phase' = "exited"
            /\ why' \in {"usage", "option not handled"} /\ names' = names
            /\ cfg' = cfg /\ ipv4_dst' = ipv4_dst
        BY <2>4 DEF OptUsage, OptGlobalRequestCount, Exit
      <3> QED
        BY <2>1, <3>1, OptionStep
    <2>5. CASE UNCHANGED vars
      BY <2>5 DEF vars, IInv, TypeOK, ThreadOK, ThreadType, Share
    <2>6. CASE Done
      BY <2>5, <2>6 DEF Done
    <2> QED
      BY <2>2, <2>3, <2>4, <2>5, <2>6, HostIpStep, ParseStep, CreateStep,
         GoneStep DEF Next
  <1> QED
    BY <1>1, <1>2, PTL DEF Spec

------------------------------------------------------------------------------
(* The theorems                                                            *)

\* Types: in particular the address array is never overrun, neither by
\* cfg_ipv4_array_add nor by the index of cfg_ipv4_array_get_next.
THEOREM ArrayNotOverrun == Spec => []TypeOK
  <1>1. IInv => TypeOK
    BY DEF IInv
  <1> QED
    BY <1>1, ConfigInvariant, PTL

\* Threads that count at most m each count at most m times their number.
LEMMA TogetherBound ==
    ASSUME NEW n \in Nat, NEW m \in Nat, DOMAIN thr = 1..n, NEW f,
           \A t \in DOMAIN thr : thr[t][f] \in Nat /\ thr[t][f] <= m
    PROVE  /\ Cardinality(Together(f)) \in Nat
           /\ Cardinality(Together(f)) <= n * m
  <1>1. Together(f) \subseteq (1..n) \X (1..m)
    <2> SUFFICES ASSUME NEW p \in Together(f)
                 PROVE  p \in (1..n) \X (1..m)
      OBVIOUS
    <2>1. PICK t \in DOMAIN thr : p \in {t} \X (1..thr[t][f])
      BY DEF Together
    <2>2. 1..thr[t][f] \subseteq 1..m
      <3>1. thr[t][f] \in Nat /\ thr[t][f] <= m
        OBVIOUS
      <3> DEFINE c == thr[t][f]
      <3> HIDE DEF c
      <3>2. c \in Nat /\ c <= m => 1..c \subseteq 1..m
        OBVIOUS
      <3> QED
        BY <3>1, <3>2 DEF c
    <2> QED
      BY <2>1, <2>2
  <1>2. /\ IsFiniteSet(1..n) /\ Cardinality(1..n) = n
        /\ IsFiniteSet(1..m) /\ Cardinality(1..m) = m
    <2>1. \A j \in Nat : IsFiniteSet(1..j) /\ Cardinality(1..j) = j
      BY FS_Interval
    <2> QED
      BY <2>1
  <1>3. /\ IsFiniteSet((1..n) \X (1..m))
        /\ Cardinality((1..n) \X (1..m)) = n * m
    <2> DEFINE S == 1..n
               U == 1..m
    <2>1. IsFiniteSet(S) /\ IsFiniteSet(U)
      BY <1>2
    <2>2. Cardinality(S) = n /\ Cardinality(U) = m
      BY <1>2
    <2> HIDE DEF S, U
    <2>3. /\ IsFiniteSet(S \X U)
          /\ Cardinality(S \X U) = Cardinality(S) * Cardinality(U)
      BY <2>1, FS_Product
    <2>4. Cardinality(S \X U) = n * m
      BY <2>2, <2>3, Zenon
    <2> QED
      BY <2>3, <2>4 DEF S, U
  <1>4. IsFiniteSet(Together(f)) /\ Cardinality(Together(f)) <= n * m
    BY <1>1, <1>3, FS_Subset
  <1> QED
    BY <1>4, FS_CardinalityType

\* n shares of a limit are within it.
LEMMA ShareBound ==
    ASSUME cfg \in CfgType, NEW f \in Limits, NEW n \in Nat \ {0}, cfg[f] > 0
    PROVE  /\ Share(f, n) \in Nat /\ n * Share(f, n) <= cfg[f]
           /\ cfg[f] >= n => Share(f, n) > 0
  <1> DEFINE c == cfg[f]
             d == CDiv(c, n)
  <1>1. c \in Int /\ c > 0 /\ c >= 0 /\ Share(f, n) = d
    <2>1. c \in Int /\ c > 0
      BY DEF CfgType
    <2>2. Share(f, n) = d
      BY DEF Share
    <2> HIDE DEF c
    <2> QED
      BY <2>1, <2>2
  <1> HIDE DEF c
  <1>2. d \in Int /\ d >= 0 /\ n * d <= c /\ c < n * (d + 1)
    BY <1>1, CDivFacts
  <1> HIDE DEF d
  <1>3. c >= n => d > 0
    <2> SUFFICES ASSUME d = 0 PROVE c < n
      BY <1>1, <1>2
    <2> QED
      BY <1>1, <1>2
  <1> QED
    BY <1>1, <1>2, <1>3 DEF c

\* A share of a number that is no limit is none.
LEMMA ShareOfNone ==
    ASSUME cfg \in CfgType, NEW n \in Nat \ {0}, ~(cfg["target_nconn"] > 0)
    PROVE  ~(Share("target_nconn", n) > 0)
  <1> DEFINE c == cfg["target_nconn"]
  <1>1. c \in Int /\ ~(c > 0)
    BY DEF CfgType, Limits
  <1>2. Share("target_nconn", n) = CDiv(c, n)
    BY DEF Share
  <1> HIDE DEF c
  <1>3. c <= 0
    BY <1>1
  <1>4. CDiv(c, n) \in Int /\ CDiv(c, n) <= 0
    BY <1>1, <1>3, CDivFacts
  <1> QED
    BY <1>2, <1>4

\* Threads that keep to their truncated shares (mgr_config_copy_thread) keep,
\* together, to the number of connections open at a time, and to the total if
\* it is at least one per thread, for any number of them.
THEOREM ThreadsKeepLimits == Spec => []LimitsKeptTogether
  <1>1. IInv => LimitsKeptTogether
    <2> SUFFICES ASSUME IInv PROVE LimitsKeptTogether
      OBVIOUS
    <2> DEFINE n == cfg["num_threads"]
    <2>1. CASE DOMAIN thr = {}
      <3>1. \A f : Together(f) = {}
        BY <2>1 DEF Together
      <3> QED
        BY <3>1 DEF LimitsKeptTogether
    <2>2. CASE DOMAIN thr # {}
      <3>1. cfg \in CfgType /\ n \in Int
        BY DEF IInv, TypeOK, CfgType, Plain
      <3>2. DOMAIN thr = 1..n
        BY <2>2, NoThread DEF IInv
      <3>3. n \in Nat \ {0} /\ n \in Nat
        BY <2>2, <3>1, <3>2
      <3>4. ASSUME NEW t \in DOMAIN thr
            PROVE  /\ thr[t].nconn \in Nat /\ thr[t].conn_count \in Nat
                   /\ thr[t].nconn > 0 =>
                        thr[t].nconn <= Share("target_nconn", n)
                   /\ Share("target_total_nconn_count", n) > 0 =>
                        thr[t].conn_count <= Share("target_total_nconn_count", n)
        <4>1. thr[t] \in ThreadType /\ WithinShares(thr[t])
          BY DEF IInv, ThreadOK
        <4>2. \A f \in Limits : thr[t].cfg[f] = Share(f, n)
          BY DEF IInv, ThreadOK
        <4> QED
          BY <4>1, <4>2, ShareNumbers DEF WithinShares, Limits
      <3> HIDE DEF n
      <3>5. Together("nconn") # {} =>
              Cardinality(Together("nconn")) <= cfg["target_nconn"]
        <4> DEFINE m == Share("target_nconn", n)
        <4>1. "target_nconn" \in Limits
          BY DEF Limits
        <4>2. CASE cfg["target_nconn"] > 0
          <5>1. m \in Nat /\ n * m <= cfg["target_nconn"]
            BY <3>1, <3>3, <4>1, <4>2, ShareBound
          <5> HIDE DEF m
          <5>2. \A t \in DOMAIN thr : thr[t].nconn \in Nat /\ thr[t].nconn <= m
            <6> SUFFICES ASSUME NEW t \in DOMAIN thr
                         PROVE  thr[t].nconn \in Nat /\ thr[t].nconn <= m
              OBVIOUS
            <6>1. thr[t].nconn \in Nat /\ (thr[t].nconn > 0 => thr[t].nconn <= m)
              BY <3>4 DEF m
            <6> QED
              BY <5>1, <6>1
          <5>3. /\ Cardinality(Together("nconn")) \in Nat
                /\ Cardinality(Together("nconn")) <= n * m
            BY <3>2, <3>3, <5>1, <5>2, TogetherBound
          <5>4. n * m \in Int
            BY <3>3, <5>1
          <5>5. cfg["target_nconn"] \in Int
            BY <3>1, <4>1 DEF CfgType
          <5> QED
            BY <5>1, <5>3, <5>4, <5>5
        <4>3. CASE ~(cfg["target_nconn"] > 0)
          <5>1. m \in Int /\ ~(m > 0)
            BY <3>1, <3>3, <4>1, <4>3, ShareOfNone, ShareType
          <5> HIDE DEF m
          <5>2. \A t \in DOMAIN thr : thr[t].nconn = 0
            <6> SUFFICES ASSUME NEW t \in DOMAIN thr PROVE thr[t].nconn = 0
              OBVIOUS
            <6>1. thr[t].nconn \in Nat /\ (thr[t].nconn > 0 => thr[t].nconn <= m)
              BY <3>4 DEF m
            <6> QED
              BY <5>1, <6>1
          <5>3. Together("nconn") = {}
            BY <5>2 DEF Together
          <5> QED
            BY <5>3
        <4> QED
          BY <4>2, <4>3
      <3>6. Together("conn_count") # {} =>
              \/ cfg["target_total_nconn_count"] < n
              \/ Cardinality(Together("conn_count")) <= cfg["target_total_nconn_count"]
        <4> DEFINE f == "target_total_nconn_count"
                   m == Share(f, n)
        <4>1. f \in Limits /\ cfg[f] \in Int
          BY <3>1 DEF Limits, CfgType
        <4> HIDE DEF f
        <4>2. CASE cfg[f] >= n
          <5>0. cfg[f] > 0
            BY <3>3, <4>1, <4>2
          <5>1. m \in Nat /\ m > 0 /\ n * m <= cfg[f]
            BY <3>1, <3>3, <4>1, <4>2, <5>0, ShareBound
          <5>2. \A t \in DOMAIN thr : thr[t].conn_count \in Nat
                                      /\ thr[t].conn_count <= m
            BY <3>4, <5>1 DEF f
          <5> HIDE DEF m
          <5>3. /\ Cardinality(Together("conn_count")) \in Nat
                /\ Cardinality(Together("conn_count")) <= n * m
            BY <3>2, <3>3, <5>1, <5>2, TogetherBound
          <5>4. n * m \in Int
            BY <3>3, <5>1
          <5> QED
            BY <4>1, <5>1, <5>3, <5>4 DEF f
        <4> QED
          BY <3>3, <4>1, <4>2 DEF f
      <3> QED
        BY <3>5, <3>6 DEF LimitsKeptTogether, n
    <2> QED
      BY <2>1, <2>2
  <1> QED
    BY <1>1, ConfigInvariant, PTL
==============================================================================
