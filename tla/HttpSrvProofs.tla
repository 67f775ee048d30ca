---------------------------- MODULE HttpSrvProofs ----------------------------
(***************************************************************************)
(* The test server: its reference counts are exact, replies are whole and  *)
(* the write hook is valid, for every number of requests and every size of *)
(* reply and buffer.                                                       *)
(*                                                                         *)
(* The state is one record and each C function an operator on it, so the   *)
(* invariant is one too: Base(s) is what every function keeps, also in the *)
(* middle of a callback; Between(s) is what callbacks leave behind.        *)
(***************************************************************************)
EXTENDS HttpSrv, TLAPS

\* What the request's hooks add to a reference count.
Hooked(s, r) == IF s.hooks = r THEN 1 ELSE 0

\* A struct req is typed, exactly counted, reset when it is free, and has no
\* size before it has a type.
ReqOK(s, r) ==
    /\ s.req[r] \in ReqType
    /\ s.req[r].ofs <= s.req[r].size
    /\ s.req[r].refcnt = s.refs[r] + Hooked(s, r)
    /\ s.req[r].refcnt = 0 => s.req[r] = FreeReq
    /\ s.req[r].type = "NONE" => s.req[r].size = 0

\* What every function keeps.  Hooks refer to a struct req that still refers
\* to its request, and nothing undefined happens unless a buffer's malloc failed.
Base(s) ==
    /\ s \in SrvType
    /\ \A r \in Reqs : ReqOK(s, r)
    /\ s.hooks # NoReq => s.req[s.hooks].req
    /\ s.undefined => s.buf_failed

\* The reply of the present request is being written or ended, or
\* there is none.
ReplyOK(s) ==
    CASE s.request = "replying" ->
           /\ s.hooks # NoReq /\ s.on_write = s.hooks /\ s.output
           /\ s.req[s.hooks].ofs < s.req[s.hooks].size
      [] s.request = "finished" ->
           s.hooks # NoReq => s.req[s.hooks].ofs = s.req[s.hooks].size
      [] OTHER -> s.hooks = NoReq

\* The write hook that is left when nothing is being written: none, or that of
\* a struct req without a type, which takes a failed malloc.
HookOK(s) ==
    s.request # "replying" /\ s.on_write # NoReq =>
        s.buf_failed /\ s.req[s.on_write].type = "NONE"

\* What callbacks leave behind.
Between(s) ==
    /\ Base(s)
    /\ ReplyOK(s)
    /\ HookOK(s)
    /\ s.conn = "closed" => s.hooks = NoReq /\ \A r \in Reqs : s.refs[r] = 0

IInv == Between(srv)

------------------------------------------------------------------------------
(* Dropping references                                                     *)

\* What is left alone by dropping references: a struct req without a type gets
\* none, and the one the hooks still refer to keeps its reply.
Released(s, t) ==
    /\ Base(t)
    /\ t.conn = s.conn /\ t.on_write = s.on_write /\ t.nreq = s.nreq
    /\ t.buf_failed = s.buf_failed /\ t.undefined = s.undefined
    /\ t.keepalive = s.keepalive
    /\ t.hooks \in {s.hooks, NoReq}
    /\ \A r \in Reqs : s.req[r].type = "NONE" => t.req[r].type = "NONE"
    /\ t.hooks # NoReq =>
         /\ t.req[t.hooks].type = s.req[t.hooks].type
         /\ t.req[t.hooks].ofs = s.req[t.hooks].ofs
         /\ t.req[t.hooks].size = s.req[t.hooks].size

\* A free struct req is a struct req.
LEMMA FreeReqType ==
    /\ FreeReq \in ReqType /\ FreeReq.refcnt = 0 /\ FreeReq.type = "NONE"
    /\ FreeReq.ofs = 0 /\ FreeReq.size = 0 /\ ~FreeReq.req
  BY DEF FreeReq, ReqType

\* Nothing but struct reqs differs.
SameButReqs(s, t) ==
    /\ t.conn = s.conn /\ t.request = s.request /\ t.keepalive = s.keepalive
    /\ t.hooks = s.hooks /\ t.on_write = s.on_write /\ t.output = s.output
    /\ t.refs = s.refs /\ t.nreq = s.nreq
    /\ t.buf_failed = s.buf_failed /\ t.undefined = s.undefined

\* A struct req with one reference less.
Dropped(q) == IF q.refcnt > 1 THEN [q EXCEPT !.refcnt = @ - 1] ELSE FreeReq

\* Dropping a reference keeps the reply, or frees the struct req.
LEMMA DroppedFacts ==
    ASSUME NEW q \in ReqType, q.refcnt > 0
    PROVE  /\ Dropped(q) \in ReqType
           /\ Dropped(q).refcnt = q.refcnt - 1
           /\ Dropped(q).refcnt = 0 => Dropped(q) = FreeReq
           /\ Dropped(q).refcnt > 0 =>
                /\ Dropped(q).type = q.type /\ Dropped(q).req = q.req
                /\ Dropped(q).ofs = q.ofs /\ Dropped(q).size = q.size
  <1>1. q.refcnt \in Nat
    BY DEF ReqType
  <1>2. CASE q.refcnt > 1
    <2>1. Dropped(q) = [q EXCEPT !.refcnt = @ - 1]
      BY <1>2 DEF Dropped
    <2> QED
      BY <1>1, <1>2, <2>1 DEF ReqType
  <1>3. CASE q.refcnt = 1
    BY <1>3, FreeReqType DEF Dropped
  <1> QED
    BY <1>1, <1>2, <1>3

\* req_free on a struct req that is not free.
LEMMA ReqFreeFacts ==
    ASSUME NEW s \in SrvType, NEW r \in Reqs, s.req[r].refcnt > 0
    PROVE  /\ ReqFree(s, r) \in SrvType
           /\ SameButReqs(s, ReqFree(s, r))
           /\ ReqFree(s, r).req = [s.req EXCEPT ![r] = Dropped(s.req[r])]
  <1> DEFINE q == s.req[r]
             t == ReqFree(s, r)
             v == Dropped(q)
  <1>1. q \in ReqType /\ q.refcnt \in Nat /\ s.req \in [Reqs -> ReqType]
    BY DEF SrvType, ReqType
  <1>2. t = [s EXCEPT !.req = [s.req EXCEPT ![r] = v]]
    <2>1. CASE q.refcnt > 1
      <3>1. t = [s EXCEPT !.req[r].refcnt = @ - 1]
        BY <1>1, <2>1 DEF ReqFree
      <3>2. v = [q EXCEPT !.refcnt = @ - 1]
        BY <2>1 DEF Dropped
      <3> QED
        BY <3>1, <3>2 DEF SrvType
    <2>2. CASE q.refcnt = 1
      <3>1. t = [s EXCEPT !.req[r] = FreeReq]
        BY <1>1, <2>2 DEF ReqFree
      <3>2. v = FreeReq
        BY <2>2 DEF Dropped
      <3> QED
        BY <3>1, <3>2 DEF SrvType
    <2> QED
      BY <1>1, <2>1, <2>2
  <1>3. v \in ReqType
    BY <1>1, DroppedFacts
  <1> HIDE DEF v, t
  <1>4. [s.req EXCEPT ![r] = v] \in [Reqs -> ReqType]
    BY <1>1, <1>3
  <1> QED
    BY <1>2, <1>4 DEF SrvType, SameButReqs, t, v

\* send_upstream_error drops the request's reference and unsets the hooks.
LEMMA ErrorFacts ==
    ASSUME NEW s, Base(s), s.hooks # NoReq
    PROVE  /\ Released(s, UpstreamError(s))
           /\ UpstreamError(s).hooks = NoReq
           /\ UpstreamError(s).request = s.request
           /\ UpstreamError(s).output = s.output
           /\ UpstreamError(s).refs = s.refs
  <1> DEFINE h == s.hooks
             q == s.req[h]
             p == [q EXCEPT !.req = FALSE]
             u == [s EXCEPT !.hooks = NoReq, !.req[h].req = FALSE]
             t == UpstreamError(s)
             v == Dropped(p)
  <1>1. /\ s \in SrvType /\ h \in Reqs /\ q \in ReqType /\ q.refcnt \in Nat
        /\ q.refcnt = s.refs[h] + 1 /\ s.refs[h] \in Nat
        /\ s.req \in [Reqs -> ReqType]
        /\ q.ofs <= q.size /\ (q.type = "NONE" => q.size = 0)
    BY DEF Base, ReqOK, Hooked, SrvType, ReqType
  <1>2. /\ p \in ReqType /\ p.refcnt = q.refcnt /\ p.type = q.type
        /\ p.ofs = q.ofs /\ p.size = q.size
    BY <1>1 DEF ReqType
  <1>3. u = [s EXCEPT !.hooks = NoReq, !.req = [s.req EXCEPT ![h] = p]]
    BY <1>1 DEF SrvType
  <1> HIDE DEF p, u
  <1>4. /\ u \in SrvType
        /\ u.hooks = NoReq /\ u.req = [s.req EXCEPT ![h] = p]
        /\ u.conn = s.conn /\ u.request = s.request /\ u.keepalive = s.keepalive
        /\ u.on_write = s.on_write /\ u.output = s.output /\ u.refs = s.refs
        /\ u.nreq = s.nreq /\ u.buf_failed = s.buf_failed
        /\ u.undefined = s.undefined
    <2>1. [s.req EXCEPT ![h] = p] \in [Reqs -> ReqType]
      BY <1>1, <1>2
    <2> QED
      BY <1>1, <1>3, <2>1 DEF SrvType
  <1>5. u.req[h] = p /\ p.refcnt > 0
    BY <1>1, <1>2, <1>4
  <1>6. /\ v \in ReqType /\ v.refcnt = s.refs[h]
        /\ v.refcnt = 0 => v = FreeReq
        /\ v.ofs <= v.size
        /\ v.type = "NONE" => v.size = 0
        /\ q.type = "NONE" => v.type = "NONE"
    <2>1. /\ v \in ReqType /\ v.refcnt = p.refcnt - 1
          /\ v.refcnt = 0 => v = FreeReq
          /\ v.refcnt > 0 =>
               v.type = p.type /\ v.ofs = p.ofs /\ v.size = p.size
      BY <1>2, <1>5, DroppedFacts
    <2>2. v.refcnt = s.refs[h]
      BY <1>1, <1>2, <2>1
    <2>3. CASE v.refcnt = 0
      <3>1. v = FreeReq
        BY <2>1, <2>3
      <3>2. v.ofs = 0 /\ v.size = 0 /\ v.type = "NONE"
        BY <3>1, FreeReqType
      <3> HIDE DEF v
      <3> QED
        BY <2>1, <2>2, <3>1, <3>2
    <2>4. CASE v.refcnt > 0
      BY <1>1, <1>2, <2>1, <2>2, <2>4
    <2> HIDE DEF v, q, h
    <2> QED
      BY <1>1, <2>2, <2>3, <2>4
  <1> HIDE DEF v
  <1>7. /\ t \in SrvType /\ SameButReqs(u, t)
        /\ t.req = [u.req EXCEPT ![h] = v]
    <2>1. t = ReqFree(u, h)
      BY DEF UpstreamError, u
    <2>2. u.req[h].refcnt > 0 /\ v = Dropped(u.req[h])
      BY <1>5 DEF v
    <2> HIDE DEF t
    <2> QED
      BY <1>1, <1>4, <2>1, <2>2, ReqFreeFacts
  <1>8. t.req[h] = v /\ \A r \in Reqs \ {h} : t.req[r] = s.req[r]
    BY <1>1, <1>4, <1>7
  <1> HIDE DEF t
  <1>9. \A r \in Reqs : ReqOK(t, r)
    <2> SUFFICES ASSUME NEW r \in Reqs PROVE ReqOK(t, r)
      OBVIOUS
    <2>0. ReqOK(s, r) /\ s.refs[r] \in Nat /\ t.refs = s.refs /\ Hooked(t, r) = 0
      BY <1>1, <1>4, <1>7, NoReqAssumption DEF Base, SameButReqs, Hooked, SrvType
    <2>1. CASE r = h
      BY <1>6, <1>8, <2>0, <2>1 DEF ReqOK
    <2>2. CASE r # h
      BY <1>8, <2>0, <2>2 DEF ReqOK, Hooked
    <2> QED
      BY <2>1, <2>2
  <1>10. \A r \in Reqs : s.req[r].type = "NONE" => t.req[r].type = "NONE"
    BY <1>1, <1>6, <1>8 DEF q
  <1> QED
    BY <1>4, <1>7, <1>9, <1>10 DEF Released, Base, SameButReqs, t

\* Base depends on the struct reqs, what refers to them and whether something
\* undefined happened.
LEMMA BaseSame ==
    ASSUME NEW s, NEW t \in SrvType, Base(s), t.req = s.req, t.refs = s.refs,
           t.hooks = s.hooks, t.undefined = s.undefined,
           t.buf_failed = s.buf_failed
    PROVE  Base(t)
  BY DEF Base, ReqOK, Hooked

\* _evhtp_request_free leaves no hooks.
LEMMA RequestFreeFacts ==
    ASSUME NEW s, Base(s)
    PROVE  /\ Released(s, RequestFree(s))
           /\ RequestFree(s).hooks = NoReq
           /\ RequestFree(s).request = "none"
           /\ RequestFree(s).output = s.output
           /\ RequestFree(s).refs = s.refs
  <1> DEFINE u == IF s.hooks = NoReq THEN s ELSE UpstreamFini(s)
             t == [u EXCEPT !.request = "none"]
  <1>1. /\ Released(s, u) /\ u.hooks = NoReq /\ u.output = s.output
        /\ u.refs = s.refs
    <2>1. CASE s.hooks = NoReq
      BY <2>1 DEF Released
    <2>2. CASE s.hooks # NoReq
      <3>1. s.req[s.hooks].req
        BY <2>2 DEF Base
      <3>2. u = UpstreamError(s)
        BY <2>2, <3>1 DEF UpstreamFini
      <3> HIDE DEF u
      <3> QED
        BY <2>2, <3>2, ErrorFacts
    <2> QED
      BY <2>1, <2>2
  <1> HIDE DEF u
  <1>2. u \in SrvType /\ Base(u)
    BY <1>1 DEF Released, Base
  <1>3. t \in SrvType /\ t.request = "none" /\ t.req = u.req
          /\ t.conn = u.conn /\ t.keepalive = u.keepalive
          /\ t.hooks = u.hooks /\ t.on_write = u.on_write /\ t.output = u.output
          /\ t.refs = u.refs /\ t.nreq = u.nreq
          /\ t.buf_failed = u.buf_failed /\ t.undefined = u.undefined
    BY <1>2 DEF SrvType
  <1>4. t = RequestFree(s)
    BY DEF RequestFree, u
  <1> HIDE DEF t
  <1>5. Base(t)
    BY <1>2, <1>3, BaseSame
  <1>6. Released(s, t)
    BY <1>1, <1>3, <1>5 DEF Released
  <1> QED
    BY <1>1, <1>3, <1>4, <1>6

\* Emptying the output drops what it refers to and nothing else.
LEMMA OutputGoneFacts ==
    ASSUME NEW s, Base(s)
    PROVE  /\ Released(s, OutputGone(s))
           /\ OutputGone(s).hooks = s.hooks
           /\ OutputGone(s).request = s.request
           /\ OutputGone(s).output = FALSE
           /\ \A r \in Reqs : OutputGone(s).refs[r] = 0
  <1> DEFINE X(r) == CASE s.refs[r] = 0 -> s.req[r]
                       [] s.refs[r] > 0 /\ s.req[r].refcnt > s.refs[r] ->
                            [s.req[r] EXCEPT !.refcnt = @ - s.refs[r]]
                       [] OTHER -> FreeReq
             F == [r \in Reqs |-> X(r)]
             Z == [r \in Reqs |-> 0]
             t == OutputGone(s)
  <1>1. s \in SrvType
    BY DEF Base
  <1>2. \A r \in Reqs :
          /\ s.req[r] \in ReqType /\ s.req[r].refcnt \in Nat /\ s.refs[r] \in Nat
          /\ s.req[r].refcnt = s.refs[r] + Hooked(s, r)
          /\ Hooked(s, r) \in {0, 1}
          /\ s.req[r].ofs <= s.req[r].size
          /\ s.req[r].type = "NONE" => s.req[r].size = 0
          /\ s.req[r].refcnt = 0 => s.req[r] = FreeReq
    BY <1>1 DEF Base, ReqOK, Hooked, SrvType, ReqType
  <1>3. ASSUME NEW r \in Reqs
        PROVE  /\ X(r) \in ReqType /\ X(r).refcnt = Hooked(s, r)
               /\ X(r).ofs <= X(r).size
               /\ X(r).refcnt = 0 => X(r) = FreeReq
               /\ X(r).type = "NONE" => X(r).size = 0
               /\ s.req[r].type = "NONE" => X(r).type = "NONE"
               /\ Hooked(s, r) = 1 =>
                    /\ X(r).type = s.req[r].type /\ X(r).req = s.req[r].req
                    /\ X(r).ofs = s.req[r].ofs /\ X(r).size = s.req[r].size
    <2>1. CASE s.refs[r] = 0
      <3>1. X(r) = s.req[r] /\ s.req[r].refcnt = Hooked(s, r)
        BY <1>2, <2>1
      <3> HIDE DEF X
      <3> QED
        BY <1>2, <3>1
    <2>2. CASE s.refs[r] > 0 /\ Hooked(s, r) = 1
      <3> DEFINE w == [s.req[r] EXCEPT !.refcnt = @ - s.refs[r]]
      <3>1. X(r) = w
        BY <1>2, <2>2
      <3>2. /\ w \in ReqType /\ w.refcnt = 1 /\ w.ofs = s.req[r].ofs
            /\ w.size = s.req[r].size /\ w.type = s.req[r].type
            /\ w.req = s.req[r].req
        BY <1>2, <2>2 DEF ReqType
      <3> HIDE DEF X, w
      <3> QED
        BY <1>2, <2>2, <3>1, <3>2
    <2>3. CASE s.refs[r] > 0 /\ Hooked(s, r) = 0
      <3>1. X(r) = FreeReq
        BY <1>2, <2>3
      <3>2. /\ X(r) \in ReqType /\ X(r).refcnt = 0 /\ X(r).type = "NONE"
            /\ X(r).ofs = 0 /\ X(r).size = 0
        BY <3>1, FreeReqType
      <3> HIDE DEF X
      <3> QED
        BY <2>3, <3>1, <3>2
    <2>4. \/ s.refs[r] = 0
          \/ s.refs[r] > 0 /\ Hooked(s, r) = 1
          \/ s.refs[r] > 0 /\ Hooked(s, r) = 0
      BY <1>2
    <2> HIDE DEF X
    <2> QED
      BY <2>1, <2>2, <2>3, <2>4
  <1> HIDE DEF X
  <1>4. t = [s EXCEPT !.output = FALSE, !.refs = Z, !.req = F,
                      !.undefined = @ \/ \E r \in Reqs : s.refs[r] > s.req[r].refcnt]
    BY DEF OutputGone, X
  <1>5. ~\E r \in Reqs : s.refs[r] > s.req[r].refcnt
    BY <1>2
  <1>6. F \in [Reqs -> ReqType] /\ Z \in [Reqs -> Nat]
    BY <1>3
  <1> HIDE DEF F, Z
  <1>7. /\ t \in SrvType
        /\ t.output = FALSE /\ t.refs = Z /\ t.req = F
        /\ t.conn = s.conn /\ t.request = s.request /\ t.keepalive = s.keepalive
        /\ t.hooks = s.hooks /\ t.on_write = s.on_write /\ t.nreq = s.nreq
        /\ t.buf_failed = s.buf_failed /\ t.undefined = s.undefined
    BY <1>1, <1>4, <1>5, <1>6 DEF SrvType
  <1> HIDE DEF t
  <1>8. \A r \in Reqs : t.refs[r] = 0 /\ t.req[r] = X(r)
    BY <1>7 DEF F, Z
  <1>9. \A r \in Reqs : ReqOK(t, r)
    <2> SUFFICES ASSUME NEW r \in Reqs PROVE ReqOK(t, r)
      OBVIOUS
    <2>1. Hooked(t, r) = Hooked(s, r) /\ 0 + Hooked(s, r) = Hooked(s, r)
      BY <1>7 DEF Hooked
    <2> QED
      BY <1>3, <1>8, <2>1 DEF ReqOK
  <1>10. t.hooks # NoReq =>
           /\ t.hooks \in Reqs /\ Hooked(s, t.hooks) = 1 /\ t.hooks = s.hooks
           /\ s.req[t.hooks].req
    BY <1>1, <1>7 DEF SrvType, Hooked, Base
  <1>11. Base(t)
    BY <1>3, <1>7, <1>8, <1>9, <1>10 DEF Base
  <1>12. Released(s, t)
    BY <1>3, <1>7, <1>8, <1>10, <1>11 DEF Released
  <1> QED
    BY <1>7, <1>8, <1>12 DEF t

\* evhtp_connection_free leaves nothing behind, whatever the callback it was
\* called from had done by then.
LEMMA ConnectionFreeFacts ==
    ASSUME NEW s, Base(s)
    PROVE  Between(ConnectionFree(s))
  <1> DEFINE u == RequestFree(s)
             v == OutputGone(u)
             t == [v EXCEPT !.conn = "closed", !.on_write = NoReq]
  <1>1. Base(u) /\ u.hooks = NoReq /\ u.request = "none"
    BY RequestFreeFacts DEF Released
  <1> HIDE DEF u
  <1>2. /\ Base(v) /\ v.hooks = NoReq /\ v.request = "none"
        /\ \A r \in Reqs : v.refs[r] = 0
    BY <1>1, OutputGoneFacts DEF Released
  <1> HIDE DEF v
  <1>3. /\ t \in SrvType /\ t.on_write = NoReq /\ t.hooks = v.hooks
        /\ t.request = v.request /\ t.refs = v.refs /\ t.req = v.req
        /\ t.undefined = v.undefined /\ t.buf_failed = v.buf_failed
    BY <1>2 DEF SrvType, Base
  <1>4. t = ConnectionFree(s)
    BY DEF ConnectionFree, u, v
  <1> HIDE DEF t
  <1>5. Base(t)
    BY <1>2, <1>3, BaseSame
  <1>6. t.request = "none" /\ t.hooks = NoReq /\ \A r \in Reqs : t.refs[r] = 0
    BY <1>2, <1>3
  <1> QED
    BY <1>3, <1>4, <1>5, <1>6 DEF Between, ReplyOK, HookOK

\* The callbacks' promise survives dropping references, as long as the reply
\* does.
LEMMA ReleasedBetween ==
    ASSUME NEW s, NEW t, Between(s), Released(s, t), t.hooks = s.hooks,
           t.request = s.request, s.conn = "open",
           s.request = "replying" => t.output = s.output
    PROVE  Between(t)
  <1>1. s \in SrvType
    BY DEF Between, Base
  <1>2. t.on_write = s.on_write /\ t.buf_failed = s.buf_failed /\ t.conn = s.conn
        /\ Base(t)
    BY DEF Released
  <1>3. ReplyOK(t)
    BY <1>2 DEF Between, ReplyOK, Released
  <1>4. HookOK(t)
    BY <1>1, <1>2 DEF Between, HookOK, Released, SrvType
  <1> QED
    BY <1>2, <1>3, <1>4 DEF Between

\* A piece of struct req r's buffer leaves the output.
LEMMA DrainSomeStep ==
    ASSUME Between(srv), NEW r \in Reqs, DrainSome(r)
    PROVE  Between(srv')
  <1> DEFINE s == srv
             u == [s EXCEPT !.refs[r] = @ - 1]
             q == s.req[r]
             v == Dropped(q)
             t == ReqFree(u, r)
  <1>1. /\ s \in SrvType /\ Base(s) /\ s.conn = "open"
        /\ ReqOK(s, r) /\ q \in ReqType
        /\ s.refs[r] > 0 /\ s.refs[r] \in Nat /\ s.refs \in [Reqs -> Nat]
        /\ q.refcnt \in Nat /\ s.req \in [Reqs -> ReqType]
    BY DEF Between, Base, ReqOK, DrainSome, Alive, SrvType, ReqType
  <1>2. srv' = t
    BY DEF DrainSome
  <1>3. u = [s EXCEPT !.refs = [s.refs EXCEPT ![r] = @ - 1]]
    BY <1>1 DEF SrvType
  <1> HIDE DEF u, s
  <1>4. /\ u \in SrvType /\ u.refs = [s.refs EXCEPT ![r] = @ - 1]
        /\ u.req = s.req /\ u.conn = s.conn /\ u.request = s.request
        /\ u.keepalive = s.keepalive /\ u.hooks = s.hooks
        /\ u.on_write = s.on_write /\ u.output = s.output /\ u.nreq = s.nreq
        /\ u.buf_failed = s.buf_failed /\ u.undefined = s.undefined
    <2>1. [s.refs EXCEPT ![r] = @ - 1] \in [Reqs -> Nat]
      BY <1>1
    <2> QED
      BY <1>1, <1>3, <2>1 DEF SrvType
  <1>5. q.refcnt > 0 /\ q.refcnt = s.refs[r] + Hooked(s, r) /\ Hooked(s, r) \in {0, 1}
    BY <1>1 DEF ReqOK, Hooked
  <1>6. /\ t \in SrvType /\ SameButReqs(u, t) /\ t.req = [u.req EXCEPT ![r] = v]
    BY <1>4, <1>5, ReqFreeFacts
  <1>7. /\ v \in ReqType /\ v.refcnt = q.refcnt - 1
        /\ v.refcnt = 0 => v = FreeReq
        /\ v.refcnt > 0 =>
             /\ v.type = q.type /\ v.req = q.req
             /\ v.ofs = q.ofs /\ v.size = q.size
    BY <1>1, <1>5, DroppedFacts
  <1> HIDE DEF t, v, q
  <1>8. /\ t.req[r] = v /\ t.refs[r] = s.refs[r] - 1
        /\ \A x \in Reqs \ {r} : t.req[x] = s.req[x] /\ t.refs[x] = s.refs[x]
    BY <1>1, <1>4, <1>6 DEF SameButReqs
  <1>9. /\ v.ofs <= v.size /\ (v.type = "NONE" => v.size = 0)
        /\ q.type = "NONE" => v.type = "NONE"
    <2>1. CASE v.refcnt = 0
      <3>1. v = FreeReq
        BY <1>7, <2>1
      <3>2. v.ofs = 0 /\ v.size = 0 /\ v.type = "NONE"
        BY <3>1, FreeReqType
      <3> QED
        BY <3>2
    <2>2. CASE v.refcnt > 0
      BY <1>1, <1>7, <2>2 DEF ReqOK, q
    <2> QED
      BY <1>5, <1>7, <2>1, <2>2, <1>1
  <1>10. \A x \in Reqs : ReqOK(t, x)
    <2> SUFFICES ASSUME NEW x \in Reqs PROVE ReqOK(t, x)
      OBVIOUS
    <2>1. Hooked(t, x) = Hooked(s, x) /\ ReqOK(s, x)
      BY <1>1, <1>4, <1>6 DEF Hooked, SameButReqs, Base
    <2>2. CASE x = r
      <3>1. v.refcnt = t.refs[x] + Hooked(t, x)
        BY <1>1, <1>5, <1>7, <1>8, <2>1, <2>2
      <3> QED
        BY <1>7, <1>8, <1>9, <2>2, <3>1 DEF ReqOK
    <2>3. CASE x # r
      BY <1>8, <2>1, <2>3 DEF ReqOK
    <2> QED
      BY <2>2, <2>3
  <1>11. t.hooks # NoReq =>
           /\ t.req[t.hooks].type = s.req[t.hooks].type
           /\ t.req[t.hooks].ofs = s.req[t.hooks].ofs
           /\ t.req[t.hooks].size = s.req[t.hooks].size
           /\ t.req[t.hooks].req = s.req[t.hooks].req
    <2> SUFFICES ASSUME s.hooks # NoReq, t.hooks = s.hooks, s.hooks \in Reqs
                 PROVE  /\ t.req[t.hooks].type = s.req[t.hooks].type
                        /\ t.req[t.hooks].ofs = s.req[t.hooks].ofs
                        /\ t.req[t.hooks].size = s.req[t.hooks].size
                        /\ t.req[t.hooks].req = s.req[t.hooks].req
      BY <1>1, <1>4, <1>6 DEF SameButReqs, SrvType
    <2>1. CASE s.hooks = r
      <3>1. v.refcnt > 0
        BY <1>1, <1>5, <1>7, <2>1 DEF Hooked
      <3> QED
        BY <1>7, <1>8, <2>1, <3>1 DEF q
    <2>2. CASE s.hooks # r
      BY <1>8, <2>2
    <2> QED
      BY <2>1, <2>2
  <1>12. \A x \in Reqs : s.req[x].type = "NONE" => t.req[x].type = "NONE"
    BY <1>8, <1>9 DEF q
  <1>13. Base(t)
    BY <1>1, <1>4, <1>6, <1>10, <1>11 DEF Base, SameButReqs
  <1>14. Released(s, t)
    BY <1>4, <1>6, <1>11, <1>12, <1>13 DEF Released, SameButReqs
  <1>15. Between(t)
    BY <1>1, <1>4, <1>6, <1>14, ReleasedBetween DEF SameButReqs, s
  <1> QED
    BY <1>2, <1>15

------------------------------------------------------------------------------
(* Writing a reply                                                         *)

\* A reply of struct req r is being written.
Replying(s, r) ==
    /\ Base(s)
    /\ r \in Reqs /\ s.hooks = r /\ s.on_write = r
    /\ s.request = "replying" /\ s.conn = "open"

\* Where a reply ends: when all of it was written.
LEMMA EndFacts ==
    ASSUME NEW s, NEW r, Replying(s, r),
           s.output \/ s.req[r].ofs >= s.req[r].size,
           NEW t, t = IF s.req[r].ofs >= s.req[r].size THEN EndReply(s) ELSE s
    PROVE  Between(t) /\ t.output
  <1>1. /\ s \in SrvType /\ r \in Reqs /\ r # NoReq /\ Base(s)
        /\ s.hooks = r /\ s.on_write = r /\ s.request = "replying"
        /\ s.conn = "open"
        /\ s.req[r].ofs \in Nat /\ s.req[r].size \in Nat
        /\ s.req[r].ofs <= s.req[r].size
    BY NoReqAssumption DEF Replying, Base, ReqOK, ReqType
  <1>2. CASE s.req[r].ofs >= s.req[r].size
    <2>1. t = EndReply(s)
      BY <1>2
    <2>2. /\ t \in SrvType /\ t.conn = s.conn /\ t.request = "finished"
          /\ t.on_write = NoReq /\ t.output = TRUE /\ t.hooks = s.hooks
          /\ t.req = s.req /\ t.refs = s.refs
          /\ t.buf_failed = s.buf_failed /\ t.undefined = s.undefined
      BY <1>1, <2>1 DEF EndReply, SendReply, SrvType
    <2>3. Base(t)
      BY <1>1, <2>2, BaseSame
    <2>4. t.req[r].ofs = t.req[r].size
      BY <1>1, <1>2, <2>2
    <2> QED
      BY <1>1, <2>2, <2>3, <2>4 DEF Between, ReplyOK, HookOK
  <1>3. CASE ~(s.req[r].ofs >= s.req[r].size)
    <2>1. t = s /\ s.output /\ s.req[r].ofs < s.req[r].size
      BY <1>1, <1>3
    <2> QED
      BY <1>1, <2>1 DEF Between, ReplyOK, HookOK
  <1> QED
    BY <1>2, <1>3

\* One more piece, its reference counted on both sides.
LEMMA PieceFacts ==
    ASSUME NEW s, NEW r, Replying(s, r), NEW t \in SrvType,
           t.conn = s.conn, t.request = s.request,
           t.hooks = s.hooks, t.on_write = s.on_write,
           t.buf_failed = s.buf_failed, t.undefined = s.undefined,
           t.req[r].refcnt = t.refs[r] + 1, t.req[r].ofs <= t.req[r].size,
           t.req[r].size = s.req[r].size, t.req[r].type = s.req[r].type,
           t.req[r].req = s.req[r].req,
           \A x \in Reqs \ {r} : t.refs[x] = s.refs[x] /\ t.req[x] = s.req[x]
    PROVE  Replying(t, r)
  <1>1. /\ s \in SrvType /\ r \in Reqs /\ r # NoReq /\ Base(s)
        /\ s.hooks = r /\ s.on_write = r /\ s.request = "replying"
        /\ s.conn = "open" /\ ReqOK(s, r)
        /\ t.refs[r] \in Nat /\ t.req[r] \in ReqType
    BY NoReqAssumption DEF Replying, Base, SrvType
  <1>2. s.req[r].req
    BY <1>1 DEF Base
  <1>3. \A x : Hooked(t, x) = Hooked(s, x)
    BY DEF Hooked
  <1>4. ReqOK(t, r)
    <2>1. Hooked(t, r) = 1 /\ t.req[r].refcnt # 0
      BY <1>1 DEF Hooked
    <2> QED
      BY <1>1, <2>1 DEF ReqOK
  <1>5. ASSUME NEW x \in Reqs, x # r
        PROVE  ReqOK(t, x)
    <2>1. ReqOK(s, x) /\ t.refs[x] = s.refs[x] /\ t.req[x] = s.req[x]
      BY <1>1, <1>5 DEF Base
    <2> QED
      BY <1>3, <2>1 DEF ReqOK
  <1>6. t.req[t.hooks].req
    BY <1>1, <1>2
  <1>7. Base(t)
    BY <1>1, <1>4, <1>5, <1>6 DEF Base
  <1> QED
    BY <1>1, <1>7 DEF Replying

\* req_write_line.
LEMMA WriteLineFacts ==
    ASSUME NEW s, NEW r, Replying(s, r), s.req[r].ofs < s.req[r].size
    PROVE  Between(WriteLine(s, r)) /\ WriteLine(s, r).output
  <1> DEFINE p == s.req[r]
             q == [p EXCEPT !.ofs = @ + 1]
             t == [s EXCEPT !.output = TRUE, !.req[r].ofs = @ + 1]
  <1>1. /\ s \in SrvType /\ r \in Reqs /\ p \in ReqType
        /\ p.ofs \in Nat /\ p.size \in Nat /\ s.req \in [Reqs -> ReqType]
        /\ p.refcnt = s.refs[r] + 1
    BY DEF Replying, Base, ReqOK, ReqType, SrvType, Hooked
  <1>2. /\ q \in ReqType /\ q.refcnt = p.refcnt
        /\ q.size = p.size /\ q.type = p.type /\ q.req = p.req
        /\ q.ofs <= q.size
    BY <1>1 DEF ReqType
  <1>3. t = [s EXCEPT !.output = TRUE, !.req = [s.req EXCEPT ![r] = q]]
    BY <1>1 DEF SrvType
  <1> HIDE DEF q, t
  <1>4. /\ t \in SrvType /\ t.conn = s.conn /\ t.request = s.request
        /\ t.hooks = s.hooks /\ t.on_write = s.on_write
        /\ t.buf_failed = s.buf_failed /\ t.undefined = s.undefined
        /\ t.output = TRUE /\ t.refs = s.refs
        /\ t.req = [s.req EXCEPT ![r] = q]
    <2>1. [s.req EXCEPT ![r] = q] \in [Reqs -> ReqType]
      BY <1>1, <1>2
    <2> QED
      BY <1>1, <1>3, <2>1 DEF SrvType
  <1>5. /\ t.req[r] = q /\ t.refs[r] = s.refs[r]
        /\ \A x \in Reqs \ {r} : t.refs[x] = s.refs[x] /\ t.req[x] = s.req[x]
    BY <1>1, <1>4
  <1>6. Replying(t, r)
    BY <1>1, <1>2, <1>4, <1>5, PieceFacts
  <1>7. WriteLine(s, r) = IF t.req[r].ofs >= t.req[r].size THEN EndReply(t) ELSE t
    BY DEF WriteLine, t
  <1> QED
    BY <1>4, <1>6, <1>7, EndFacts

\* req_write_buf, also for a reply of size 0.
LEMMA WriteBufFacts ==
    ASSUME NEW s, NEW r, Replying(s, r)
    PROVE  Between(WriteBuf(s, r)) /\ WriteBuf(s, r).output
  <1> DEFINE p == s.req[r]
             left == p.size - p.ofs
             n == IF left > BufSize THEN BufSize ELSE left
             v == [s EXCEPT !.output = TRUE, !.refs[r] = @ + 1,
                            !.req[r].refcnt = @ + 1]
             t == IF n = 0 THEN s ELSE v
             u == [t EXCEPT !.req[r].ofs = @ + n]
             q == [p EXCEPT !.refcnt = @ + 1]
             z == [t.req[r] EXCEPT !.ofs = @ + n]
  <1>1. /\ s \in SrvType /\ r \in Reqs /\ p \in ReqType
        /\ p.ofs \in Nat /\ p.size \in Nat /\ p.refcnt \in Nat
        /\ p.ofs <= p.size /\ p.refcnt = s.refs[r] + 1
        /\ s.refs[r] \in Nat /\ s.req \in [Reqs -> ReqType]
        /\ s.refs \in [Reqs -> Nat]
    BY DEF Replying, Base, ReqOK, ReqType, SrvType, Hooked
  <1>2. /\ n \in Nat /\ p.ofs + n <= p.size
        /\ n = 0 => p.ofs = p.size
    BY <1>1, SizesAssumption
  <1>3. WriteBuf(s, r) = IF u.req[r].ofs >= u.req[r].size THEN EndReply(u) ELSE u
    BY DEF WriteBuf
  <1>4. /\ q \in ReqType /\ q.refcnt = p.refcnt + 1 /\ q.ofs = p.ofs
        /\ q.size = p.size /\ q.type = p.type /\ q.req = p.req
    BY <1>1 DEF ReqType
  <1>5. v = [s EXCEPT !.output = TRUE,
                      !.refs = [s.refs EXCEPT ![r] = s.refs[r] + 1],
                      !.req = [s.req EXCEPT ![r] = q]]
    BY <1>1 DEF SrvType
  <1> HIDE DEF n, v, q
  <1>6. /\ v \in SrvType /\ v.conn = s.conn /\ v.request = s.request
        /\ v.hooks = s.hooks /\ v.on_write = s.on_write
        /\ v.buf_failed = s.buf_failed /\ v.undefined = s.undefined
        /\ v.output = TRUE
        /\ v.refs = [s.refs EXCEPT ![r] = s.refs[r] + 1]
        /\ v.req = [s.req EXCEPT ![r] = q]
    <2>1. /\ [s.req EXCEPT ![r] = q] \in [Reqs -> ReqType]
          /\ [s.refs EXCEPT ![r] = s.refs[r] + 1] \in [Reqs -> Nat]
      BY <1>1, <1>4
    <2> QED
      BY <1>1, <1>5, <2>1 DEF SrvType
  <1>7. /\ v.req[r] = q /\ v.refs[r] = s.refs[r] + 1
        /\ \A x \in Reqs \ {r} : v.refs[x] = s.refs[x] /\ v.req[x] = s.req[x]
    BY <1>1, <1>6
  \* The state before the offset moves: with or without the reference.
  <1>8. /\ t \in SrvType /\ t.conn = s.conn /\ t.request = s.request
        /\ t.hooks = s.hooks /\ t.on_write = s.on_write
        /\ t.buf_failed = s.buf_failed /\ t.undefined = s.undefined
        /\ t.output \/ (n = 0 /\ p.ofs = p.size)
        /\ t.req[r] \in ReqType /\ t.req[r].refcnt = t.refs[r] + 1
        /\ t.req[r].ofs = p.ofs /\ t.req[r].size = p.size
        /\ t.req[r].type = p.type /\ t.req[r].req = p.req
        /\ \A x \in Reqs \ {r} : t.refs[x] = s.refs[x] /\ t.req[x] = s.req[x]
    <2>1. CASE n = 0
      <3>1. t = s
        BY <2>1
      <3> HIDE DEF t, p
      <3> QED
        BY <1>1, <1>2, <2>1, <3>1 DEF p
    <2>2. CASE n # 0
      <3>1. t = v
        BY <2>2
      <3> HIDE DEF t, p
      <3> QED
        BY <1>1, <1>4, <1>6, <1>7, <3>1
    <2> QED
      BY <2>1, <2>2
  <1> HIDE DEF t, p
  <1>9. /\ z \in ReqType /\ z.refcnt = t.req[r].refcnt /\ z.ofs = p.ofs + n
        /\ z.size = p.size /\ z.type = p.type /\ z.req = p.req
    BY <1>1, <1>2, <1>8 DEF ReqType
  <1>10. u = [t EXCEPT !.req = [t.req EXCEPT ![r] = z]]
    BY <1>1, <1>8 DEF SrvType
  <1> HIDE DEF u, z
  <1>11. /\ u \in SrvType /\ u.conn = t.conn /\ u.request = t.request
         /\ u.hooks = t.hooks /\ u.on_write = t.on_write
         /\ u.buf_failed = t.buf_failed /\ u.undefined = t.undefined
         /\ u.output = t.output /\ u.refs = t.refs
         /\ u.req = [t.req EXCEPT ![r] = z]
    <2>1. [t.req EXCEPT ![r] = z] \in [Reqs -> ReqType]
      BY <1>1, <1>8, <1>9 DEF SrvType
    <2> QED
      BY <1>8, <1>10, <2>1 DEF SrvType
  <1>12. u.req[r] = z /\ \A x \in Reqs \ {r} : u.req[x] = t.req[x]
    BY <1>1, <1>8, <1>11 DEF SrvType
  <1>13. Replying(u, r)
    <2>1. u.req[r].refcnt = u.refs[r] + 1 /\ u.req[r].ofs <= u.req[r].size
      BY <1>1, <1>2, <1>8, <1>9, <1>11, <1>12
    <2>2. /\ u.req[r].size = s.req[r].size /\ u.req[r].type = s.req[r].type
          /\ u.req[r].req = s.req[r].req
      BY <1>9, <1>12 DEF p
    <2>3. /\ u.conn = s.conn /\ u.request = s.request
          /\ u.hooks = s.hooks /\ u.on_write = s.on_write
          /\ u.buf_failed = s.buf_failed /\ u.undefined = s.undefined
          /\ \A x \in Reqs \ {r} : u.refs[x] = s.refs[x] /\ u.req[x] = s.req[x]
      BY <1>8, <1>11, <1>12
    <2> QED
      BY <1>11, <2>1, <2>2, <2>3, PieceFacts
  <1>14. u.output \/ u.req[r].ofs >= u.req[r].size
    BY <1>1, <1>2, <1>8, <1>9, <1>11, <1>12
  <1> QED
    BY <1>3, <1>13, <1>14, EndFacts

\* req_start_response, for a new struct req r: it has a type, or the malloc of
\* its buffer failed.
LEMMA StartFacts ==
    ASSUME NEW s, Base(s), s.hooks = NoReq, s.conn = "open", NEW r \in Unused(s),
           NEW x \in SrvType, x.conn = s.conn, x.hooks = s.hooks,
           x.refs = s.refs, x.undefined => x.buf_failed,
           \A y \in Reqs \ {r} : x.req[y] = s.req[y],
           x.req[r].refcnt = 1, x.req[r].req, x.req[r].ofs = 0,
           x.req[r].type = "LINE" => x.req[r].size > 0,
           x.req[r].type = "NONE" => x.req[r].size = 0 /\ x.buf_failed
    PROVE  Between(StartResponse(x, r))
  <1> DEFINE h == [x EXCEPT !.hooks = r, !.on_write = r]
             start == [h EXCEPT !.request = "replying", !.output = TRUE]
             send == SendReply(h)
  <1>1. /\ r \in Reqs /\ r # NoReq /\ s.req[r].refcnt = 0 /\ ReqOK(s, r)
        /\ x.req[r] \in ReqType /\ x.req[r].size \in Nat /\ x.refs[r] \in Nat
        /\ x.req[r].type \in {"NONE", "LINE", "SIZE"}
    BY NoReqAssumption DEF Unused, Base, SrvType, ReqType
  <1>2. s.refs[r] = 0
    BY <1>1, NoReqAssumption DEF ReqOK, Hooked
  <1>3. /\ h \in SrvType /\ h.conn = x.conn /\ h.hooks = r /\ h.on_write = r
        /\ h.refs = x.refs /\ h.req = x.req
        /\ h.undefined = x.undefined /\ h.buf_failed = x.buf_failed
    BY <1>1 DEF SrvType
  <1> HIDE DEF h
  <1>4. Base(h)
    <2>1. ReqOK(h, r)
      <3>1. Hooked(h, r) = 1 /\ h.refs[r] = 0 /\ h.req[r] = x.req[r]
        BY <1>2, <1>3 DEF Hooked
      <3> QED
        BY <1>1, <3>1 DEF ReqOK
    <2>2. ASSUME NEW y \in Reqs, y # r
          PROVE  ReqOK(h, y)
      <3>1. /\ Hooked(h, y) = 0 /\ Hooked(s, y) = 0 /\ ReqOK(s, y)
            /\ h.refs[y] = s.refs[y] /\ h.req[y] = s.req[y]
        BY <1>3, <2>2, NoReqAssumption DEF Hooked, Base
      <3> QED
        BY <3>1 DEF ReqOK
    <2> QED
      BY <1>3, <2>1, <2>2 DEF Base
  <1>5. /\ start \in SrvType /\ start.conn = "open" /\ start.hooks = r
        /\ start.on_write = r /\ start.request = "replying"
        /\ start.output = TRUE /\ start.req = x.req /\ start.refs = h.refs
        /\ start.undefined = h.undefined /\ start.buf_failed = h.buf_failed
        /\ start.hooks = h.hooks /\ start.req = h.req
    BY <1>3 DEF SrvType
  <1>6. /\ send \in SrvType /\ send.conn = "open" /\ send.hooks = h.hooks
        /\ send.on_write = r /\ send.request = "finished"
        /\ send.req = h.req /\ send.refs = h.refs
        /\ send.undefined = h.undefined /\ send.buf_failed = h.buf_failed
    BY <1>3 DEF SrvType, SendReply
  <1>7. /\ x.req[r].type = "NONE" => StartResponse(x, r) = send
        /\ x.req[r].type = "LINE" => StartResponse(x, r) = WriteLine(start, r)
        /\ x.req[r].type = "SIZE" => StartResponse(x, r) = WriteBuf(start, r)
    BY DEF StartResponse, h
  <1> HIDE DEF start, send
  <1>8. Base(start) /\ Base(send)
    BY <1>4, <1>5, <1>6, BaseSame
  <1>9. Replying(start, r)
    BY <1>1, <1>5, <1>8 DEF Replying
  <1>10. CASE x.req[r].type = "NONE"
    <2>1. send.req[r].ofs = send.req[r].size /\ send.req[r].type = "NONE"
          /\ send.buf_failed /\ send.hooks = r
      BY <1>3, <1>6, <1>10
    <2>2. Between(send)
      BY <1>6, <1>8, <2>1 DEF Between, ReplyOK, HookOK
    <2> QED
      BY <1>7, <1>10, <2>2
  <1>11. CASE x.req[r].type = "LINE"
    <2>1. start.req[r].ofs < start.req[r].size
      BY <1>5, <1>11
    <2> QED
      BY <1>7, <1>9, <1>11, <2>1, WriteLineFacts
  <1>12. CASE x.req[r].type = "SIZE"
    BY <1>7, <1>9, <1>12, WriteBufFacts
  <1> QED
    BY <1>1, <1>10, <1>11, <1>12

\* A reply that needs no struct req.
LEMMA SendReplyFacts ==
    ASSUME NEW s, Between(s), s.hooks = NoReq, s.conn = "open",
           s.request = "receiving"
    PROVE  Between(SendReply(s))
  <1> DEFINE t == SendReply(s)
  <1>1. /\ t \in SrvType /\ t.conn = "open" /\ t.hooks = s.hooks
        /\ t.on_write = s.on_write /\ t.request = "finished"
        /\ t.req = s.req /\ t.refs = s.refs
        /\ t.undefined = s.undefined /\ t.buf_failed = s.buf_failed
    BY DEF SrvType, SendReply, Between, Base
  <1> HIDE DEF t
  <1>2. Base(t)
    BY <1>1, BaseSame DEF Between
  <1>3. ReplyOK(t) /\ HookOK(t)
    BY <1>1 DEF ReplyOK, HookOK, Between
  <1> QED
    BY <1>1, <1>2, <1>3 DEF Between, t

------------------------------------------------------------------------------
(* The callbacks                                                           *)

\* req_create.
LEMMA CreateFacts ==
    ASSUME NEW s \in SrvType, NEW r \in Reqs, NEW c, c = ReqCreate(s, r)
    PROVE  /\ c \in SrvType /\ SameButReqs(s, c)
           /\ \A y \in Reqs \ {r} : c.req[y] = s.req[y]
           /\ c.req[r].refcnt = 1 /\ c.req[r].req /\ c.req[r].ofs = 0
           /\ c.req[r].type = "NONE" /\ c.req[r].size = 0
  <1> DEFINE q == [FreeReq EXCEPT !.refcnt = 1, !.req = TRUE]
  <1>1. /\ q \in ReqType /\ q.refcnt = 1 /\ q.req = TRUE /\ q.ofs = 0
        /\ q.type = "NONE" /\ q.size = 0
    BY DEF FreeReq, ReqType
  <1>2. c = [s EXCEPT !.req = [s.req EXCEPT ![r] = q]]
    BY DEF ReqCreate, SrvType
  <1> HIDE DEF q
  <1>3. [s.req EXCEPT ![r] = q] \in [Reqs -> ReqType]
    BY <1>1 DEF SrvType
  <1>4. /\ c \in SrvType /\ SameButReqs(s, c)
        /\ c.req = [s.req EXCEPT ![r] = q]
    BY <1>2, <1>3 DEF SrvType, SameButReqs
  <1>5. c.req[r] = q /\ \A y \in Reqs \ {r} : c.req[y] = s.req[y]
    BY <1>4 DEF SrvType
  <1> QED
    BY <1>1, <1>4, <1>5

\* req_set_type_line and req_set_type_buf set a type and a size.
WithType(c, r, type, size) ==
    [c EXCEPT !.req[r].type = type, !.req[r].size = size]

\* They change nothing else.
LEMMA SetTypeFacts ==
    ASSUME NEW c \in SrvType, NEW r \in Reqs,
           NEW type \in {"LINE", "SIZE"}, NEW size \in Nat,
           NEW x, x = WithType(c, r, type, size)
    PROVE  /\ x \in SrvType /\ SameButReqs(c, x)
           /\ \A y \in Reqs \ {r} : x.req[y] = c.req[y]
           /\ x.req[r].refcnt = c.req[r].refcnt /\ x.req[r].req = c.req[r].req
           /\ x.req[r].ofs = c.req[r].ofs
           /\ x.req[r].type = type /\ x.req[r].size = size
  <1> DEFINE p == c.req[r]
             q == [p EXCEPT !.type = type, !.size = size]
  <1>1. p \in ReqType
    BY DEF SrvType
  <1>2. /\ q \in ReqType /\ q.refcnt = p.refcnt /\ q.req = p.req
        /\ q.ofs = p.ofs /\ q.type = type /\ q.size = size
    BY <1>1 DEF ReqType
  <1>3. x = [c EXCEPT !.req = [c.req EXCEPT ![r] = q]]
    BY <1>1 DEF WithType, SrvType
  <1> HIDE DEF q
  <1>4. [c.req EXCEPT ![r] = q] \in [Reqs -> ReqType]
    BY <1>2 DEF SrvType
  <1>5. /\ x \in SrvType /\ SameButReqs(c, x)
        /\ x.req = [c.req EXCEPT ![r] = q]
    BY <1>3, <1>4 DEF SrvType, SameButReqs
  <1>6. x.req[r] = q /\ \A y \in Reqs \ {r} : x.req[y] = c.req[y]
    BY <1>5 DEF SrvType
  <1> QED
    BY <1>2, <1>5, <1>6

\* A callback answers a request.
LEMMA CompleteStep ==
    ASSUME Between(srv), RequestComplete
    PROVE  Between(srv')
  <1>1. /\ Base(srv) /\ srv \in SrvType /\ srv.conn = "open"
        /\ srv.request = "receiving" /\ srv.hooks = NoReq
        /\ srv.undefined => srv.buf_failed
    BY DEF RequestComplete, Alive, Between, Base, ReplyOK
  <1>2. CASE srv' = SendReply(srv)
    BY <1>1, <1>2, SendReplyFacts
  <1>3. ASSUME NEW r \in Unused(srv), NEW type \in {"LINE", "SIZE"},
               NEW size \in Nat, type = "LINE" => size > 0,
               NEW c, c = ReqCreate(srv, r),
               NEW x, x = WithType(c, r, type, size)
        PROVE  Between(StartResponse(x, r))
    <2>1. r \in Reqs
      BY DEF Unused
    <2>2. /\ c \in SrvType /\ SameButReqs(srv, c)
          /\ \A y \in Reqs \ {r} : c.req[y] = srv.req[y]
          /\ c.req[r].refcnt = 1 /\ c.req[r].req /\ c.req[r].ofs = 0
      BY <1>1, <1>3, <2>1, CreateFacts
    <2>3. /\ x \in SrvType /\ SameButReqs(c, x)
          /\ \A y \in Reqs \ {r} : x.req[y] = c.req[y]
          /\ x.req[r].refcnt = c.req[r].refcnt /\ x.req[r].req = c.req[r].req
          /\ x.req[r].ofs = c.req[r].ofs
          /\ x.req[r].type = type /\ x.req[r].size = size
      <3>1. c \in SrvType /\ x = WithType(c, r, type, size)
        BY <1>3, <2>2
      <3> QED
        BY <2>1, <3>1, SetTypeFacts
    <2>4. /\ x.conn = srv.conn /\ x.hooks = srv.hooks /\ x.refs = srv.refs
          /\ x.undefined => x.buf_failed
      BY <1>1, <2>2, <2>3 DEF SameButReqs
    <2>5. /\ \A y \in Reqs \ {r} : x.req[y] = srv.req[y]
          /\ x.req[r].refcnt = 1 /\ x.req[r].req /\ x.req[r].ofs = 0
          /\ x.req[r].type # "NONE"
          /\ x.req[r].type = "LINE" => x.req[r].size > 0
      BY <1>3, <2>2, <2>3
    <2> QED
      BY <1>1, <2>3, <2>4, <2>5, StartFacts
  <1>4. ASSUME NEW r \in Unused(srv),
               srv' = StartResponse(SetTypeLine(ReqCreate(srv, r), r), r)
        PROVE  Between(srv')
    <2>1. SetTypeLine(ReqCreate(srv, r), r) =
            WithType(ReqCreate(srv, r), r, "LINE", MaxCount)
      BY DEF SetTypeLine, WithType
    <2>2. MaxCount \in Nat /\ MaxCount > 0
      BY SizesAssumption
    <2> QED
      BY <1>3, <1>4, <2>1, <2>2
  <1>5. ASSUME NEW r \in Unused(srv), NEW n \in Sizes,
               srv' = StartResponse(SetTypeBuf(ReqCreate(srv, r), r, n), r)
        PROVE  Between(srv')
    <2>1. SetTypeBuf(ReqCreate(srv, r), r, n) =
            WithType(ReqCreate(srv, r), r, "SIZE", n)
      BY DEF SetTypeBuf, WithType
    <2> QED
      BY <1>3, <1>5, <2>1, SizesAssumption
  <1>6. ASSUME NEW r \in Unused(srv),
               srv' = StartResponse(SetTypeBufFailed(ReqCreate(srv, r)), r)
        PROVE  Between(srv')
    <2> DEFINE c == ReqCreate(srv, r)
               x == SetTypeBufFailed(c)
    <2>1. r \in Reqs
      BY DEF Unused
    <2>2. /\ c \in SrvType /\ SameButReqs(srv, c)
          /\ \A y \in Reqs \ {r} : c.req[y] = srv.req[y]
          /\ c.req[r].refcnt = 1 /\ c.req[r].req /\ c.req[r].ofs = 0
          /\ c.req[r].type = "NONE" /\ c.req[r].size = 0
      BY <1>1, <2>1, CreateFacts
    <2> HIDE DEF c
    <2>3. /\ x \in SrvType /\ x.conn = c.conn /\ x.hooks = c.hooks
          /\ x.refs = c.refs /\ x.req = c.req /\ x.buf_failed = TRUE
      BY <2>2 DEF SetTypeBufFailed, SrvType
    <2> HIDE DEF x
    <2>4. x.conn = srv.conn /\ x.hooks = srv.hooks /\ x.refs = srv.refs
      BY <2>2, <2>3 DEF SameButReqs
    <2>5. Between(StartResponse(x, r))
      BY <1>1, <2>2, <2>3, <2>4, StartFacts
    <2> QED
      BY <1>6, <2>5 DEF x, c
  <1> QED
    BY <1>2, <1>4, <1>5, <1>6 DEF RequestComplete, LineCb, SizeCb

\* A request that is not being answered is freed.
LEMMA FreeFacts ==
    ASSUME NEW s, Between(s), s.request # "replying", s.conn = "open"
    PROVE  Between(RequestFree(s))
  <1> DEFINE t == RequestFree(s)
  <1>1. Released(s, t) /\ t.hooks = NoReq /\ t.request = "none"
    BY RequestFreeFacts DEF Between
  <1> HIDE DEF t
  <1>2. s.on_write # NoReq => s.on_write \in Reqs
    BY DEF Between, Base, SrvType
  <1>3. HookOK(t)
    BY <1>1, <1>2 DEF HookOK, Released, Between
  <1> QED
    BY <1>1, <1>3 DEF Between, ReplyOK, Released, t

\* The write hook that is left over: of a struct req without a type, which
\* takes nothing from the output and may have been freed.
LEMMA OnWriteStale ==
    ASSUME NEW s, Between(s), s.request # "replying", s.on_write # NoReq,
           s.conn = "open"
    PROVE  /\ Between(OnWrite(s))
           /\ OnWrite(s).request = s.request /\ OnWrite(s).output = s.output
           /\ OnWrite(s).conn = s.conn
  <1>1. s.buf_failed /\ s.req[s.on_write].type = "NONE" /\ s \in SrvType
    BY DEF Between, HookOK, Base
  <1>2. CASE OnWrite(s) = s
    BY <1>2
  <1>3. CASE OnWrite(s) = Undefined(s)
    <2> DEFINE t == Undefined(s)
    <2>1. /\ t \in SrvType /\ t.conn = s.conn /\ t.hooks = s.hooks
          /\ t.on_write = s.on_write /\ t.request = s.request
          /\ t.output = s.output
          /\ t.req = s.req /\ t.refs = s.refs /\ t.buf_failed = s.buf_failed
      BY <1>1 DEF Undefined, SrvType
    <2> HIDE DEF t
    <2>2. Base(t)
      BY <1>1, <2>1 DEF Between, Base, ReqOK, Hooked
    <2>3. Between(t)
      BY <2>1, <2>2 DEF Between, ReplyOK, HookOK
    <2> QED
      BY <1>3, <2>1, <2>3 DEF t
  <1> QED
    BY <1>1, <1>2, <1>3 DEF OnWrite

\* The write callback, when everything has left.
LEMMA DrainAllStep ==
    ASSUME Between(srv), DrainAll
    PROVE  Between(srv')
  <1> DEFINE s == OutputGone(srv)
             t == IF s.on_write = NoReq THEN s ELSE OnWrite(s)
  <1>1. /\ Base(srv) /\ srv.conn = "open" /\ srv \in SrvType
        /\ srv.request \in {"none", "receiving", "replying", "finished"}
    BY DEF DrainAll, Alive, Between, Base, SrvType
  <1>2. /\ Released(srv, s) /\ s.hooks = srv.hooks /\ s.request = srv.request
        /\ s.output = FALSE
    BY <1>1, OutputGoneFacts
  <1>3. srv' = WriteCb(s)
    BY DEF DrainAll
  <1> HIDE DEF s
  <1>4. s.conn = "open" /\ s.on_write = srv.on_write /\ Base(s)
    BY <1>1, <1>2 DEF Released
  <1>5. CASE srv.request = "replying"
    <2> DEFINE r == s.on_write
    <2>1. /\ r = s.hooks /\ r = srv.hooks /\ r # NoReq /\ r \in Reqs
          /\ srv.req[r].ofs < srv.req[r].size
      BY <1>1, <1>2, <1>4, <1>5 DEF Between, ReplyOK, SrvType
    <2>2. s.req[r].ofs < s.req[r].size /\ s.req[r].req
      BY <1>2, <1>4, <2>1 DEF Released, Base
    <2>3. Replying(s, r)
      BY <1>2, <1>4, <1>5, <2>1 DEF Replying
    <2>4. /\ s.req[r].refcnt # 0 /\ s.req[r].type \in {"LINE", "SIZE"}
      <3>1. ReqOK(s, r) /\ Hooked(s, r) = 1 /\ s.refs[r] \in Nat
            /\ s.req[r] \in ReqType
        BY <1>4, <2>1 DEF Base, Hooked, SrvType
      <3> QED
        BY <2>2, <3>1 DEF ReqOK, ReqType
    <2>5. t = WriteLine(s, r) \/ t = WriteBuf(s, r)
      BY <2>1, <2>2, <2>4 DEF OnWrite
    <2> HIDE DEF t, r
    <2>6. Between(t) /\ t.output
      BY <2>2, <2>3, <2>5, WriteLineFacts, WriteBufFacts
    <2>7. WriteCb(s) = t
      BY <1>2, <1>5, <2>6 DEF WriteCb, t
    <2> QED
      BY <1>3, <2>6, <2>7
  <1>6. CASE srv.request # "replying"
    <2>1. Between(s)
      BY <1>1, <1>2, <1>6, ReleasedBetween
    <2>2. /\ Between(t) /\ t.request = srv.request /\ t.output = FALSE
          /\ t.conn = "open"
      <3>1. CASE s.on_write = NoReq
        BY <1>2, <1>4, <2>1, <3>1
      <3>2. CASE s.on_write # NoReq
        BY <1>2, <1>4, <1>6, <2>1, <3>2, OnWriteStale
      <3> QED
        BY <3>1, <3>2
    <2> HIDE DEF t
    <2>3. CASE srv.request = "none"
      <3>1. WriteCb(s) = s
        BY <1>2, <2>3 DEF WriteCb
      <3> QED
        BY <1>3, <2>1, <3>1
    <2>4. CASE srv.request = "receiving"
      <3>1. WriteCb(s) = t
        BY <1>2, <2>2, <2>4 DEF WriteCb, t
      <3> QED
        BY <1>3, <2>2, <3>1
    <2>5. CASE srv.request = "finished"
      <3>1. WriteCb(s) = IF t.keepalive THEN RequestFree(t) ELSE ConnectionFree(t)
        BY <1>2, <2>2, <2>5 DEF WriteCb, t
      <3>2. Between(RequestFree(t)) /\ Between(ConnectionFree(t))
        BY <2>2, <2>5, FreeFacts, ConnectionFreeFacts DEF Between
      <3> QED
        BY <1>3, <3>1, <3>2
    <2> QED
      BY <1>1, <1>6, <2>3, <2>4, <2>5
  <1> QED
    BY <1>5, <1>6

\* A new request on the connection.
LEMMA StartStep ==
    ASSUME Between(srv), NEW keepalive \in BOOLEAN, RequestStart(keepalive)
    PROVE  Between(srv')
  <1>1. Base(srv) /\ srv.conn = "open" /\ srv.nreq < MaxRequests /\ srv \in SrvType
    BY DEF RequestStart, Alive, Between, Base
  <1>2. CASE srv.request = "replying"
    BY <1>1, <1>2, ConnectionFreeFacts DEF RequestStart
  <1>3. CASE srv.request # "replying"
    <2> DEFINE s == RequestFree(srv)
               t == [s EXCEPT !.request = "receiving", !.keepalive = keepalive,
                              !.nreq = @ + 1]
    <2>1. /\ Between(s) /\ s.hooks = NoReq /\ s.request = "none"
          /\ s.nreq = srv.nreq /\ s.conn = "open"
      BY <1>1, <1>3, FreeFacts, RequestFreeFacts DEF Released
    <2>2. srv' = t
      BY <1>3 DEF RequestStart
    <2> HIDE DEF s
    <2>3. s \in SrvType /\ s.nreq + 1 \in 0..MaxRequests
      BY <1>1, <2>1, SizesAssumption DEF Between, Base, SrvType
    <2>4. /\ t \in SrvType /\ t.request = "receiving" /\ t.conn = s.conn
          /\ t.hooks = s.hooks /\ t.on_write = s.on_write
          /\ t.req = s.req /\ t.refs = s.refs
          /\ t.undefined = s.undefined /\ t.buf_failed = s.buf_failed
      BY <2>3 DEF SrvType
    <2> HIDE DEF t
    <2>5. Base(t)
      BY <2>1, <2>4, BaseSame DEF Between
    <2>6. HookOK(t) /\ ReplyOK(t)
      BY <2>1, <2>4 DEF Between, HookOK, ReplyOK
    <2>7. Between(t)
      BY <2>1, <2>4, <2>5, <2>6 DEF Between
    <2> QED
      BY <2>2, <2>7
  <1> QED
    BY <1>2, <1>3

------------------------------------------------------------------------------
(* The theorems                                                            *)

\* The invariant of the server.
LEMMA SrvInvariant == Spec => []IInv
  <1>1. Init => IInv
    <2> SUFFICES ASSUME Init PROVE Between(srv)
      BY DEF IInv
    <2>1. /\ srv \in SrvType /\ srv.hooks = NoReq /\ srv.on_write = NoReq
          /\ srv.request = "none" /\ srv.conn = "open" /\ srv.undefined = FALSE
          /\ \A r \in Reqs : srv.req[r] = FreeReq /\ srv.refs[r] = 0
      BY FreeReqType, SizesAssumption DEF Init, SrvType
    <2>2. \A r \in Reqs : ReqOK(srv, r)
      <3> SUFFICES ASSUME NEW r \in Reqs PROVE ReqOK(srv, r)
        OBVIOUS
      <3>1. srv.req[r] = FreeReq /\ srv.refs[r] = 0 /\ Hooked(srv, r) = 0
        BY <2>1, NoReqAssumption DEF Hooked
      <3>2. /\ FreeReq \in ReqType /\ FreeReq.refcnt = 0
            /\ FreeReq.ofs = 0 /\ FreeReq.size = 0
        BY FreeReqType
      <3> QED
        BY <3>1, <3>2 DEF ReqOK
    <2> QED
      BY <2>1, <2>2 DEF Between, Base, ReplyOK, HookOK
  <1>2. IInv /\ [Next]_srv => IInv'
    <2> SUFFICES ASSUME Between(srv), [Next]_srv PROVE Between(srv')
      BY DEF IInv
    <2>1. CASE ParserError
      BY <2>1, ConnectionFreeFacts DEF ParserError, Between
    <2>2. CASE SocketError
      <3> DEFINE s == IF srv.hooks = NoReq THEN srv ELSE UpstreamError(srv)
      <3>1. Base(s)
        BY ErrorFacts DEF Between, Released
      <3>2. srv' = ConnectionFree(s)
        BY <2>2 DEF SocketError
      <3> HIDE DEF s
      <3> QED
        BY <3>1, <3>2, ConnectionFreeFacts
    <2>3. CASE Over \/ UNCHANGED srv
      BY <2>3 DEF Over
    <2> QED
      BY <2>1, <2>2, <2>3, StartStep, CompleteStep, DrainSomeStep, DrainAllStep
         DEF Next
  <1> QED
    BY <1>1, <1>2, PTL DEF Spec

\* Types: in particular no reply goes past its end.
THEOREM TypeCorrect == Spec => []TypeOK
  <1>1. IInv => TypeOK
    BY DEF IInv, Between, Base, ReqOK, TypeOK
  <1> QED
    BY <1>1, SrvInvariant, PTL

\* Every struct req is counted exactly, whichever of the error hook, the fini
\* hook and the evbuffers' clean-up (req_free's callers) comes last.
THEOREM CountsExact == Spec => []RefcountExact
  <1>1. IInv => RefcountExact
    BY DEF IInv, Between, Base, ReqOK, RefcountExact, Hooked
  <1> QED
    BY <1>1, SrvInvariant, PTL

\* A connection that is gone has freed every struct req.
THEOREM NoLeak == Spec => []NothingLeaks
  <1>1. IInv => NothingLeaks
    <2> SUFFICES ASSUME IInv, srv.conn = "closed", NEW r \in Reqs
                 PROVE  srv.req[r] = FreeReq
      BY DEF NothingLeaks
    <2>1. ReqOK(srv, r) /\ srv.hooks = NoReq /\ srv.refs[r] = 0
      BY DEF IInv, Between, Base
    <2> QED
      BY <2>1, NoReqAssumption DEF ReqOK, Hooked
  <1> QED
    BY <1>1, SrvInvariant, PTL

\* A reply is ended when all of it was written, and one that is not can go on.
THEOREM RepliesWhole == Spec => []ReplyWhole
  <1>1. IInv => ReplyWhole
    BY DEF IInv, Between, Base, ReplyOK, ReplyWhole
  <1> QED
    BY <1>1, SrvInvariant, PTL

\* The write hook is that of the reply in progress, and nothing freed is used,
\* unless the malloc of a reply's buffer failed (req_set_type_buf).
THEOREM HooksValid == Spec => []WriteHookValid
  <1>1. IInv => WriteHookValid
    BY DEF IInv, Between, Base, ReplyOK, HookOK, WriteHookValid
  <1> QED
    BY <1>1, SrvInvariant, PTL
==============================================================================
