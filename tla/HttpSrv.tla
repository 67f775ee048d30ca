------------------------------- MODULE HttpSrv -------------------------------
(***************************************************************************)
(* The test server (srv/http.c) as one connection sees it.  A request to   *)
(* /line or /size is answered in pieces: each time the output buffer has   *)
(* drained, the connection's on_write hook adds the next piece.  A piece   *)
(* of a /size reply is not copied: the output refers to the buffer of the  *)
(* struct req, which is therefore counted.                                 *)
(*                                                                         *)
(* The state is one record, and each C function an operator from record to *)
(* record.  Connections share nothing (each belongs to one libevhtp        *)
(* thread), so one stands for all; callbacks run to completion.            *)
(***************************************************************************)
EXTENDS Naturals

CONSTANTS
    Reqs,          \* the struct reqs malloc hands out
    NoReq,         \* the NULL pointer
    MaxCount,      \* lines of a /line reply (16 in the code)
    BufSize,       \* bytes in a struct req's buffer (65536 in the code)
    Sizes,         \* the sizes clients ask /size for
    MaxRequests    \* bound: requests on the connection

ASSUME NoReqAssumption == NoReq \notin Reqs
ASSUME SizesAssumption ==
    /\ MaxCount \in Nat \ {0}
    /\ BufSize \in Nat \ {0}
    /\ Sizes \subseteq Nat
    /\ MaxRequests \in Nat

VARIABLE srv

\* struct req; a freed one has refcnt 0.  cur_count and max_count of a line
\* reply, current_ofs and reply_size of a sized one are both ofs and size.
ReqType ==
    [refcnt : Nat, req : BOOLEAN, type : {"NONE", "LINE", "SIZE"},
     ofs : Nat, size : Nat]

FreeReq == [refcnt |-> 0, req |-> FALSE, type |-> "NONE", ofs |-> 0, size |-> 0]

SrvType ==
    [conn : {"open", "closed"},
     request : {"none", "receiving", "replying", "finished"},
     keepalive : BOOLEAN,       \* of the present request
     hooks : Reqs \cup {NoReq},     \* argument of the request's hooks
     on_write : Reqs \cup {NoReq},  \* argument of the connection's write hook
     output : BOOLEAN,          \* are there bytes in the output buffer?
     refs : [Reqs -> Nat],      \* references from the output buffer
     req : [Reqs -> ReqType],
     nreq : 0..MaxRequests,
     buf_failed : BOOLEAN,      \* has a reply buffer's malloc ever failed?
     undefined : BOOLEAN]       \* has freed memory been used?

\* A reply never goes past its end.
TypeOK == srv \in SrvType /\ \A r \in Reqs : srv.req[r].ofs <= srv.req[r].size

\* An accepted connection.
Init ==
    srv = [conn |-> "open", request |-> "none", keepalive |-> TRUE,
           hooks |-> NoReq, on_write |-> NoReq, output |-> FALSE,
           refs |-> [r \in Reqs |-> 0], req |-> [r \in Reqs |-> FreeReq],
           nreq |-> 0, buf_failed |-> FALSE, undefined |-> FALSE]

Undefined(s) == [s EXCEPT !.undefined = TRUE]

------------------------------------------------------------------------------
(* struct req                                                              *)

\* req_create.
ReqCreate(s, r) ==
    [s EXCEPT !.req[r] = [FreeReq EXCEPT !.refcnt = 1, !.req = TRUE]]

\* req_set_type_line and req_set_type_buf.
SetTypeLine(s, r) == [s EXCEPT !.req[r].type = "LINE", !.req[r].size = MaxCount]
SetTypeBuf(s, r, size) == [s EXCEPT !.req[r].type = "SIZE", !.req[r].size = size]

\* req_set_type_buf without memory for the buffer.
SetTypeBufFailed(s) == [s EXCEPT !.buf_failed = TRUE]

\* req_free: drop one reference.
ReqFree(s, r) ==
    CASE s.req[r].refcnt > 1 -> [s EXCEPT !.req[r].refcnt = @ - 1]
      [] s.req[r].refcnt = 1 -> [s EXCEPT !.req[r] = FreeReq]
      [] s.req[r].refcnt = 0 -> Undefined(s)

\* Mutant of UpstreamError: the request's reference is not dropped.
BugErrorLeaks(s) ==
    [s EXCEPT !.hooks = NoReq, !.req[s.hooks].req = FALSE]

\* send_upstream_error, for the struct req the request's hooks refer to.
UpstreamError(s) ==
    ReqFree([s EXCEPT !.hooks = NoReq, !.req[s.hooks].req = FALSE], s.hooks)

\* send_upstream_fini does the same, but through r->req.
UpstreamFini(s) ==
    IF s.req[s.hooks].req THEN UpstreamError(s) ELSE Undefined(s)

------------------------------------------------------------------------------
(* libevhtp                                                                *)

\* _evhtp_request_free: the fini hook, if there is one.
RequestFree(s) ==
    [(IF s.hooks = NoReq THEN s ELSE UpstreamFini(s)) EXCEPT !.request = "none"]

\* The output buffer is emptied, by sending it or with its bufferevent:
\* req_evbuf_free runs for every reference in it.
OutputGone(s) ==
    [s EXCEPT
       !.output = FALSE,
       !.refs = [r \in Reqs |-> 0],
       !.req = [r \in Reqs |->
                  CASE s.refs[r] = 0 -> s.req[r]
                    [] s.refs[r] > 0 /\ s.req[r].refcnt > s.refs[r] ->
                         [s.req[r] EXCEPT !.refcnt = @ - s.refs[r]]
                    [] OTHER -> FreeReq],
       !.undefined = @ \/ \E r \in Reqs : s.refs[r] > s.req[r].refcnt]

\* evhtp_connection_free: the request first, then the bufferevent.
ConnectionFree(s) ==
    [OutputGone(RequestFree(s)) EXCEPT !.conn = "closed", !.on_write = NoReq]

\* evhtp_send_reply: a complete reply.
SendReply(s) == [s EXCEPT !.output = TRUE, !.request = "finished"]

------------------------------------------------------------------------------
(* Writing a reply                                                         *)

\* Mutant of EndReply: the write hook stays.
BugHookStays(s) == SendReply(s)

\* The last piece was written: unset the write hook, end the reply.
EndReply(s) == [SendReply(s) EXCEPT !.on_write = NoReq]

\* Mutant of WriteLine: stops one line early.
BugLineShort(s, r) ==
    LET t == [s EXCEPT !.output = TRUE, !.req[r].ofs = @ + 1]
    IN  IF t.req[r].ofs + 1 >= t.req[r].size THEN EndReply(t) ELSE t

\* req_write_line.
WriteLine(s, r) ==
    LET t == [s EXCEPT !.output = TRUE, !.req[r].ofs = @ + 1]
    IN  IF t.req[r].ofs >= t.req[r].size THEN EndReply(t) ELSE t

\* Mutants of WriteBuf: the reference is not counted; a whole buffer is sent
\* every time.
BugUncounted(s, r) ==
    LET left == s.req[r].size - s.req[r].ofs
        n == IF left > BufSize THEN BufSize ELSE left
        t == IF n = 0 THEN s ELSE [s EXCEPT !.output = TRUE, !.refs[r] = @ + 1]
        u == [t EXCEPT !.req[r].ofs = @ + n]
    IN  IF u.req[r].ofs >= u.req[r].size THEN EndReply(u) ELSE u

BugWholeBuffer(s, r) ==
    LET t == [s EXCEPT !.output = TRUE, !.refs[r] = @ + 1,
                       !.req[r].refcnt = @ + 1, !.req[r].ofs = @ + BufSize]
    IN  IF t.req[r].ofs >= t.req[r].size THEN EndReply(t) ELSE t

\* req_write_buf.  libevhtp does not queue an empty chunk: the reference a
\* reply of size 0 takes is dropped again by evbuffer_free.
WriteBuf(s, r) ==
    LET left == s.req[r].size - s.req[r].ofs
        n == IF left > BufSize THEN BufSize ELSE left
        t == IF n = 0 THEN s
             ELSE [s EXCEPT !.output = TRUE, !.refs[r] = @ + 1,
                            !.req[r].refcnt = @ + 1]
        u == [t EXCEPT !.req[r].ofs = @ + n]
    IN  IF u.req[r].ofs >= u.req[r].size THEN EndReply(u) ELSE u

\* send_upstream_on_write; libevhtp ignores the error it returns for a request
\* without a type.
OnWrite(s) ==
    LET r == s.on_write
        type == s.req[r].type
    IN  IF s.req[r].refcnt = 0 \/ (type # "NONE" /\ ~s.req[r].req)
          THEN Undefined(s)
          ELSE CASE type = "NONE" -> s
                 [] type = "LINE" -> WriteLine(s, r)
                 [] type = "SIZE" -> WriteBuf(s, r)

\* Mutant of StartResponse: no write hook for a sized reply.
BugNoWriteHook(s, r) ==
    LET h == [s EXCEPT !.hooks = r]
        start == [h EXCEPT !.request = "replying", !.output = TRUE]
    IN  CASE s.req[r].type = "NONE" -> SendReply(h)
          [] s.req[r].type = "LINE" -> WriteLine([start EXCEPT !.on_write = r], r)
          [] s.req[r].type = "SIZE" -> WriteBuf(start, r)

\* req_start_response: set the hooks, start the reply with its first piece.
StartResponse(s, r) ==
    LET h == [s EXCEPT !.hooks = r, !.on_write = r]
        start == [h EXCEPT !.request = "replying", !.output = TRUE]
    IN  CASE s.req[r].type = "NONE" -> SendReply(h)
          [] s.req[r].type = "LINE" -> WriteLine(start, r)
          [] s.req[r].type = "SIZE" -> WriteBuf(start, r)

Unused(s) == {r \in Reqs : s.req[r].refcnt = 0}

\* The outcomes of linecb, the first when there is no memory.
LineCb(s) ==
    {SendReply(s)} \cup
    {StartResponse(SetTypeLine(ReqCreate(s, r), r), r) : r \in Unused(s)}

\* The outcomes of sizecb: no size parameter, one too large, or no memory;
\* a reply; no memory for the buffer, which sizecb does not notice.
SizeCb(s, size) ==
    {SendReply(s)} \cup
    {StartResponse(SetTypeBuf(ReqCreate(s, r), r, size), r) : r \in Unused(s)} \cup
    {StartResponse(SetTypeBufFailed(ReqCreate(s, r)), r) : r \in Unused(s)}

\* The write callback, once the output has drained: run the write hook; a
\* finished reply with nothing left to send ends its request.
WriteCb(s) ==
    LET t == IF s.on_write = NoReq THEN s ELSE OnWrite(s)
    IN  CASE s.request = "none" -> s
          [] s.request # "none" /\ (t.request # "finished" \/ t.output) -> t
          [] s.request # "none" /\ t.request = "finished" /\ ~t.output ->
               IF t.keepalive THEN RequestFree(t) ELSE ConnectionFree(t)

------------------------------------------------------------------------------
(* What happens to the connection                                          *)

Alive == srv.conn = "open" /\ ~srv.undefined

\* The first bytes of a request.  A finished one still draining is freed; one
\* still being answered makes libevhtp drop the connection, without error hook.
RequestStart(keepalive) ==
    /\ Alive
    /\ srv.request # "receiving"
    /\ srv.nreq < MaxRequests
    /\ srv' = IF srv.request = "replying" THEN ConnectionFree(srv)
              ELSE [RequestFree(srv) EXCEPT !.request = "receiving",
                                            !.keepalive = keepalive,
                                            !.nreq = @ + 1]

\* The rest of it: a callback answers.
RequestComplete ==
    /\ Alive
    /\ srv.request = "receiving"
    /\ srv' \in LineCb(srv) \cup UNION {SizeCb(srv, n) : n \in Sizes}

\* Garbage: libevhtp drops the connection, without error hook.
ParserError ==
    /\ Alive
    /\ srv.request = "receiving"
    /\ srv' = ConnectionFree(srv)

\* Some bytes leave, the last of a piece that struct req r owns among them.
DrainSome(r) ==
    /\ Alive
    /\ srv.refs[r] > 0
    /\ srv' = ReqFree([srv EXCEPT !.refs[r] = @ - 1], r)

\* Everything leaves.
DrainAll ==
    /\ Alive
    /\ srv.output
    /\ srv' = WriteCb(OutputGone(srv))

\* The client closed or the socket failed: the error hook, if there is one,
\* then the connection is freed.
SocketError ==
    /\ Alive
    /\ srv' = ConnectionFree(IF srv.hooks = NoReq THEN srv ELSE UpstreamError(srv))

\* The connection is gone, or nothing can be said any more.
Over == ~Alive /\ UNCHANGED srv

Next ==
    \/ \E keepalive \in BOOLEAN : RequestStart(keepalive)
    \/ RequestComplete
    \/ ParserError
    \/ \E r \in Reqs : DrainSome(r)
    \/ DrainAll
    \/ SocketError
    \/ Over

Spec == Init /\ [][Next]_srv

\* A client that waits for a reply reads it: the server sets no timeout, so
\* nothing else moves a reply on.
FairSpec == Spec /\ WF_srv(DrainAll)

------------------------------------------------------------------------------
(* Properties                                                              *)

\* "Only free when the refcnt == 0": a struct req is counted once for the
\* request whose hooks refer to it and once for every piece of its buffer in
\* the output, whichever of the error hook, the fini hook and the evbuffers'
\* clean-up comes last.  It is freed neither early nor never.
RefcountExact ==
    \A r \in Reqs :
        srv.req[r].refcnt = srv.refs[r] + (IF srv.hooks = r THEN 1 ELSE 0)

\* A connection that is gone, however it went, leaves no struct req behind.
NothingLeaks ==
    srv.conn = "closed" => \A r \in Reqs : srv.req[r] = FreeReq

\* A reply is ended when all of it was written and not before; one that is not
\* yet ended has its write hook set and bytes in the output, so that the write
\* callback will be called for the next piece.
ReplyWhole ==
    /\ srv.request = "finished" /\ srv.hooks # NoReq =>
         srv.req[srv.hooks].ofs = srv.req[srv.hooks].size
    /\ srv.request = "replying" =>
         /\ srv.hooks # NoReq /\ srv.on_write = srv.hooks /\ srv.output
         /\ srv.req[srv.hooks].req
         /\ srv.req[srv.hooks].ofs < srv.req[srv.hooks].size

\* Between callbacks the write hook refers to the struct req of the reply in
\* progress or to none; nothing freed is ever used.  Unless a reply buffer's
\* malloc has failed: then the hook of a request without a type stays.
WriteHookValid ==
    \/ srv.buf_failed
    \/ /\ srv.on_write = (IF srv.request = "replying" THEN srv.hooks ELSE NoReq)
       /\ ~srv.undefined

\* "Only free when the refcnt == 0" read as a promise about users of a struct
\* req: none is used after it is freed.
NoUseOfFreedReq == ~srv.undefined

\* A reply in progress is finished, or the connection closed, if the client
\* reads: every piece leads to the next one.
ReplyEnds == srv.request = "replying" ~> srv.request # "replying"
==============================================================================
