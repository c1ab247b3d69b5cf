------------------------------- MODULE Session -------------------------------
(***************************************************************************)
(* Two nghttp2 sessions, a client's and a server's, on one connection      *)
(* (nghttp2/lib/nghttp2_session.c with this repository's edits): outbound  *)
(* queues, frame preparation, what sending and receiving a frame does to   *)
(* the stream table, concurrency limits, RST_STREAM, server push and       *)
(* GOAWAY.  Each direction of the connection is a reliable FIFO.           *)
(*                                                                         *)
(* Abstractions: a response has one DATA frame or none; a request has no   *)
(* body and there are no trailers; the priority tree is a free choice      *)
(* among the streams with DATA; windows never block; push is enabled; the  *)
(* peer sends what this library sends, so no frame is malformed.           *)
(***************************************************************************)
EXTENDS StreamTable

CONSTANTS Requests,       (* how many requests the client submits          *)
          Pushes,         (* how many promises the server submits          *)
          ClientResets,   (* how many RST_STREAM the applications submit   *)
          ServerResets,
          ClientMax,      (* SETTINGS_MAX_CONCURRENT_STREAMS of each side  *)
          ServerMax,
          Terminators,    (* the sides that may terminate the session, and *)
          Leavers         (* those that may only announce a GOAWAY         *)

Endpoints == {"client", "server"}

ASSUME SessionAssumption ==
  /\ Requests \in Nat /\ 2 * Requests - 1 <= MaxStreamId
  /\ Pushes \in Nat /\ 2 * Pushes <= MaxStreamId
  /\ ClientResets \in Nat /\ ServerResets \in Nat
  /\ ClientMax \in Nat /\ ServerMax \in Nat
  /\ Terminators \subseteq Endpoints /\ Leavers \subseteq Endpoints

Srv(e)    == e = "server"
Peer(e)   == IF e = "client" THEN "server" ELSE "client"
MaxOf(e)  == IF e = "client" THEN ClientMax ELSE ServerMax
Resets(e) == IF e = "client" THEN ClientResets ELSE ServerResets
(* the last identifier each side's application may allot *)
LastId(e) == IF e = "client" THEN 2 * Requests - 1 ELSE 2 * Pushes

(* The initial limit, 100 at a peer and 2^32 - 1 locally, is never reached *)
(* by the few streams of a model.                                          *)
NoLimit == MaxStreamId + 1

FrameTypes == {"HEADERS", "PUSH_PROMISE", "DATA", "RST_STREAM",
               "SETTINGS", "SETTINGS_ACK", "GOAWAY"}
Codes      == {"NO_ERROR", "CANCEL", "REFUSED_STREAM", "INTERNAL_ERROR"}

(* end: END_STREAM, or on GOAWAY the aux flag TERM_ON_SEND.                *)
(* arg: the promised stream, the last stream of a GOAWAY, the limit of     *)
(* SETTINGS.                                                               *)
Frame == [type : FrameTypes, id : 0 .. MaxStreamId, end : BOOLEAN, arg : Nat, code : Codes]
F(type, id, end, arg, code) ==
  [type |-> type, id |-> id, end |-> end, arg |-> arg, code |-> code]

Headers(id, end)       == F("HEADERS", id, end, 0, "NO_ERROR")
PushPromise(id, child) == F("PUSH_PROMISE", id, FALSE, child, "NO_ERROR")
Data(id)               == F("DATA", id, TRUE, 0, "NO_ERROR")
Rst(id, code)          == F("RST_STREAM", id, FALSE, 0, code)
Settings(max)          == F("SETTINGS", 0, FALSE, max, "NO_ERROR")
SettingsAck            == F("SETTINGS_ACK", 0, FALSE, 0, "NO_ERROR")
Goaway(last, term)     == F("GOAWAY", 0, term, last, "NO_ERROR")

GoawayFlags == {"TERM_ON_SEND", "TERM_SENT", "SENT", "RECV"}

(* Why a session ends itself with a connection error.                      *)
ConnErrors == {"none", "client received request", "HEADERS: stream closed",
               "max concurrent streams exceeded", "RST_STREAM: stream in idle",
               "PUSH_PROMISE: invalid promised_stream_id",
               "PUSH_PROMISE: stream in idle", "PUSH_PROMISE: stream closed",
               "GOAWAY: invalid last_stream_id", "DATA: stream in idle",
               "DATA: stream closed", "DATA: stream not opened"}

(* The assertions of the library that a run could fail.                    *)
Asserts == {"none", "ob_syn holds HEADERS", "stream ids increase"}

(* What each queue and each direction of the connection may hold.          *)
UrgFrames    == {f \in Frame : f.type \in {"SETTINGS", "SETTINGS_ACK"} /\ f.id = 0}
RegFrames(e) == {f \in Frame :
  \/ f.type = "GOAWAY" /\ f.id = 0 /\ f.arg <= MaxStreamId
  \/ f.type = "HEADERS" /\ f.id \in StreamIds /\ (e = "client" => IsMine(FALSE, f.id))
  \/ /\ f.type = "PUSH_PROMISE" /\ e = "server"
     /\ f.id \in StreamIds /\ f.arg \in StreamIds /\ IsMine(TRUE, f.arg)}
SynFrames    == {f \in Frame : f.type = "RST_STREAM" /\ f.id \in StreamIds}
DataFrames   == {f \in Frame : f.type = "DATA" /\ f.id \in StreamIds}

Queues(e)   == [urg : Seq(UrgFrames), reg : Seq(RegFrames(e)), syn : Seq(SynFrames)]
FramesTo(e) == UrgFrames \cup RegFrames(Peer(e)) \cup SynFrames \cup DataFrames

Conn == [nextId     : Nat,                  (* next_stream_id              *)
         lastRecv   : 0 .. MaxStreamId,     (* last_recv_stream_id         *)
         lastSent   : 0 .. MaxStreamId,     (* last_sent_stream_id         *)
         lastProc   : 0 .. MaxStreamId,     (* last_proc_stream_id         *)
         localLast  : 0 .. MaxStreamId,     (* local_last_stream_id        *)
         remoteLast : 0 .. MaxStreamId,     (* remote_last_stream_id       *)
         goaway     : SUBSET GoawayFlags,   (* goaway_flags                *)
         localMax   : Nat,                  (* local max_concurrent_streams*)
         pendingMax : Nat,                  (* pending_local_max_...       *)
         remoteMax  : Nat,                  (* remote max_concurrent_...   *)
         err        : ConnErrors,
         abort      : Asserts,              (* a failed assert() ends the  *)
         up         : BOOLEAN]              (* process                     *)

(* What the applications saw and did; the library does not keep it.        *)
Log == [seen      : SUBSET StreamIds,   (* streams handed to the application *)
        responded : SUBSET StreamIds,   (* responses the application submitted *)
        ended     : SUBSET StreamIds,   (* END_STREAM or RST_STREAM went out *)
        why       : [StreamIds -> Codes \cup {"open"}],  (* on_stream_close *)
        resets    : Nat,                (* RST_STREAM submitted by the application *)
        closing   : BOOLEAN]            (* it submitted its GOAWAY *)

VARIABLES table,   (* table[e]: the stream map of session e                 *)
          queue,   (* queue[e]: ob_urgent, ob_reg, ob_syn                   *)
          conn,    (* conn[e]: the rest of the session                      *)
          wire,    (* wire[e]: the frames on their way to e                 *)
          log

vars == <<table, queue, conn, wire, log>>

Init ==
  /\ table = [e \in Endpoints |-> EmptyTable]
  /\ queue = [e \in Endpoints |->
                [urg |-> <<Settings(MaxOf(e))>>, reg |-> << >>, syn |-> << >>]]
  /\ conn  = [e \in Endpoints |->
                [nextId     |-> IF e = "client" THEN 1 ELSE 2,
                 lastRecv   |-> 0, lastSent |-> 0, lastProc |-> 0,
                 localLast  |-> MaxStreamId, remoteLast |-> MaxStreamId,
                 goaway     |-> {},
                 localMax   |-> NoLimit, pendingMax |-> MaxOf(e), remoteMax |-> NoLimit,
                 err |-> "none", abort |-> "none", up |-> TRUE]]
  /\ wire  = [e \in Endpoints |-> << >>]
  /\ log   = [e \in Endpoints |->
                [seen |-> {}, responded |-> {}, ended |-> {},
                 why |-> [id \in StreamIds |-> "open"], resets |-> 0, closing |-> FALSE]]

-----------------------------------------------------------------------------
(* Predicates on one session: t its table, q its queues, c its conn.       *)

WantRead(t, c) ==
  /\ "TERM_SENT" \notin c.goaway
  /\ LiveStreams(t) # {} \/ c.goaway \cap {"SENT", "RECV"} = {}

AtMax(t, c) == c.remoteMax <= t.out

WantWrite(t, q, c) ==
  /\ c.goaway \cap {"TERM_SENT", "SENT", "RECV"} = {}
  /\ \/ q.urg # << >> \/ q.reg # << >> \/ t.item # {}
     \/ q.syn # << >> /\ ~AtMax(t, c)

IsClosing(t, q, c) == "TERM_ON_SEND" \in c.goaway \/ ~(WantRead(t, c) \/ WantWrite(t, q, c))

(* Mutant: requests are accepted until the final GOAWAY is really sent. *)
AllowIncoming_UntilSent(c) == "SENT" \notin c.goaway

AllowIncoming(c) == c.goaway \cap {"TERM_ON_SEND", "SENT"} = {}

(* Mutant: the last stream counts as idle. *)
IsIdle_OffByOne(e, id) == id >= (IF IsMine(Srv(e), id) THEN conn[e].lastSent ELSE conn[e].lastRecv)

IsIdle(e, id) == id > (IF IsMine(Srv(e), id) THEN conn[e].lastSent ELSE conn[e].lastRecv)

(* A session runs until it drops the connection or its process aborts.     *)
Running(e) == conn[e].up /\ conn[e].abort = "none"

-----------------------------------------------------------------------------
(* Updates shared by the handlers.                                         *)

SetTable(e, t) == table' = [table EXCEPT ![e] = t]
SetConn(e, c)  == conn' = [conn EXCEPT ![e] = c]

(* on_stream_close_callback for every stream of e that this step closes    *)
ClosedWith(e, code) ==
  [log EXCEPT ![e].why = [id \in StreamIds |->
     IF Live(table[e], id) /\ ~Live(table'[e], id) THEN code ELSE @[id]]]

(* nghttp2_session_add_item for RST_STREAM: what it does to the table.     *)
MarkClosing(t, id) == IF Live(t, id) THEN SetState(t, id, "CLOSING") ELSE t

(* Mutant: the error code the caller gave is lost. *)
AddRst_LosesCode(t, q, id, code) ==
  IF t.st[id] = "CLOSING" THEN q ELSE [q EXCEPT !.syn = Append(@, Rst(id, "REFUSED_STREAM"))]

(* nghttp2_session_add_rst_stream for a queue that is not asked to cancel  *)
(* a request of this client.                                               *)
AddRst(t, q, id, code) ==
  IF t.st[id] = "CLOSING" THEN q ELSE [q EXCEPT !.syn = Append(@, Rst(id, code))]

(* nghttp2_session_add_goaway                                              *)
AddGoaway(q, c, last, term) ==
  [q EXCEPT !.reg = Append(@, Goaway(IF last < c.localLast THEN last ELSE c.localLast, term))]

(* session_terminate_session                                               *)
Terminate(e, c, why) ==
  IF "TERM_ON_SEND" \in c.goaway
  THEN SetConn(e, c) /\ UNCHANGED queue
  ELSE /\ SetConn(e, [c EXCEPT !.goaway = @ \cup {"TERM_ON_SEND"}, !.err = why])
       /\ queue' = [queue EXCEPT ![e] = AddGoaway(@, c, c.lastProc, TRUE)]

-----------------------------------------------------------------------------
(* The application's calls.                                                *)

(* nghttp2_submit_request without a body *)
SubmitRequest ==
  LET c == conn["client"] IN
  /\ Running("client") /\ c.nextId <= LastId("client")
  /\ SetConn("client", [c EXCEPT !.nextId = @ + 2])
  /\ queue' = [queue EXCEPT !["client"].reg = Append(@, Headers(c.nextId, TRUE))]
  /\ UNCHANGED <<table, wire, log>>

(* nghttp2_submit_push_promise on a stream the server is serving *)
SubmitPush(parent) ==
  LET c == conn["server"] IN
  /\ Running("server") /\ c.nextId <= LastId("server")
  /\ ~IsMine(TRUE, parent) /\ Live(table["server"], parent)
  /\ SetConn("server", [c EXCEPT !.nextId = @ + 2])
  /\ SetTable("server", OpenStream(table["server"], TRUE, c.nextId, "RESERVED"))
  /\ queue' = [queue EXCEPT !["server"].reg = Append(@, PushPromise(parent, c.nextId))]
  /\ UNCHANGED <<wire, log>>

(* nghttp2_submit_response: for a request once it is delivered, for a      *)
(* promised stream once its PUSH_PROMISE was sent.                         *)
SubmitResponse(id, end) ==
  /\ Running("server") /\ Live(table["server"], id)
  /\ IF IsMine(TRUE, id) THEN id <= conn["server"].lastSent ELSE id \in log["server"].seen
  /\ id \notin log["server"].responded
  /\ queue' = [queue EXCEPT !["server"].reg = Append(@, Headers(id, end))]
  /\ log' = [log EXCEPT !["server"].responded = @ \cup {id}]
  /\ UNCHANGED <<table, conn, wire>>

(* nghttp2_submit_rst_stream, nghttp2_session_add_rst_stream.  A client    *)
(* may also reset a request of its own that is still queued.               *)
SubmitRst(e, id) ==
  /\ Running(e) /\ log[e].resets < Resets(e)
  /\ \/ Live(table[e], id)
     \/ /\ e = "client" /\ IsMine(FALSE, id)
        /\ id < conn[e].nextId /\ log[e].why[id] = "open"
  /\ log' = [log EXCEPT ![e].resets = @ + 1]
  /\ IF /\ e = "client" /\ IsMine(FALSE, id) /\ table[e].st[id] # "CLOSING"
        /\ queue[e].syn # << >> /\ Head(queue[e].syn).type # "HEADERS"
     THEN SetConn(e, [conn[e] EXCEPT !.abort = "ob_syn holds HEADERS"]) /\ UNCHANGED <<table, queue>>
     ELSE /\ SetTable(e, MarkClosing(table[e], id))
          /\ queue' = [queue EXCEPT ![e] = AddRst(table[e], @, id, "CANCEL")]
          /\ UNCHANGED conn
  /\ UNCHANGED wire

(* nghttp2_session_terminate_session *)
SubmitTerminate(e) ==
  /\ Running(e) /\ e \in Terminators /\ ~log[e].closing
  /\ Terminate(e, conn[e], conn[e].err)
  /\ log' = [log EXCEPT ![e].closing = TRUE]
  /\ UNCHANGED <<table, wire>>

(* nghttp2_submit_goaway with nghttp2_session_get_last_proc_stream_id, as  *)
(* shrpx_http2_upstream.cc shuts a connection down.                        *)
SubmitGoaway(e) ==
  /\ Running(e) /\ e \in Leavers /\ ~log[e].closing
  /\ "TERM_ON_SEND" \notin conn[e].goaway
  /\ queue' = [queue EXCEPT ![e] = AddGoaway(@, conn[e], conn[e].lastProc, FALSE)]
  /\ log' = [log EXCEPT ![e].closing = TRUE]
  /\ UNCHANGED <<table, conn, wire>>

-----------------------------------------------------------------------------
(* Sending: nghttp2_session_pop_next_ob_item, session_prep_frame and       *)
(* session_after_frame_sent1 for one item.                                 *)

UrgReady(e)  == Running(e) /\ queue[e].urg # << >>
RegReady(e)  == Running(e) /\ queue[e].urg = << >> /\ queue[e].reg # << >>
SynReady(e)  == /\ Running(e) /\ queue[e].urg = << >> /\ queue[e].reg = << >>
                /\ queue[e].syn # << >> /\ ~AtMax(table[e], conn[e])
DataReady(e) == /\ Running(e) /\ queue[e].urg = << >> /\ queue[e].reg = << >>
                /\ queue[e].syn = << >> \/ AtMax(table[e], conn[e])

NextReg(e)  == Head(queue[e].reg)
AfterUrg(e) == [queue[e] EXCEPT !.urg = Tail(@)]
AfterReg(e) == [queue[e] EXCEPT !.reg = Tail(@)]
AfterSyn(e) == [queue[e] EXCEPT !.syn = Tail(@)]
SetQueue(e, q) == queue' = [queue EXCEPT ![e] = q]

Transmit(e, f) == wire' = [wire EXCEPT ![Peer(e)] = Append(@, f)]

(* The log of a step of e that sends the last frame of the streams fin.    *)
SentLast(e, code, fin) == [ClosedWith(e, code) EXCEPT ![e].ended = @ \cup fin]

(* A SETTINGS ACK is not sent by a closing session, SETTINGS always is.    *)
SendSettings(e) ==
  LET f == Head(queue[e].urg) IN
  /\ UrgReady(e)
  /\ SetQueue(e, AfterUrg(e))
  /\ IF f.type = "SETTINGS_ACK" /\ IsClosing(table[e], AfterUrg(e), conn[e])
     THEN UNCHANGED wire ELSE Transmit(e, f)
  /\ UNCHANGED <<table, conn, log>>

(* Request HEADERS open the stream before anything is checked; a request   *)
(* that may not be sent any more closes it again as refused.               *)
SendRequest ==
  LET e == "client"  f == NextReg(e)  c == conn[e] IN
  /\ RegReady(e) /\ f.type = "HEADERS"
  /\ SetQueue(e, AfterReg(e))
  /\ IF c.goaway \cap {"RECV", "TERM_ON_SEND"} # {}
     THEN /\ log' = [log EXCEPT ![e].why[f.id] = "REFUSED_STREAM"]
          /\ UNCHANGED <<table, conn, wire>>
     ELSE IF c.lastSent >= f.id
     THEN SetConn(e, [c EXCEPT !.abort = "stream ids increase"]) /\ UNCHANGED <<table, wire, log>>
     ELSE /\ SetTable(e, ShutWr(OpenStream(table[e], FALSE, f.id, "OPENING"), f.id))
          /\ SetConn(e, [c EXCEPT !.lastSent = f.id])
          /\ Transmit(e, f)
          /\ log' = SentLast(e, "NO_ERROR", {f.id})

(* session_predicate_push_response_headers_send for a promised stream,     *)
(* session_predicate_response_headers_send for a request                   *)
MayRespond(t, q, c, id) ==
  /\ ~IsClosing(t, q, c) /\ id \notin t.wr
  /\ \/ t.st[id] = "RESERVED" /\ "RECV" \notin c.goaway
     \/ t.st[id] = "OPENING" /\ ~IsMine(TRUE, id)

(* Mutant: the DATA item of the response is never attached. *)
ResponseSent_NoData(t, id, end) ==
  LET opened == IF t.st[id] = "RESERVED" THEN PushResponseSent(t, id) ELSE SetState(t, id, "OPENED")
  IN IF end THEN CloseIfShut(ShutWr(opened, id), TRUE, id) ELSE opened

ResponseSent(t, id, end) ==
  LET opened == IF t.st[id] = "RESERVED" THEN PushResponseSent(t, id) ELSE SetState(t, id, "OPENED")
  IN IF end THEN CloseIfShut(ShutWr(opened, id), TRUE, id) ELSE Attach(opened, id)

(* Response HEADERS that may not be sent are reset by the asio server's    *)
(* on_frame_not_send_callback.                                             *)
SendResponse ==
  LET e == "server"  f == NextReg(e)  t == table[e] IN
  /\ RegReady(e) /\ f.type = "HEADERS"
  /\ UNCHANGED conn
  /\ \/ /\ MayRespond(t, AfterReg(e), conn[e], f.id)
        /\ SetTable(e, ResponseSent(t, f.id, f.end))
        /\ SetQueue(e, AfterReg(e))
        /\ Transmit(e, f)
        /\ log' = SentLast(e, "NO_ERROR", IF f.end THEN {f.id} ELSE {})
     \/ /\ ~MayRespond(t, AfterReg(e), conn[e], f.id)
        /\ SetTable(e, MarkClosing(t, f.id))
        /\ SetQueue(e, AddRst(t, AfterReg(e), f.id, "INTERNAL_ERROR"))
        /\ UNCHANGED <<wire, log>>

(* Mutant: the state of the associated stream is not looked at. *)
MayPromise_AnyParent(t, q, c, parent) == ~IsClosing(t, q, c) /\ "RECV" \notin c.goaway

(* session_predicate_push_promise_send                                     *)
MayPromise(t, q, c, parent) ==
  /\ Live(t, parent) /\ ~IsClosing(t, q, c) /\ parent \notin t.wr
  /\ t.st[parent] # "CLOSING" /\ "RECV" \notin c.goaway

(* A PUSH_PROMISE that may not be sent closes the stream it reserved.      *)
SendPromise ==
  LET e == "server"  f == NextReg(e)  t == table[e]  c == conn[e] IN
  /\ RegReady(e) /\ f.type = "PUSH_PROMISE"
  /\ SetQueue(e, AfterReg(e))
  /\ IF ~MayPromise(t, AfterReg(e), c, f.id)
     THEN /\ SetTable(e, CloseStream(t, TRUE, f.arg))
          /\ log' = ClosedWith(e, "INTERNAL_ERROR")
          /\ UNCHANGED <<conn, wire>>
     ELSE IF c.lastSent + 2 > f.arg
     THEN SetConn(e, [c EXCEPT !.abort = "stream ids increase"]) /\ UNCHANGED <<table, wire, log>>
     ELSE SetConn(e, [c EXCEPT !.lastSent = f.arg]) /\ Transmit(e, f) /\ UNCHANGED <<table, log>>

(* session_close_stream_on_goaway                                          *)
CloseOnGoaway(e, last, mine) ==
  CloseStreams(table[e], Srv(e),
               {id \in LiveStreams(table[e]) : IsMine(Srv(e), id) = mine /\ id > last})

(* A sent GOAWAY closes the peer's streams above its last_stream_id.       *)
SendGoaway(e) ==
  LET f == NextReg(e) IN
  /\ RegReady(e) /\ f.type = "GOAWAY"
  /\ SetQueue(e, AfterReg(e))
  /\ SetConn(e, [conn[e] EXCEPT !.localLast = f.arg,
                                !.goaway = @ \cup {"SENT"} \cup (IF f.end THEN {"TERM_SENT"} ELSE {})])
  /\ SetTable(e, CloseOnGoaway(e, f.arg, FALSE))
  /\ log' = ClosedWith(e, IF Srv(e) THEN "REFUSED_STREAM" ELSE "CANCEL")
  /\ Transmit(e, f)

(* The RST_STREAM queue waits while the peer's stream limit is reached.    *)
SendRst(e) ==
  LET f == Head(queue[e].syn) IN
  /\ SynReady(e)
  /\ SetQueue(e, AfterSyn(e))
  /\ IF IsClosing(table[e], AfterSyn(e), conn[e])
     THEN UNCHANGED <<table, wire, log>>
     ELSE /\ SetTable(e, CloseStream(table[e], Srv(e), f.id))
          /\ Transmit(e, f)
          /\ log' = SentLast(e, f.code, {f.id})
  /\ UNCHANGED conn

(* nghttp2_session_predicate_data_send                                     *)
MaySendData(t, q, c, srv, id) ==
  /\ ~IsClosing(t, q, c) /\ id \notin t.wr
  /\ IF IsMine(srv, id) THEN t.st[id] \notin {"CLOSING", "RESERVED"} ELSE t.st[id] = "OPENED"

(* DATA that may not be sent is only detached.                             *)
SendData(e, id) ==
  LET t == table[e] IN
  /\ DataReady(e) /\ id \in t.item
  /\ IF MaySendData(t, queue[e], conn[e], Srv(e), id)
     THEN /\ SetTable(e, CloseIfShut(ShutWr(Detach(t, id), id), Srv(e), id))
          /\ Transmit(e, Data(id))
          /\ log' = SentLast(e, "NO_ERROR", {id})
     ELSE SetTable(e, Detach(t, id)) /\ UNCHANGED <<wire, log>>
  /\ UNCHANGED <<queue, conn>>

-----------------------------------------------------------------------------
(* Receiving.                                                              *)

Arrives(e, type) ==
  /\ Running(e) /\ wire[e] # << >> /\ Head(wire[e]).type = type
  /\ wire' = [wire EXCEPT ![e] = Tail(@)]

NewPeerId(e, id) == ~IsMine(Srv(e), id) /\ conn[e].lastRecv < id

AtLocalMax(t, c)   == c.localMax <= t.in
AtPendingMax(t, c) == c.pendingMax <= t.in

(* The connection error each kind of frame raises, in the code's order.    *)
HeadersError(e, id) ==
  LET t == table[e]  c == conn[e] IN
  IF ~Live(t, id) /\ e = "client"
  THEN IF IsIdle(e, id) THEN "client received request" ELSE "none"
  ELSE IF (~Live(t, id) /\ NewPeerId(e, id)) \/ t.st[id] = "RESERVED"
  THEN IF AtLocalMax(t, c) THEN "max concurrent streams exceeded" ELSE "none"
  ELSE IF id \in t.rd THEN "HEADERS: stream closed" ELSE "none"

DataError(e, id) ==
  LET t == table[e] IN
  IF ~Live(t, id) /\ IsIdle(e, id) THEN "DATA: stream in idle"
  ELSE IF id \in t.rd THEN "DATA: stream closed"
  ELSE IF Live(t, id) /\ IF IsMine(Srv(e), id) THEN t.st[id] \notin {"CLOSING", "OPENED"}
                                                ELSE t.st[id] = "RESERVED"
  THEN "DATA: stream not opened" ELSE "none"

PromiseError(e, parent, child) ==
  LET t == table[e] IN
  IF ~AllowIncoming(conn[e]) THEN "none"
  ELSE IF ~NewPeerId(e, child) THEN "PUSH_PROMISE: invalid promised_stream_id"
  ELSE IF IsIdle(e, parent) THEN "PUSH_PROMISE: stream in idle"
  ELSE IF Live(t, parent) /\ t.st[parent] # "CLOSING" /\ parent \in t.rd
  THEN "PUSH_PROMISE: stream closed" ELSE "none"

ErrorOf(e, f) ==
  CASE f.type = "HEADERS"      -> HeadersError(e, f.id)
    [] f.type = "DATA"         -> DataError(e, f.id)
    [] f.type = "PUSH_PROMISE" -> PromiseError(e, f.id, f.arg)
    [] f.type = "RST_STREAM"   -> IF IsIdle(e, f.id) THEN "RST_STREAM: stream in idle" ELSE "none"
    [] f.type = "GOAWAY"       -> IF (f.arg > 0 /\ ~IsMine(Srv(e), f.arg)) \/ conn[e].remoteLast < f.arg
                                  THEN "GOAWAY: invalid last_stream_id" ELSE "none"
    [] OTHER                   -> "none"

(* session_handle_invalid_connection                                       *)
RecvInvalid(e) ==
  LET f == Head(wire[e])
      c == IF ErrorOf(e, f) = "max concurrent streams exceeded" /\ NewPeerId(e, f.id)
           THEN [conn[e] EXCEPT !.lastRecv = f.id] ELSE conn[e]
  IN /\ Arrives(e, f.type) /\ ErrorOf(e, f) # "none"
     /\ Terminate(e, c, ErrorOf(e, f))
     /\ UNCHANGED <<table, log>>

Accepted(e, type) == Arrives(e, type) /\ ErrorOf(e, Head(wire[e])) = "none"

(* Mutant: any HEADERS or DATA ends the peer's side. *)
PeerEnded_Always(t, srv, id, end) == CloseIfShut(ShutRd(t, id), srv, id)

(* session_end_stream_headers_received, nghttp2_session_on_data_received   *)
PeerEnded(t, srv, id, end) == IF end THEN CloseIfShut(ShutRd(t, id), srv, id) ELSE t

(* nghttp2_session_on_request_headers_received at a server, followed by    *)
(* session_after_header_block_received and the request callback            *)
RecvRequest ==
  LET e == "server"  f == Head(wire[e])  t == table[e]
      c == [conn[e] EXCEPT !.lastRecv = f.id]
  IN /\ Accepted(e, "HEADERS") /\ NewPeerId(e, f.id)
     /\ \/ /\ ~AllowIncoming(c)
           /\ SetConn(e, c)
           /\ UNCHANGED <<table, queue, log>>
        \/ /\ AllowIncoming(c) /\ AtPendingMax(t, c)
           /\ SetConn(e, c)
           /\ SetQueue(e, AddRst(t, queue[e], f.id, "REFUSED_STREAM"))
           /\ UNCHANGED <<table, log>>
        \/ /\ AllowIncoming(c) /\ ~AtPendingMax(t, c)
           /\ SetConn(e, [c EXCEPT !.lastProc = f.id])
           /\ SetTable(e, PeerEnded(AdjustClosed(OpenStream(t, TRUE, f.id, "OPENING"),
                            IF c.localMax = NoLimit THEN c.pendingMax ELSE c.localMax),
                          TRUE, f.id, f.end))
           /\ log' = [log EXCEPT ![e].seen = @ \cup {f.id}]
           /\ UNCHANGED queue

(* HEADERS at a client: nghttp2_session_on_response_headers_received,      *)
(* nghttp2_session_on_push_response_headers_received, and HEADERS of a     *)
(* stream that is gone or closing, which are ignored.                      *)
RecvResponse ==
  LET e == "client"  f == Head(wire[e])  t == table[e]  c == conn[e] IN
  /\ Accepted(e, "HEADERS")
  /\ UNCHANGED conn
  /\ \/ /\ t.st[f.id] \in {"NONE", "CLOSING"} \/ (t.st[f.id] = "RESERVED" /\ ~AllowIncoming(c))
        /\ UNCHANGED <<table, queue, log>>
     \/ /\ t.st[f.id] = "RESERVED" /\ AllowIncoming(c) /\ AtPendingMax(t, c)
        /\ SetTable(e, MarkClosing(t, f.id))
        /\ SetQueue(e, AddRst(t, queue[e], f.id, "REFUSED_STREAM"))
        /\ UNCHANGED log
     \/ /\ t.st[f.id] = "RESERVED" /\ AllowIncoming(c) /\ ~AtPendingMax(t, c)
        /\ SetTable(e, PeerEnded(PromiseFulfilled(t, f.id), FALSE, f.id, f.end))
        /\ log' = [ClosedWith(e, "NO_ERROR") EXCEPT ![e].seen = @ \cup {f.id}]
        /\ UNCHANGED queue
     \/ /\ t.st[f.id] \in {"OPENING", "OPENED"}
        /\ SetTable(e, PeerEnded(SetState(t, f.id, "OPENED"), FALSE, f.id, f.end))
        /\ log' = [ClosedWith(e, "NO_ERROR") EXCEPT ![e].seen = @ \cup {f.id}]
        /\ UNCHANGED queue

(* session_on_data_received_fail_fast, nghttp2_session_on_data_received    *)
RecvData(e) ==
  LET f == Head(wire[e])  t == table[e] IN
  /\ Accepted(e, "DATA")
  /\ IF Live(t, f.id) /\ t.st[f.id] # "CLOSING"
     THEN SetTable(e, PeerEnded(t, Srv(e), f.id, f.end)) /\ log' = ClosedWith(e, "NO_ERROR")
     ELSE UNCHANGED <<table, log>>
  /\ UNCHANGED <<queue, conn>>

(* nghttp2_session_on_push_promise_received                                *)
RecvPromise ==
  LET e == "client"  f == Head(wire[e])  t == table[e]  c == conn[e]
      wanted == Live(t, f.id) /\ t.st[f.id] # "CLOSING"
  IN /\ Accepted(e, "PUSH_PROMISE")
     /\ \/ ~AllowIncoming(c) /\ UNCHANGED <<table, queue, conn>>
        \/ /\ AllowIncoming(c) /\ ~wanted
           /\ SetConn(e, [c EXCEPT !.lastRecv = f.arg])
           /\ SetQueue(e, AddRst(t, queue[e], f.arg, "CANCEL"))
           /\ UNCHANGED table
        \/ /\ AllowIncoming(c) /\ wanted
           /\ SetConn(e, [c EXCEPT !.lastRecv = f.arg, !.lastProc = f.arg])
           /\ SetTable(e, OpenStream(t, FALSE, f.arg, "RESERVED"))
           /\ UNCHANGED queue
     /\ UNCHANGED log

(* nghttp2_session_on_rst_stream_received                                  *)
RecvRst(e) ==
  LET f == Head(wire[e]) IN
  /\ Accepted(e, "RST_STREAM")
  /\ SetTable(e, CloseStream(IF Live(table[e], f.id) THEN ShutRd(table[e], f.id) ELSE table[e],
                             Srv(e), f.id))
  /\ log' = ClosedWith(e, f.code)
  /\ UNCHANGED <<queue, conn>>

(* Mutant: the acknowledgement goes to the regular queue. *)
RecvSettings_RegularQueue(e) ==
  /\ Accepted(e, "SETTINGS")
  /\ SetConn(e, [conn[e] EXCEPT !.remoteMax = Head(wire[e]).arg])
  /\ SetQueue(e, [queue[e] EXCEPT !.reg = Append(@, SettingsAck)])
  /\ UNCHANGED <<table, log>>

(* nghttp2_session_on_settings_received, nghttp2_session_update_local_settings *)
RecvSettings(e) ==
  /\ Accepted(e, "SETTINGS")
  /\ SetConn(e, [conn[e] EXCEPT !.remoteMax = Head(wire[e]).arg])
  /\ SetQueue(e, IF IsClosing(table[e], queue[e], conn'[e]) THEN queue[e]
                 ELSE [queue[e] EXCEPT !.urg = Append(@, SettingsAck)])
  /\ UNCHANGED <<table, log>>

RecvSettingsAck(e) ==
  /\ Accepted(e, "SETTINGS_ACK")
  /\ SetConn(e, [conn[e] EXCEPT !.localMax = MaxOf(e), !.pendingMax = MaxOf(e)])
  /\ UNCHANGED <<table, queue, log>>

(* nghttp2_session_on_goaway_received closes this side's streams above     *)
(* the last_stream_id.                                                     *)
RecvGoaway(e) ==
  LET last == Head(wire[e]).arg IN
  /\ Accepted(e, "GOAWAY")
  /\ SetConn(e, [conn[e] EXCEPT !.goaway = @ \cup {"RECV"}, !.remoteLast = last])
  /\ SetTable(e, CloseOnGoaway(e, last, TRUE))
  /\ log' = ClosedWith(e, "CANCEL")
  /\ UNCHANGED queue

(* A session that wants neither to read nor to write drops the connection; *)
(* the peer notices once it has read everything.                           *)
Drop(e) ==
  /\ Running(e)
  /\ \/ ~WantRead(table[e], conn[e]) /\ ~WantWrite(table[e], queue[e], conn[e])
     \/ ~Running(Peer(e)) /\ wire[e] = << >>
  /\ SetConn(e, [conn[e] EXCEPT !.up = FALSE])
  /\ UNCHANGED <<table, queue, wire, log>>

-----------------------------------------------------------------------------

Submit(e) ==
  \/ e = "client" /\ SubmitRequest
  \/ \E id \in StreamIds : e = "server" /\ SubmitPush(id)
  \/ \E id \in StreamIds, end \in BOOLEAN : e = "server" /\ SubmitResponse(id, end)
  \/ \E id \in StreamIds : SubmitRst(e, id)
  \/ SubmitTerminate(e)
  \/ SubmitGoaway(e)

Send(e) ==
  \/ SendSettings(e)
  \/ e = "client" /\ SendRequest
  \/ e = "server" /\ SendResponse
  \/ e = "server" /\ SendPromise
  \/ SendGoaway(e)
  \/ SendRst(e)
  \/ \E id \in StreamIds : SendData(e, id)

Recv(e) ==
  \/ RecvInvalid(e)
  \/ e = "server" /\ RecvRequest
  \/ e = "client" /\ RecvResponse
  \/ RecvData(e)
  \/ e = "client" /\ RecvPromise
  \/ RecvRst(e)
  \/ RecvSettings(e)
  \/ RecvSettingsAck(e)
  \/ RecvGoaway(e)

Next == \E e \in Endpoints : Submit(e) \/ Send(e) \/ Recv(e) \/ Drop(e)

Spec == Init /\ [][Next]_vars

(* The event loops keep reading and writing while the connection is up, and *)
(* the server's application answers every request it is given.             *)
Answer == \E id \in StreamIds, end \in BOOLEAN : SubmitResponse(id, end)
FairSpec == /\ Spec /\ WF_vars(Answer)
            /\ \A e \in Endpoints : WF_vars(Send(e)) /\ WF_vars(Recv(e)) /\ WF_vars(Drop(e))
=============================================================================
