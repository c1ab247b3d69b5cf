------------------------------ MODULE Streaming ------------------------------
(***************************************************************************)
(* One viewer: the adaptive client (testbed/Proposed.cc) and the push      *)
(* server (Server/server_KPush.cpp on nghttp2/src/asio_server_*.cc) on the *)
(* two sessions of module Session.                                         *)
(*                                                                         *)
(* The client asks /req_vod/, the server pushes the segment on the open    *)
(* request and answers the request when the pushed stream has closed.      *)
(* The callbacks of a session call run before the call returns: todo[e]    *)
(* holds them, and e does nothing else until it is empty.                  *)
(*                                                                         *)
(* Abstractions: the server's other connections are reduced to what they   *)
(* do to server_seg; rates, throughput and the delay before a request are  *)
(* left out (a delay only postpones a step).                               *)
(***************************************************************************)
EXTENDS SessionProperties

CONSTANTS Segments,   (* NUM_OF_SEGS                                       *)
          Num,        (* the client's num=, segments asked for per request *)
          Others      (* how many pushes other connections complete        *)

ASSUME StreamingAssumption == Segments \in Nat \ {0} /\ Num \in Nat /\ Others \in Nat

Events == {"begin", "promise sent", "close"} \X StreamIds

VARIABLES todo,      (* todo[e]: callbacks the last session call of e made *)
          server,    (* the stream objects of asio and the globals of KPush *)
          client     (* the globals and the request list of the client     *)

allVars == <<vars, todo, server, client>>

(* NONE: not in http2_handler::streams_.                                   *)
ResponseStates == {"NONE", "INITIAL", "BODY_STARTED"}

StreamingInit ==
  /\ Init
  /\ todo   = [e \in Endpoints |-> {}]
  /\ server = [seg    |-> 0,                                (* server_seg  *)
               others |-> 0, read |-> -1,   (* another thread's update of it *)
               res    |-> [id \in StreamIds |-> "NONE"],    (* state_      *)
               parent |-> [id \in StreamIds |-> 0],         (* captured res *)
               pushed |-> << >>,           (* the segments named in promises *)
               freed  |-> FALSE]           (* used a destroyed response    *)
  /\ client = [started |-> FALSE, index |-> 0,      (* dang_seg_index      *)
               complete |-> 0, reqs |-> 0,          (* reqvec.size()       *)
               measured |-> {}]                     (* dang_thrp written   *)

-----------------------------------------------------------------------------
(* The library's steps and the callbacks they make.                        *)

Closes(e) == {id \in StreamIds : Live(table[e], id) /\ ~Live(table'[e], id)}
Begins(e) == {id \in StreamIds : ~IsMine(Srv(e), id) /\ ~Live(table[e], id) /\ Live(table'[e], id)}
Promises(e) == {id \in StreamIds : Transmits(e) /\ Transmitted(e).type = "PUSH_PROMISE"
                                   /\ Transmitted(e).arg = id}

Library(e) ==
  /\ todo[e] = {}
  /\ Send(e) \/ Recv(e) \/ Drop(e)
  /\ todo' = [todo EXCEPT ![e] = {<<"close", id>> : id \in Closes(e)}
                            \cup {<<"begin", id>> : id \in Begins(e)}
                            \cup {<<"promise sent", id>> : id \in Promises(e)}]
  /\ UNCHANGED <<server, client>>

Callback(e, kind, id) ==
  /\ <<kind, id>> \in todo[e]
  /\ todo' = [todo EXCEPT ![e] = @ \ {<<kind, id>>}]

-----------------------------------------------------------------------------
(* The server.                                                             *)

(* The /req_vod/ handler, push_file and push_remaining_files: one push     *)
(* whatever num says; with num 0 the request is left without an answer.    *)
(* write_head and end of the pushed response wait for its promise.         *)
ReqVod(id) ==
  /\ Callback("server", "begin", id)
  /\ IF Num = 0
     THEN server' = [server EXCEPT !.res[id] = "INITIAL"] /\ UNCHANGED vars
     ELSE LET push == conn["server"].nextId IN
          /\ SubmitPush(id)
          /\ server' = [server EXCEPT !.res    = [@ EXCEPT ![id] = "INITIAL", ![push] = "BODY_STARTED"],
                                      !.parent[push] = id,
                                      !.pushed = Append(@, server.seg + 1)]
  /\ UNCHANGED client

(* Mutant: the request is answered together with the pushed response.      *)
PromiseSent_AnswersRequest(id) ==
  LET both == <<id, server.parent[id]>> IN
  /\ Callback("server", "promise sent", id)
  /\ queue' = [queue EXCEPT !["server"].reg = @ \o [i \in 1 .. 2 |-> Headers(both[i], FALSE)]]
  /\ log' = [log EXCEPT !["server"].responded = @ \cup {both[1], both[2]}]
  /\ server' = [server EXCEPT !.res[both[2]] = "BODY_STARTED"]
  /\ UNCHANGED <<table, conn, wire, client>>

(* on_frame_send_callback, response_impl::push_promise_sent                *)
PromiseSent(id) ==
  /\ Callback("server", "promise sent", id)
  /\ IF server.res[id] = "BODY_STARTED" THEN SubmitResponse(id, FALSE) ELSE UNCHANGED vars
  /\ UNCHANGED <<server, client>>

(* A pushed stream that closed without error was a segment.  Mutant: the   *)
(* test of the error code is inverted.                                     *)
Counted_Inverted(seg, sent) == IF sent THEN seg ELSE seg + 1
Counted(seg, sent) == IF sent THEN seg + 1 ELSE seg

(* The close callback of push_remaining_files: it counts the segment and   *)
(* answers the request whose response it captured as a raw pointer.        *)
PushClosed(id) ==
  LET parent == server.parent[id]
      sent   == log["server"].why[id] = "NO_ERROR"
      res    == [server.res EXCEPT ![id] = "NONE"]
      after  == [server EXCEPT !.seg = Counted(@, sent), !.res = res]
  IN /\ Callback("server", "close", id) /\ parent # 0
     /\ IF server.res[parent] = "INITIAL"
        THEN SubmitResponse(parent, FALSE) /\ server' = [after EXCEPT !.res[parent] = "BODY_STARTED"]
        ELSE UNCHANGED vars /\ server' = [after EXCEPT !.freed = @ \/ server.res[parent] = "NONE"]
     /\ UNCHANGED client

(* Mutant: the stream object is not erased.                                *)
AnswerClosed_KeepsStream(id) ==
  /\ Callback("server", "close", id) /\ server.parent[id] = 0
  /\ UNCHANGED <<server, vars, client>>

(* on_stream_close_callback of a request: its response is destroyed.       *)
AnswerClosed(id) ==
  /\ Callback("server", "close", id) /\ server.parent[id] = 0
  /\ server' = [server EXCEPT !.res[id] = "NONE"]
  /\ UNCHANGED <<vars, client>>

(* server_seg is shared by the ten threads of the server without a lock:   *)
(* another connection's update reads it and writes it back later.          *)
OtherReads ==
  /\ server.others < Others /\ server.read = -1
  /\ server' = [server EXCEPT !.read = server.seg]
  /\ UNCHANGED <<vars, todo, client>>

OtherWrites ==
  /\ server.read # -1
  /\ server' = [server EXCEPT !.seg = server.read + 1, !.read = -1, !.others = @ + 1]
  /\ UNCHANGED <<vars, todo, client>>

-----------------------------------------------------------------------------
(* The client.                                                             *)

(* HttpClient::connection_made submits the request of the command line.    *)
Start ==
  /\ ~client.started
  /\ SubmitRequest
  /\ client' = [client EXCEPT !.started = TRUE, !.reqs = @ + 1]
  /\ UNCHANGED <<todo, server>>

(* on_begin_headers_callback makes a Request of a promise.                 *)
PromiseBegins(id) ==
  /\ Callback("client", "begin", id)
  /\ client' = [client EXCEPT !.reqs = @ + 1]
  /\ UNCHANGED <<vars, server>>

(* on_stream_close_callback does not look at the error code.  The close of *)
(* a pushed stream is the measurement of the current segment.              *)
AllProcessed(c) == c.complete = c.reqs

TerminateIf(done) == IF done THEN SubmitTerminate("client") ELSE UNCHANGED vars

SegmentClosed(id) ==
  LET c == [client EXCEPT !.complete = @ + 1, !.measured = @ \cup {client.index}] IN
  /\ Callback("client", "close", id) /\ IsMine(TRUE, id)
  /\ client' = c
  /\ TerminateIf(AllProcessed(c))
  /\ UNCHANGED server

(* Mutant: the last segment is tested one too late.                        *)
RequestClosed_OffByOne(id) ==
  /\ Callback("client", "close", id) /\ IsMine(FALSE, id)
  /\ \/ /\ client.index < Segments
        /\ SubmitRequest
        /\ client' = [client EXCEPT !.complete = @ + 1, !.index = @ + 1, !.reqs = @ + 1]
     \/ /\ client.index = Segments
        /\ client' = [client EXCEPT !.complete = @ + 1]
        /\ TerminateIf(AllProcessed(client'))
  /\ UNCHANGED server

(* The close of a request runs hung_KPush_method: the next request, unless *)
(* this was the last segment.                                              *)
RequestClosed(id) ==
  /\ Callback("client", "close", id) /\ IsMine(FALSE, id)
  /\ \/ /\ client.index < Segments - 1
        /\ SubmitRequest
        /\ client' = [client EXCEPT !.complete = @ + 1, !.index = @ + 1, !.reqs = @ + 1]
     \/ /\ client.index = Segments - 1
        /\ client' = [client EXCEPT !.complete = @ + 1]
        /\ TerminateIf(AllProcessed(client'))
  /\ UNCHANGED server

-----------------------------------------------------------------------------

ServerCallback(id) == ReqVod(id) \/ PromiseSent(id) \/ PushClosed(id) \/ AnswerClosed(id)
ClientCallback(id) == PromiseBegins(id) \/ SegmentClosed(id) \/ RequestClosed(id)

StreamingNext ==
  \/ Start
  \/ OtherReads \/ OtherWrites
  \/ \E e \in Endpoints : Library(e)
  \/ \E id \in StreamIds : ServerCallback(id) \/ ClientCallback(id)

(* The event loops of both programs run; a callback always returns.        *)
StreamingSpec ==
  /\ StreamingInit /\ [][StreamingNext]_allVars
  /\ WF_allVars(Start)
  /\ \A e \in Endpoints : WF_allVars(Library(e))
  /\ WF_allVars(\E id \in StreamIds : ServerCallback(id))
  /\ WF_allVars(\E id \in StreamIds : ClientCallback(id))

-----------------------------------------------------------------------------
(* What the viewer may rely on.                                            *)

(* The system implements SegmentFetch: a request asks, the close of the    *)
(* pushed stream delivers, and the client's termination is the end.        *)
(* hung_KPush_method reads the measurement of the segment the request was  *)
(* for, so the pushed stream must have closed before its request does.     *)
Player == INSTANCE SegmentFetch WITH
            asked <- IF client.started THEN client.index + 1 ELSE 0,
            got   <- Cardinality(client.measured),
            over  <- "TERM_ON_SEND" \in conn["client"].goaway

FetchesInOrder == Player!Fetch

(* push_remaining_files captures the request's response as a raw pointer,  *)
(* and the close callback of the pushed stream writes through it: the      *)
(* response must not have been destroyed by the close of the request.      *)
ResponseOutlivesPush == ~server.freed

(* As long as no other connection moved server_seg, the names pushed to a  *)
(* viewer are seg_1, seg_2, ...: the last push has been counted before the *)
(* next request is handled, and a push is counted once.                    *)
NamesInOrder == server.others = 0 => \A i \in DOMAIN server.pushed : server.pushed[i] = i

(* When both programs have closed the connection the server holds no       *)
(* stream object any more, and the client counted every stream it opened.  *)
NothingLeft ==
  (\A e \in Endpoints : ~Running(e) /\ todo[e] = {}) =>
    /\ \A id \in StreamIds : server.res[id] = "NONE"
    /\ AllProcessed(client)
=============================================================================
