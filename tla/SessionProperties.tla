-------------------------- MODULE SessionProperties --------------------------
(***************************************************************************)
(* What the two sessions of module Session promise: to each other, to      *)
(* their applications, and about their own counters.                       *)
(***************************************************************************)
EXTENDS Session

(* Every variable holds values of its type. *)
TypeOK ==
  /\ table \in [Endpoints -> Table]
  /\ queue \in [Endpoints -> Queues("client") \cup Queues("server")]
  /\ conn  \in [Endpoints -> Conn]
  /\ wire  \in [Endpoints -> Seq(FramesTo("client")) \cup Seq(FramesTo("server"))]
  /\ log   \in [Endpoints -> Log]
  /\ \A e \in Endpoints : queue[e] \in Queues(e) /\ wire[e] \in Seq(FramesTo(e))

-----------------------------------------------------------------------------
(* The stream counters                                                     *)

(* The three stream counters, which the library moves by hand in           *)
(* nghttp2_session_open_stream, _close_stream, the push-response branches  *)
(* of sending and receiving HEADERS, equal the number of streams in memory *)
(* they stand for, whatever order streams are opened, reset, refused,      *)
(* fulfilled or closed by GOAWAY in.                                       *)
CountersExact == \A e \in Endpoints : CountsMatch(table[e], Srv(e))

(* What makes CountersExact inductive: every stream an end knows of was    *)
(* announced: an own one was submitted (server) or sent (client), a peer's *)
(* one received, so that no identifier is opened twice.                    *)
Announced(e, c, id) ==
  IF ~IsMine(Srv(e), id) THEN id <= c.lastRecv
  ELSE IF e = "client" THEN id <= c.lastSent ELSE id < c.nextId

IdsAnnounced ==
  /\ \A e \in Endpoints : /\ TableShape(table[e])
                          /\ \A id \in StreamIds : Known(table[e], id) => Announced(e, conn[e], id)
  /\ conn["client"].nextId % 2 = 1 /\ conn["server"].nextId % 2 = 0
  /\ conn["server"].nextId > 0

(* "retain stream at most MAX_CONCURRENT_STREAMS combined with the current *)
(* active incoming streams" (nghttp2_session_close_stream): closures fill  *)
(* the kept list, only the next accepted request trims it.                 *)
RetainedWithinLimit ==
  \A e \in Endpoints : Len(table[e].kept) + table[e].in <= conn[e].pendingMax

-----------------------------------------------------------------------------
(* What the peers promise each other                                       *)

(* Two sessions of this library never bring each other to a connection     *)
(* error or an assertion, whatever their frames' order and crossing: no    *)
(* HEADERS or DATA on a closed or idle stream, no promise on one, no       *)
(* GOAWAY that raises its last stream.                                     *)
NoFailure == \A e \in Endpoints : conn[e].err = "none" /\ conn[e].abort = "none"

(* With resets one failure is left: an application resets a stream whose   *)
(* HEADERS or PUSH_PROMISE still waits in ob_reg and will not be sent any  *)
(* more, so the RST_STREAM announces a stream the peer never heard of.     *)
OnlyResetOfUnannouncedFails ==
  \A e \in Endpoints : /\ conn[e].err \in {"none", "RST_STREAM: stream in idle"}
                       /\ conn[e].abort = "none"

(* This step of e puts a frame on the wire, and which one.                 *)
Transmits(e)   == Len(wire'[Peer(e)]) > Len(wire[Peer(e)])
Transmitted(e) == Last(wire'[Peer(e)])

(* After END_STREAM or RST_STREAM went out on a stream, no step sends      *)
(* HEADERS, DATA or PUSH_PROMISE on it any more, although responses,       *)
(* promises and DATA for it may still be queued (session_prep_frame).      *)
NothingAfterEnd ==
  [][\A e \in Endpoints :
       Transmits(e) /\ Transmitted(e).id \in log[e].ended
         => Transmitted(e).type = "RST_STREAM"]_vars

(* When every queue and both directions are empty and nobody said GOAWAY,  *)
(* the two ends agree on which streams are open, and no stream either end  *)
(* still considers reserved or closing is left.                            *)
Quiet == /\ \A e \in Endpoints : queue[e] = [urg |-> << >>, reg |-> << >>, syn |-> << >>]
         /\ \A e \in Endpoints : wire[e] = << >> /\ table[e].item = {}
         /\ \A e \in Endpoints : Running(e) /\ conn[e].goaway = {}
QuietAgreement ==
  Quiet => /\ LiveStreams(table["client"]) = LiveStreams(table["server"])
           /\ \A e \in Endpoints, id \in StreamIds : table[e].st[id] # "CLOSING"

-----------------------------------------------------------------------------
(* What the applications may rely on                                       *)

(* on_stream_close with NO_ERROR at the client: the whole response was     *)
(* received, and its END_STREAM was sent by the server.                    *)
CleanCloseIsComplete ==
  \A id \in StreamIds : log["client"].why[id] = "NO_ERROR" =>
    id \in log["client"].seen /\ id \in log["server"].ended

(* REFUSED_STREAM tells the client's application that it "can send request *)
(* again" (nghttp2_session_mem_send_internal): the server's application    *)
(* was never given that request, in whatever order refusals, limits,       *)
(* SETTINGS and GOAWAY crossed.                                            *)
SafeRetry ==
  \A id \in StreamIds : IsMine(FALSE, id) /\ log["client"].why[id] = "REFUSED_STREAM"
                          => id \notin log["server"].seen

(* A request above the last_stream_id of the GOAWAY the client received    *)
(* was never given to the server's application.                            *)
AboveGoawayUnprocessed ==
  \A id \in StreamIds :
    /\ IsMine(FALSE, id) /\ id > conn["client"].remoteLast
    /\ "RECV" \in conn["client"].goaway
    => id \notin log["server"].seen

(* Every stream that is in memory at an end is closed in the end, or the   *)
(* connection is dropped: answered, reset, refused or cut off by GOAWAY.   *)
StreamsEnd ==
  \A e \in Endpoints, id \in StreamIds : Live(table[e], id) ~> ~Live(table[e], id) \/ ~Running(e)

-----------------------------------------------------------------------------
(* What the code or its documents say and the code does not do: the runs   *)
(* named in the README show how each fails.                                *)

(* assert(headers_frame->hd.type == NGHTTP2_HEADERS) in                    *)
(* nghttp2_session_add_rst_stream                                          *)
SynQueueHoldsHeaders == \A e \in Endpoints : conn[e].abort # "ob_syn holds HEADERS"

(* nghttp2.h, nghttp2_submit_rst_stream: "Submits RST_STREAM frame to      *)
(* cancel/reject the stream": a stream marked CLOSING does get closed.     *)
ResetTakesEffect ==
  \A e \in Endpoints, id \in StreamIds :
    table[e].st[id] = "CLOSING" ~> table[e].st[id] # "CLOSING" \/ ~Running(e)
=============================================================================
