---------------------------- MODULE StreamTable ----------------------------
(***************************************************************************)
(* The stream map of one nghttp2_session (nghttp2/lib/nghttp2_session.c):  *)
(* the streams in memory with their state, shutdown flags and attached     *)
(* DATA item, and the four counters the library keeps beside the map.      *)
(*                                                                         *)
(* A table is a value; every operator returns the table the C function     *)
(* leaves behind.  "srv" is session->server.                               *)
(***************************************************************************)
EXTENDS Integers, SequencesExt

CONSTANT MaxStreamId   (* the largest stream identifier: bounds the model *)

ASSUME MaxStreamIdAssumption == MaxStreamId \in Nat

StreamIds == 1 .. MaxStreamId

(* NONE: not in the map.  CLOSED: NGHTTP2_STREAM_FLAG_CLOSED, kept in      *)
(* memory by a server.  INITIAL never outlives one call and IDLE anchors   *)
(* belong to the priority tree.                                            *)
StreamStates == {"NONE", "RESERVED", "OPENING", "OPENED", "CLOSING", "CLOSED"}

Table == [st   : [StreamIds -> StreamStates],
          rd   : SUBSET StreamIds,     (* NGHTTP2_SHUT_RD                  *)
          wr   : SUBSET StreamIds,     (* NGHTTP2_SHUT_WR                  *)
          push : SUBSET StreamIds,     (* NGHTTP2_STREAM_FLAG_PUSH         *)
          item : SUBSET StreamIds,     (* stream->item: DATA to send       *)
          out  : Int,                  (* num_outgoing_streams             *)
          in   : Int,                  (* num_incoming_streams             *)
          res  : Int,                  (* num_incoming_reserved_streams    *)
          kept : Seq(StreamIds)]       (* closed_stream_head .. tail       *)

EmptyTable == [st   |-> [id \in StreamIds |-> "NONE"],
               rd   |-> {}, wr |-> {}, push |-> {}, item |-> {},
               out  |-> 0, in |-> 0, res |-> 0, kept |-> << >>]

(* nghttp2_session_is_my_stream_id *)
IsMine(srv, id) == id % 2 = (IF srv THEN 0 ELSE 1)

(* nghttp2_session_get_stream: in the map and not flagged closed *)
Live(t, id) == t.st[id] \notin {"NONE", "CLOSED"}

LiveStreams(t) == {id \in StreamIds : Live(t, id)}

(* The streams each counter is meant to count. *)
OutgoingSet(t, srv) == {id \in LiveStreams(t) : IsMine(srv, id) /\ id \notin t.push}
IncomingSet(t, srv) == {id \in LiveStreams(t) : ~IsMine(srv, id) /\ id \notin t.push}
ReservedSet(t, srv) == {id \in LiveStreams(t) : ~IsMine(srv, id) /\ id \in t.push}

CountsMatch(t, srv) ==
  /\ t.out = Cardinality(OutgoingSet(t, srv))
  /\ t.in  = Cardinality(IncomingSet(t, srv))
  /\ t.res = Cardinality(ReservedSet(t, srv))

(* PUSH marks promised streams that have not started, only the server's    *)
(* identifiers are reserved, and a kept stream is not live.                *)
TableShape(t) ==
  /\ \A id \in StreamIds : t.st[id] = "RESERVED" => id \in t.push /\ IsMine(TRUE, id)
  /\ \A id \in t.push : t.st[id] \in {"RESERVED", "CLOSING"}
  /\ \A i \in DOMAIN t.kept : ~Live(t, t.kept[i])

Known(t, id) == t.st[id] # "NONE" \/ \E i \in DOMAIN t.kept : t.kept[i] = id

----------------------------------------------------------------------------

(* nghttp2_session_open_stream for an id that is not in the map: a        *)
(* reserved stream is half-closed from the start and not yet counted.      *)
OpenStream(t, srv, id, initial) ==
  IF initial = "RESERVED"
  THEN [t EXCEPT !.st[id] = "RESERVED",
                 !.push   = @ \cup {id},
                 !.rd     = IF IsMine(srv, id) THEN @ \cup {id} ELSE @,
                 !.wr     = IF IsMine(srv, id) THEN @ ELSE @ \cup {id},
                 !.res    = IF IsMine(srv, id) THEN @ ELSE @ + 1]
  ELSE [t EXCEPT !.st[id] = initial,
                 !.out    = IF IsMine(srv, id) THEN @ + 1 ELSE @,
                 !.in     = IF IsMine(srv, id) THEN @ ELSE @ + 1]

SetState(t, id, s) == [t EXCEPT !.st[id] = s]

(* nghttp2_stream_shutdown *)
ShutRd(t, id) == [t EXCEPT !.rd = @ \cup {id}]
ShutWr(t, id) == [t EXCEPT !.wr = @ \cup {id}]

(* nghttp2_stream_attach_item, nghttp2_stream_detach_item *)
Attach(t, id) == [t EXCEPT !.item = @ \cup {id}]
Detach(t, id) == [t EXCEPT !.item = @ \ {id}]

(* nghttp2_session_close_stream for every stream of a set of live streams. *)
(* A server keeps the closed streams its peer opened; everything else is   *)
(* destroyed.  A bulk closure visits the hash map in an order the code     *)
(* does not fix: SetToSeq stands for it.                                   *)
CloseStreams(t, srv, S) ==
  LET keep == {id \in S : srv /\ ~IsMine(srv, id)}
      gone == S \ keep
  IN [st   |-> [id \in StreamIds |-> IF id \in keep THEN "CLOSED"
                                     ELSE IF id \in gone THEN "NONE" ELSE t.st[id]],
      rd   |-> t.rd \ gone,
      wr   |-> t.wr \ gone,
      push |-> t.push \ S,
      item |-> t.item \ S,
      out  |-> t.out - Cardinality(OutgoingSet(t, srv) \cap S),
      in   |-> t.in  - Cardinality(IncomingSet(t, srv) \cap S),
      res  |-> t.res - Cardinality(ReservedSet(t, srv) \cap S),
      kept |-> t.kept \o SetToSeq(keep)]

CloseStream(t, srv, id) == IF Live(t, id) THEN CloseStreams(t, srv, {id}) ELSE t

(* Mutant: one closed direction is enough. *)
ShutRdWr_OneSide(t, id) == id \in t.rd

(* nghttp2_session_close_stream_if_shut_rdwr *)
ShutRdWr(t, id) == id \in t.rd /\ id \in t.wr
CloseIfShut(t, srv, id) == IF ShutRdWr(t, id) THEN CloseStream(t, srv, id) ELSE t

(* Mutant: one stream too many is kept. *)
AdjustClosed_OffByOne(t, max) ==
  LET excess == Len(t.kept) + t.in - max - 1
      n      == IF excess <= 0 THEN 0 ELSE excess
      gone   == {t.kept[i] : i \in 1 .. n}
  IN [t EXCEPT !.st   = [id \in StreamIds |-> IF id \in gone THEN "NONE" ELSE t.st[id]],
               !.rd   = @ \ gone,
               !.wr   = @ \ gone,
               !.kept = SubSeq(@, n + 1, Len(@))]

(* nghttp2_session_adjust_closed_stream: drop the oldest kept streams      *)
(* while kept and incoming streams together exceed the limit.              *)
AdjustClosed(t, max) ==
  LET excess == Len(t.kept) + t.in - max
      n      == IF excess <= 0 THEN 0
                ELSE IF excess < Len(t.kept) THEN excess ELSE Len(t.kept)
      gone   == {t.kept[i] : i \in 1 .. n}
  IN [t EXCEPT !.st   = [id \in StreamIds |-> IF id \in gone THEN "NONE" ELSE t.st[id]],
               !.rd   = @ \ gone,
               !.wr   = @ \ gone,
               !.kept = SubSeq(@, n + 1, Len(@))]

(* Mutants: the pushed stream is not counted; it keeps its PUSH flag. *)
PushResponseSent_NotCounted(t, id) == [t EXCEPT !.push = @ \ {id}, !.st[id] = "OPENED"]
PushResponseSent_KeepsFlag(t, id)  == [t EXCEPT !.out = @ + 1, !.st[id] = "OPENED"]

(* session_after_frame_sent1, NGHTTP2_HCAT_PUSH_RESPONSE: the pushed       *)
(* stream starts to count as outgoing.                                     *)
PushResponseSent(t, id) ==
  [t EXCEPT !.push = @ \ {id}, !.out = @ + 1, !.st[id] = "OPENED"]

(* Mutant: the counters move, the stream stays reserved. *)
PromiseFulfilled_StillReserved(t, id) ==
  [t EXCEPT !.push = @ \ {id}, !.res = @ - 1, !.in = @ + 1]

(* nghttp2_session_on_push_response_headers_received with                  *)
(* nghttp2_stream_promise_fulfilled.                                       *)
PromiseFulfilled(t, id) ==
  [t EXCEPT !.push = @ \ {id}, !.st[id] = "OPENED", !.res = @ - 1, !.in = @ + 1]
=============================================================================
