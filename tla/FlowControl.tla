------------------------------ MODULE FlowControl ------------------------------
(***************************************************************************)
(* Flow control of the responses on one connection: a sender (the server)  *)
(* whose DATA is limited by its copies of the windows, and a receiver (the *)
(* client) that grants them, with WINDOW_UPDATE, SETTINGS and RST_STREAM   *)
(* under way in both directions (nghttp2_session.c, nghttp2_stream.c). The *)
(* other direction is the same code with the roles exchanged.              *)
(*                                                                         *)
(* Abstractions: a stream carries one response, submitted when the request *)
(* arrives, without padding; the priority tree is a free choice; a chunk   *)
(* that mem_recv hands over before its frame is complete is a frame of its *)
(* own; RST_STREAM is not held back by a concurrency limit.                *)
(***************************************************************************)
EXTENDS Window, Sequences, FiniteSets

CONSTANTS NumStreams,     (* requests, numbered in the order of their ids   *)
          ConnSize,       (* NGHTTP2_INITIAL_CONNECTION_WINDOW_SIZE         *)
          StreamSize,     (* NGHTTP2_INITIAL_WINDOW_SIZE                    *)
          Body,           (* bytes of each response                         *)
          MaxFrame,       (* the sender's remote max_frame_size             *)
          Modes,          (* automatic WINDOW_UPDATE or not                 *)
          Initials,       (* what SETTINGS may ask for                      *)
          Tuned,          (* the windows the application changes, and       *)
          NewSizes,       (* to what and by how much                        *)
          Increments,
          Changes,        (* how often the application does any of these    *)
          Cancels         (* how many streams it resets                     *)

Streams  == 1 .. NumStreams
Conn     == 0
Accounts == {Conn} \cup Streams

ASSUME FlowAssumption ==
  /\ NumStreams \in Nat /\ Body \in Nat \ {0} /\ MaxFrame \in Nat \ {0}
  /\ ConnSize \in Sizes /\ StreamSize \in Sizes /\ Initials \subseteq Sizes
  /\ Modes \subseteq BOOLEAN /\ Tuned \subseteq Accounts
  /\ NewSizes \subseteq Sizes /\ Increments \subseteq Int
  /\ \A i \in Increments : i <= MaxWindow /\ -i <= MaxWindow
  /\ Changes \in Nat /\ Cancels \in Nat

VARIABLES auto,       (* not NGHTTP2_OPTMASK_NO_AUTO_WINDOW_UPDATE          *)
          window,     (* the receiver's windows                             *)
          rstate,     (* the receiver's streams                             *)
          lastInitial, inflight,  (* local initial_window_size and          *)
                      (* inflight_settings                                  *)
          rqueue,     (* the receiver's ob_urgent, ob_reg and ob_syn        *)
          held,       (* bytes its application has and has not consumed, of *)
                      (* each stream and together                           *)
          remote,     (* the sender's remote_window_size of each window     *)
          sstate, item, left,     (* its streams, their DATA items and the  *)
                      (* bytes of these                                     *)
          peerInitial,            (* its remote initial_window_size         *)
          squeue,     (* its ob_urgent (ACKs) and ob_syn                    *)
          toSender, toReceiver,   (* the two directions                     *)
          calls,      (* what the application has left to do, and what it   *)
                      (* granted with nghttp2_submit_window_update          *)
          shrunk,     (* history: a smaller initial window was acknowledged *)
          failed      (* history: flow control errors and their occasions   *)

flowVars == <<auto, window, rstate, lastInitial, inflight, rqueue, held, remote, sstate,
              item, left, peerInitial, squeue, toSender, toReceiver, calls, shrunk, failed>>
receiver == <<window, rstate, lastInitial, inflight, rqueue, held, shrunk>>
sender   == <<remote, sstate, item, left, peerInitial, squeue>>

States == {"idle", "queued", "open", "closing", "closed"}
Items  == {"none", "ready", "flow", "user"}   (* DEFERRED_FLOW_CONTROL, _USER *)

Kinds  == {"WINDOW_UPDATE", "HEADERS", "SETTINGS", "RST_STREAM", "ACK", "DATA", "DATA END_STREAM"}
Frames == {f \in [kind : Kinds, of : Accounts, n : Nat] :
             /\ f.kind \notin {"WINDOW_UPDATE", "SETTINGS", "ACK"} => f.of \in Streams
             /\ f.kind = "SETTINGS" => f.n \in Sizes}

Update(a, n)     == [kind |-> "WINDOW_UPDATE", of |-> a, n |-> n]
Headers(s)       == [kind |-> "HEADERS", of |-> s, n |-> 0]
Settings(v)      == [kind |-> "SETTINGS", of |-> Conn, n |-> v]
Rst(s)           == [kind |-> "RST_STREAM", of |-> s, n |-> 0]
Ack              == [kind |-> "ACK", of |-> Conn, n |-> 0]
Data(s, n, end)  == [kind |-> IF end THEN "DATA END_STREAM" ELSE "DATA", of |-> s, n |-> n]

Error(a, when) == <<a, when>>
Occasions      == {"DATA", "sent", "ACK", "WINDOW_UPDATE", "SETTINGS", "consumed"}

FlowInit ==
  /\ auto \in Modes
  /\ window = [a \in Accounts |-> NewWindow(IF a = Conn THEN ConnSize ELSE StreamSize)]
  /\ rstate = [s \in Streams |-> "idle"]
  /\ lastInitial = StreamSize /\ inflight = <<>>
  /\ rqueue = [urgent |-> <<>>, reg |-> <<>>, syn |-> {}]
  /\ held = [a \in Accounts |-> 0]
  /\ remote = [a \in Accounts |-> IF a = Conn THEN ConnSize ELSE StreamSize]
  /\ sstate = [s \in Streams |-> "idle"]
  /\ item = [s \in Streams |-> "none"] /\ left = [s \in Streams |-> Body]
  /\ peerInitial = StreamSize
  /\ squeue = [acks |-> 0, syn |-> {}]
  /\ toSender = <<>> /\ toReceiver = <<>>
  /\ calls = [changes |-> Changes, cancels |-> Cancels, granted |-> 0]
  /\ shrunk = FALSE /\ failed = {}

(* After a connection error the session only says GOAWAY.                  *)
Running == \A when \in Occasions : Error(Conn, when) \notin failed

-----------------------------------------------------------------------------
(* Helpers of the receiver.                                                *)

(* nghttp2_session_get_stream finds streams that are being reset, too.     *)
Known(state, s) == state[s] \in {"open", "closing"}
Usable == {Conn} \cup {s \in Streams : Known(rstate, s)}

(* nghttp2_session_add_window_update                                       *)
Queued(q, a, n) == IF n > 0 THEN Append(q, Update(a, n)) ELSE q
Marked(r) == [r.window EXCEPT !.queued = @ \/ r.grant > 0]

(* The streams are visited in the order of a hash table.                   *)
Orders(S) == {q \in [1 .. Cardinality(S) -> S] :
                \A i, j \in 1 .. Cardinality(S) : q[i] = q[j] => i = j}

(* nghttp2_session_add_rst_stream for the streams in S that are not being  *)
(* reset yet.                                                              *)
ResetState(state, S)    == [s \in Streams |-> IF s \in S /\ Known(state, s) THEN "closing" ELSE state[s]]
ResetQueue(q, state, S) == q \cup {s \in S : state[s] = "open"}

-----------------------------------------------------------------------------
(* The receiving application.                                              *)

SubmitRequest(s) ==
  /\ rstate[s] = "idle" /\ \A t \in 1 .. s - 1 : rstate[t] # "idle"
  /\ rstate' = [rstate EXCEPT ![s] = "queued"]
  /\ rqueue' = [rqueue EXCEPT !.reg = Append(@, Headers(s))]
  /\ UNCHANGED <<auto, window, lastInitial, inflight, held, sender, toSender, toReceiver,
                 calls, shrunk, failed>>

MayChange == calls.changes > 0 /\ calls' = [calls EXCEPT !.changes = @ - 1]

SubmitSettings(v) ==
  /\ MayChange
  /\ inflight' = Append(inflight, v)
  /\ rqueue' = [rqueue EXCEPT !.urgent = Append(@, Settings(v))]
  /\ UNCHANGED <<auto, window, rstate, lastInitial, held, sender, toSender, toReceiver,
                 shrunk, failed>>

(* An error is only returned to the application.                           *)
Change(a, r) ==
  /\ a \in Usable /\ calls.changes > 0
  /\ window' = [window EXCEPT ![a] = Marked(r)]
  /\ rqueue' = [rqueue EXCEPT !.reg = Queued(@, a, r.grant)]
  /\ UNCHANGED <<auto, rstate, lastInitial, inflight, held, sender, toSender, toReceiver,
                 shrunk, failed>>

SetLocalWindowSize(a, size) == MayChange /\ Change(a, SetSize(window[a], size))

SubmitWindowUpdate(a, i) ==
  /\ i # 0 /\ Change(a, IF i > 0 THEN Grant(window[a], i) ELSE Shrink(window[a], -i))
  /\ calls' = [calls EXCEPT !.changes = @ - 1, !.granted = @ + Greatest(0, i)]

(* nghttp2_session_consume: both windows, the stream's if it still exists. *)
Consume(s, n) ==
  /\ ~auto /\ n \in 1 .. held[s]
  /\ held' = [held EXCEPT ![s] = @ - n, ![Conn] = @ - n]
  /\ LET c == Consumed(window[Conn], n)
         r == IF Known(rstate, s) THEN Consumed(window[s], n) ELSE Result(window[s], 0)
     IN  /\ window' = [window EXCEPT ![Conn] = Marked(c), ![s] = Marked(r)]
         /\ rqueue' = [rqueue EXCEPT !.reg = Queued(Queued(@, Conn, c.grant), s, r.grant)]
         /\ failed' = IF c.ok /\ r.ok THEN failed ELSE failed \cup {Error(Conn, "consumed")}
  /\ UNCHANGED <<auto, rstate, lastInitial, inflight, sender, toSender, toReceiver, calls, shrunk>>

Cancel(s) ==
  /\ calls.cancels > 0 /\ rstate[s] = "open"
  /\ calls' = [calls EXCEPT !.cancels = @ - 1]
  /\ rstate' = ResetState(rstate, {s})
  /\ rqueue' = [rqueue EXCEPT !.syn = @ \cup {s}]
  /\ UNCHANGED <<auto, window, lastInitial, inflight, held, sender, toSender, toReceiver,
                 shrunk, failed>>

-----------------------------------------------------------------------------
(* The receiver's nghttp2_session_mem_send: ob_urgent, ob_reg, ob_syn.     *)

SendSettings ==
  /\ rqueue.urgent # <<>>
  /\ rqueue' = [rqueue EXCEPT !.urgent = Tail(@)]
  /\ toSender' = Append(toSender, Head(rqueue.urgent))
  /\ UNCHANGED <<auto, window, rstate, lastInitial, inflight, held, sender, toReceiver, calls,
                 shrunk, failed>>

RegTurn == rqueue.urgent = <<>> /\ rqueue.reg # <<>>

(* The stream is opened when the request is sent.                          *)
SendRequest ==
  /\ RegTurn /\ Head(rqueue.reg).kind = "HEADERS"
  /\ LET s == Head(rqueue.reg).of
     IN  /\ rstate' = [rstate EXCEPT ![s] = "open"]
         /\ window' = [window EXCEPT ![s] = NewWindow(lastInitial)]
  /\ rqueue' = [rqueue EXCEPT !.reg = Tail(@)]
  /\ toSender' = Append(toSender, Head(rqueue.reg))
  /\ UNCHANGED <<auto, lastInitial, inflight, held, sender, toReceiver, calls, shrunk, failed>>

(* Mutant: an update sent grants all that came in meanwhile, consumed or not. *)
UpdateSent_Unconsumed(w) == Received([w EXCEPT !.queued = FALSE], 0, TRUE)

(* Mutant: the flag stays set. *)
UpdateSent_StaysQueued(w) == IF auto THEN Received(w, 0, TRUE) ELSE Consumed(w, 0)

(* session_after_frame_sent1: what came in while the update was queued.    *)
UpdateSent(w) ==
  LET v == [w EXCEPT !.queued = FALSE]
  IN  IF auto THEN Received(v, 0, TRUE) ELSE Consumed(v, 0)

(* An update for a stream that is closed or being reset is not sent.       *)
SendUpdate ==
  /\ RegTurn /\ Head(rqueue.reg).kind = "WINDOW_UPDATE"
  /\ LET a    == Head(rqueue.reg).of
         r    == UpdateSent(window[a])
         send == a = Conn \/ rstate[a] = "open"
         reset == IF r.ok \/ a = Conn \/ ~send THEN {} ELSE {a}
     IN  /\ window' = IF send THEN [window EXCEPT ![a] = Marked(r)] ELSE window
         /\ rqueue' = [rqueue EXCEPT !.reg = IF send THEN Queued(Tail(@), a, r.grant) ELSE Tail(@),
                                     !.syn = ResetQueue(@, rstate, reset)]
         /\ rstate' = ResetState(rstate, reset)
         /\ toSender' = IF send THEN Append(toSender, Head(rqueue.reg)) ELSE toSender
         /\ failed' = IF send /\ ~r.ok THEN failed \cup {Error(a, "sent")} ELSE failed
  /\ UNCHANGED <<auto, lastInitial, inflight, held, sender, toReceiver, calls, shrunk>>

SendRst(s) ==
  /\ rqueue.urgent = <<>> /\ rqueue.reg = <<>> /\ s \in rqueue.syn
  /\ rstate' = [rstate EXCEPT ![s] = "closed"]
  /\ toSender' = Append(toSender, Rst(s))
  /\ rqueue' = [rqueue EXCEPT !.syn = @ \ {s}]
  /\ UNCHANGED <<auto, window, lastInitial, inflight, held, sender, toReceiver, calls, shrunk,
                 failed>>

-----------------------------------------------------------------------------
(* The receiver's nghttp2_session_mem_recv.                                *)

Arrived(wire, kinds) == wire # <<>> /\ Head(wire).kind \in kinds

DataOf(frame) == frame.kind = "DATA END_STREAM"

(* The connection's window counts every byte, also those of a stream that  *)
(* is gone (IB_IGN_DATA): these are consumed at once.                      *)
RecvData ==
  /\ Arrived(toReceiver, {"DATA", "DATA END_STREAM"})
  /\ toReceiver' = Tail(toReceiver)
  /\ LET s    == Head(toReceiver).of
         n    == Head(toReceiver).n
         end  == DataOf(Head(toReceiver))
         open == rstate[s] = "open"
         c0   == Received(window[Conn], n, auto)
         c    == IF open \/ auto \/ ~c0.ok THEN c0 ELSE Consumed(c0.window, n)
         r    == IF open THEN Received(window[s], n, auto /\ ~end) ELSE Result(window[s], 0)
         reset == IF r.ok THEN {} ELSE {s}
     IN  /\ window' = [window EXCEPT ![Conn] = Marked(c), ![s] = Marked(r)]
         /\ rqueue' = [rqueue EXCEPT !.reg = Queued(Queued(@, Conn, c.grant), s, r.grant),
                                     !.syn = ResetQueue(@, rstate, reset)]
         /\ rstate' = IF open /\ end THEN [rstate EXCEPT ![s] = "closed"]
                      ELSE ResetState(rstate, reset)
         /\ held' = IF open THEN [held EXCEPT ![s] = @ + n, ![Conn] = @ + n] ELSE held
         /\ failed' = failed \cup (IF c.ok THEN {} ELSE {Error(Conn, "DATA")})
                             \cup (IF r.ok THEN {} ELSE {Error(s, "DATA")})
  /\ UNCHANGED <<auto, lastInitial, inflight, sender, toSender, calls, shrunk>>

(* nghttp2_session_update_local_settings, at the acknowledgement.          *)
RecvAck ==
  /\ Arrived(toReceiver, {"ACK"}) /\ inflight # <<>>
  /\ toReceiver' = Tail(toReceiver)
  /\ inflight' = Tail(inflight) /\ lastInitial' = Head(inflight)
  /\ LET by      == Head(inflight) - lastInitial
         r       == [s \in Streams |-> IF Known(rstate, s) THEN Resize(window[s], by, auto)
                                                           ELSE Result(window[s], 0)]
         reset   == {s \in Streams : ~r[s].ok}
     IN  /\ window' = [a \in Accounts |-> IF a = Conn THEN window[a] ELSE Marked(r[a])]
         /\ rstate' = ResetState(rstate, reset)
         /\ \E q \in Orders({s \in Streams : r[s].grant > 0}) :
              rqueue' = [rqueue EXCEPT
                           !.reg = @ \o [i \in DOMAIN q |-> Update(q[i], r[q[i]].grant)],
                           !.syn = ResetQueue(@, rstate, reset)]
         /\ failed' = failed \cup {Error(s, "ACK") : s \in reset}
         /\ shrunk' = (shrunk \/ by < 0)
  /\ UNCHANGED <<auto, held, sender, toSender, calls>>

RecvRst ==
  /\ Arrived(toReceiver, {"RST_STREAM"})
  /\ toReceiver' = Tail(toReceiver)
  /\ rstate' = [rstate EXCEPT ![Head(toReceiver).of] = "closed"]
  /\ UNCHANGED <<auto, window, lastInitial, inflight, rqueue, held, sender, toSender, calls,
                 shrunk, failed>>

-----------------------------------------------------------------------------
(* The sender's nghttp2_session_mem_recv.                                  *)

(* The request is answered in the callback.                                *)
RecvRequest ==
  /\ Arrived(toSender, {"HEADERS"})
  /\ toSender' = Tail(toSender)
  /\ LET s == Head(toSender).of
     IN  /\ sstate' = [sstate EXCEPT ![s] = "open"]
         /\ item' = [item EXCEPT ![s] = "ready"]
         /\ remote' = [remote EXCEPT ![s] = peerInitial]
  /\ UNCHANGED <<auto, receiver, left, peerInitial, squeue, toReceiver, calls, failed>>

(* Mutant: a stream whose window opens again is not resumed. *)
Resumed_Forgotten(s, size) == item[s]

(* nghttp2_stream_resume_deferred_item, once the window is positive.       *)
Resumed(s, size) == IF item[s] = "flow" /\ size > 0 THEN "ready" ELSE item[s]

SenderResets(S) ==
  /\ sstate' = ResetState(sstate, S)
  /\ squeue' = [squeue EXCEPT !.syn = ResetQueue(@, sstate, S)]

RecvSettings ==
  /\ Arrived(toSender, {"SETTINGS"})
  /\ toSender' = Tail(toSender)
  /\ peerInitial' = Head(toSender).n
  /\ LET by    == Head(toSender).n - peerInitial
         known == {s \in Streams : Known(sstate, s)}
         over  == {s \in known : ~FitsResize(remote[s], by)}
     IN  /\ remote' = [a \in Accounts |-> IF a \in known \ over THEN remote[a] + by ELSE remote[a]]
         /\ item' = [s \in Streams |-> IF s \in known \ over THEN Resumed(s, remote[s] + by)
                                                             ELSE item[s]]
         /\ sstate' = ResetState(sstate, over)
         /\ squeue' = [acks |-> squeue.acks + 1, syn |-> ResetQueue(squeue.syn, sstate, over)]
         /\ failed' = failed \cup {Error(s, "SETTINGS") : s \in over}
  /\ UNCHANGED <<auto, receiver, left, toReceiver, calls>>

(* session_on_connection_window_update_received and                        *)
(* session_on_stream_window_update_received                                *)
RecvUpdate ==
  /\ Arrived(toSender, {"WINDOW_UPDATE"})
  /\ toSender' = Tail(toSender)
  /\ LET a    == Head(toSender).of
         n    == Head(toSender).n
         here == a = Conn \/ Known(sstate, a)
         fits == remote[a] <= MaxWindow - n
     IN  /\ remote' = IF here /\ fits THEN [remote EXCEPT ![a] = @ + n] ELSE remote
         /\ item' = IF here /\ fits /\ a # Conn
                    THEN [item EXCEPT ![a] = Resumed(a, remote[a] + n)] ELSE item
         /\ SenderResets(IF here /\ ~fits /\ a # Conn THEN {a} ELSE {})
         /\ failed' = IF here /\ ~fits THEN failed \cup {Error(a, "WINDOW_UPDATE")} ELSE failed
  /\ UNCHANGED <<auto, receiver, left, peerInitial, toReceiver, calls>>

RecvCancel ==
  /\ Arrived(toSender, {"RST_STREAM"})
  /\ toSender' = Tail(toSender)
  /\ LET s == Head(toSender).of
     IN  sstate' = [sstate EXCEPT ![s] = "closed"] /\ item' = [item EXCEPT ![s] = "none"]
  /\ UNCHANGED <<auto, receiver, remote, left, peerInitial, squeue, toReceiver, calls, failed>>

-----------------------------------------------------------------------------
(* The sender's nghttp2_session_mem_send: ob_urgent, ob_syn, DATA.         *)

SendAck ==
  /\ squeue.acks > 0
  /\ squeue' = [squeue EXCEPT !.acks = @ - 1]
  /\ toReceiver' = Append(toReceiver, Ack)
  /\ UNCHANGED <<auto, receiver, remote, sstate, item, left, peerInitial, toSender, calls, failed>>

SendReset(s) ==
  /\ squeue.acks = 0 /\ s \in squeue.syn
  /\ sstate' = [sstate EXCEPT ![s] = "closed"] /\ item' = [item EXCEPT ![s] = "none"]
  /\ toReceiver' = Append(toReceiver, Rst(s))
  /\ squeue' = [squeue EXCEPT !.syn = @ \ {s}]
  /\ UNCHANGED <<auto, receiver, remote, left, peerInitial, toSender, calls, failed>>

(* nghttp2_session_pop_next_ob_item: DATA only while the connection's      *)
(* window is positive.                                                     *)
DataTurn(s) ==
  /\ squeue.acks = 0 /\ squeue.syn = {}
  /\ item[s] = "ready" /\ remote[Conn] > 0

(* Mutant: the stream's window is left out. *)
ReadMax_ConnectionOnly(s) == Least(remote[Conn], MaxFrame)

(* nghttp2_session_enforce_flow_control_limits                             *)
ReadMax(s) == Least(Least(remote[s], remote[Conn]), MaxFrame)

(* The read callback gives some of what may be sent.                       *)
SendData(s, n) ==
  /\ DataTurn(s) /\ sstate[s] = "open"
  /\ n <= Least(ReadMax(s), left[s])
  /\ left' = [left EXCEPT ![s] = @ - n]
  /\ remote' = [remote EXCEPT ![Conn] = @ - n, ![s] = @ - n]
  /\ toReceiver' = Append(toReceiver, Data(s, n, n = left[s]))
  /\ item' = IF n = left[s] THEN [item EXCEPT ![s] = "none"] ELSE item
  /\ sstate' = IF n = left[s] THEN [sstate EXCEPT ![s] = "closed"] ELSE sstate
  /\ UNCHANGED <<auto, receiver, peerInitial, squeue, toSender, calls, failed>>

(* The stream has no window (nghttp2_session_next_data_read gives 0) or    *)
(* the application has no data. A stream that is being reset is gone       *)
(* before it is DATA's turn.                                               *)
NoData(s, why, when) ==
  /\ DataTurn(s) /\ when
  /\ item' = [item EXCEPT ![s] = why]
  /\ UNCHANGED <<auto, receiver, remote, sstate, left, peerInitial, squeue, toSender, toReceiver,
                 calls, failed>>

Defer(s)    == NoData(s, "flow", ReadMax(s) <= 0)
Withhold(s) == NoData(s, "user", ReadMax(s) > 0)

(* nghttp2_session_resume_data, when the application has data again.       *)
ResumeData(s) ==
  /\ item[s] = "user" /\ Known(sstate, s)
  /\ item' = [item EXCEPT ![s] = "ready"]
  /\ UNCHANGED <<auto, receiver, remote, sstate, left, peerInitial, squeue, toSender, toReceiver,
                 calls, failed>>

-----------------------------------------------------------------------------
ReceiverSends    == SendSettings \/ SendRequest \/ SendUpdate \/ \E s \in Streams : SendRst(s)
ReceiverReceives == RecvData \/ RecvAck \/ RecvRst
SenderReceives   == RecvRequest \/ RecvSettings \/ RecvUpdate \/ RecvCancel
SendsBytes(s)    == \E n \in 1 .. Body : SendData(s, n)
SendsControl     == SendAck \/ \E s \in Streams : SendReset(s)
SenderSends      == SendsControl \/ \E s \in Streams : SendsBytes(s) \/ Defer(s)
Consumes(s)      == \E n \in 1 .. Body : Consume(s, n)

FlowNext ==
  /\ Running
  /\ \/ ReceiverSends \/ ReceiverReceives \/ SenderReceives \/ SenderSends
     \/ \E s \in Streams : SubmitRequest(s) \/ Consumes(s) \/ Cancel(s) \/ Withhold(s) \/ ResumeData(s)
     \/ \E v \in Initials : SubmitSettings(v)
     \/ \E a \in Tuned : \/ \E size \in NewSizes : SetLocalWindowSize(a, size)
                         \/ \E i \in Increments : SubmitWindowUpdate(a, i)

FlowSpec == FlowInit /\ [][FlowNext]_flowVars
=============================================================================
