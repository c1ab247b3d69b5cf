-------------------------------- MODULE Window --------------------------------
(***************************************************************************)
(* The receive side of one flow control window, of the connection or of a  *)
(* stream (nghttp2_helper.c, nghttp2_session.c, nghttp2_submit.c).         *)
(*                                                                         *)
(* Each operator returns a window and the increment of the WINDOW_UPDATE   *)
(* it wants sent, 0 for none; "ok" is FALSE where the function returns an  *)
(* error and changes nothing.                                              *)
(***************************************************************************)
EXTENDS Integers

CONSTANT MaxWindow      (* NGHTTP2_MAX_WINDOW_SIZE, which is INT32_MAX *)

ASSUME WindowAssumption == MaxWindow \in Nat

Sizes == 0 .. MaxWindow
Width == -MaxWindow - 1 .. MaxWindow      (* int32_t *)

(* local: local_window_size; recv: recv_window_size, received and not yet  *)
(* granted again; reduction: recv_reduction, taken from recv when the      *)
(* window was made smaller; consumed: consumed_size; queued:               *)
(* window_update_queued.                                                   *)
Window == [local : Width, recv : Int, reduction : Nat, consumed : Nat, queued : BOOLEAN]

NewWindow(size) ==
  [local |-> size, recv |-> 0, reduction |-> 0, consumed |-> 0, queued |-> FALSE]

Least(a, b)    == IF a < b THEN a ELSE b
Greatest(a, b) == IF a > b THEN a ELSE b

Result(w, grant) == [ok |-> TRUE, window |-> w, grant |-> grant]
Refused(w)       == [ok |-> FALSE, window |-> w, grant |-> 0]

(* What the remote endpoint may send without a further WINDOW_UPDATE.      *)
Room(w) == w.local - w.recv

-----------------------------------------------------------------------------
(* The second half of nghttp2_adjust_local_window_size: smaller by d.      *)
Shrink(w, d) ==
  IF w.local - d < 0 \/ w.recv < d - MaxWindow - 1 \/ w.reduction > MaxWindow - d THEN Refused(w)
  ELSE Result([w EXCEPT !.local = @ - d, !.recv = @ - d, !.reduction = @ + d], 0)

(* Mutant: the reduction is not given back. *)
Widen_KeepsReduction(w, d) ==
  IF w.local > MaxWindow - d THEN Refused(w)
  ELSE Result([w EXCEPT !.local = @ + d, !.reduction = @ - Least(w.reduction, d)],
              d - Least(w.reduction, d))

(* nghttp2_increase_local_window_size: larger by d. What an earlier        *)
(* reduction hid from the peer is paid first and needs no WINDOW_UPDATE.   *)
Widen(w, d) ==
  LET paid == Least(w.reduction, d)
  IN  IF w.local > MaxWindow - d THEN Refused(w)
      ELSE Result([w EXCEPT !.local = @ + d, !.reduction = @ - paid, !.recv = @ + paid], d - paid)

(* nghttp2_session_set_local_window_size for a window of any size.         *)
SetSize(w, size) ==
  IF size >= w.local THEN Widen(w, size - w.local) ELSE Shrink(w, w.local - size)

(* The first half of nghttp2_adjust_local_window_size, as called by        *)
(* nghttp2_submit_window_update: d more bytes are granted at once.         *)
Grant(w, d) ==
  LET unacked == Greatest(0, w.recv)
      extra   == d - unacked
      paid    == Least(w.reduction, extra)
      less(g) == Greatest(0, w.consumed - g)
  IN  IF extra <= 0
      THEN Result([w EXCEPT !.recv = unacked - d, !.consumed = less(d)], d)
      ELSE IF w.local > MaxWindow - extra THEN Refused(w)
      ELSE Result([w EXCEPT !.local = @ + extra, !.reduction = @ - paid,
                            !.recv = IF @ < 0 THEN @ + paid ELSE paid,
                            !.consumed = IF d > paid THEN less(d - paid) ELSE @],
                  d - paid)

-----------------------------------------------------------------------------
(* nghttp2_should_send_window_update                                       *)
ShouldUpdate(local, recv) == recv > 0 /\ recv >= local \div 2

(* adjust_recv_window_size, then the automatic WINDOW_UPDATE of            *)
(* session_update_recv_connection_window_size and _stream_window_size.     *)
Received(w, n, auto) ==
  LET v == [w EXCEPT !.recv = @ + n]
  IN  IF w.recv > w.local - n \/ w.recv > MaxWindow - n THEN Refused(w)
      ELSE IF auto /\ ~w.queued /\ ShouldUpdate(v.local, v.recv)
           THEN Result([v EXCEPT !.recv = 0], v.recv)
      ELSE Result(v, 0)

(* session_update_consumed_size: with NO_AUTO_WINDOW_UPDATE the            *)
(* application says what it has consumed.                                  *)
Consumed(w, n) ==
  LET v    == [w EXCEPT !.consumed = @ + n]
      size == Least(v.consumed, v.recv)
  IN  IF w.consumed > MaxWindow - n THEN Refused(w)
      ELSE IF ~w.queued /\ ShouldUpdate(v.local, size)
           THEN Result([v EXCEPT !.recv = @ - size, !.consumed = @ - size], size)
      ELSE Result(v, 0)

(* Mutant: only the lower end is checked. *)
FitsResize_NoUpper(size, by) == size + by >= -MaxWindow - 1

(* update_initial_window_size, in 64 bits.                                 *)
FitsResize(size, by) == size + by >= -MaxWindow - 1 /\ size + by <= MaxWindow

(* update_local_initial_window_size_func for one stream.                   *)
Resize(w, by, auto) ==
  LET v == [w EXCEPT !.local = @ + by]
  IN  IF ~FitsResize(w.local, by) THEN Refused(w)
      ELSE IF auto /\ ~w.queued /\ ShouldUpdate(v.local, v.recv)
           THEN Result([v EXCEPT !.recv = 0], v.recv)
      ELSE Result(v, 0)
=============================================================================
