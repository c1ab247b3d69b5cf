---------------------------- MODULE FlowProperties ----------------------------
(***************************************************************************)
(* What flow control promises to the two applications of FlowControl.      *)
(***************************************************************************)
EXTENDS FlowControl

(* Types, and that the windows the peer's frames move stay within what an  *)
(* int32_t can hold.                                                       *)
FlowTypeOK ==
  /\ auto \in BOOLEAN /\ shrunk \in BOOLEAN
  /\ window \in [Accounts -> Window] /\ remote \in [Accounts -> Width]
  /\ rstate \in [Streams -> States] /\ sstate \in [Streams -> States]
  /\ lastInitial \in Sizes /\ peerInitial \in Sizes /\ inflight \in Seq(Sizes)
  /\ held \in [Accounts -> Int] /\ left \in [Streams -> Nat]
  /\ item \in [Streams -> Items]
  /\ calls \in [changes : Nat, cancels : Nat, granted : Nat]
  /\ failed \subseteq Accounts \X Occasions
  /\ toSender \in Seq(Frames) /\ toReceiver \in Seq(Frames)
  /\ rqueue \in [urgent : Seq(Frames), reg : Seq(Frames), syn : SUBSET Streams]
  /\ squeue \in [acks : Nat, syn : SUBSET Streams]

(* Two sessions of this library do not refuse each other's frames for flow *)
(* control, although each checks against its own, older or newer, view of  *)
(* the windows: DATA never exceeds the window it arrives at, and with      *)
(* automatic updates the connection never fails. The exceptions: a stream  *)
(* whose initial window was lowered while one of its WINDOW_UPDATEs was    *)
(* queued; one whose window the application set itself, so that a raised   *)
(* initial window takes it over the maximum; and consumed_size, which      *)
(* nghttp2_submit_window_update and such a stream let exceed the maximum,  *)
(* because what they grant or hide stays to be consumed.                   *)
OnlyLoweredStreamFails ==
  \A e \in failed :
    \/ shrunk /\ auto /\ e \in {Error(s, "sent") : s \in Streams}
    \/ e \in (Tuned \cap Streams) \X {"ACK", "SETTINGS", "WINDOW_UPDATE"}
    \/ /\ ~auto /\ e \in {Error(Conn, "consumed"), Error(Conn, "DATA")}
       /\ calls.granted > 0 \/ Tuned \cap Streams # {}

(* The bytes that the frames of these kinds carry for these accounts.      *)
Counted(f, kinds, accounts) == IF f.kind \in kinds /\ f.of \in accounts THEN f.n ELSE 0

Bytes(wire, kinds, accounts) ==
  LET sum[i \in 0 .. Len(wire)] ==
        IF i = 0 THEN 0 ELSE sum[i - 1] + Counted(wire[i], kinds, accounts)
  IN  sum[Len(wire)]

DataTo(a)  == Bytes(toReceiver, {"DATA", "DATA END_STREAM"}, IF a = Conn THEN Streams ELSE {a})
Granted(a) == Bytes(rqueue.reg, {"WINDOW_UPDATE"}, {a}) + Bytes(toSender, {"WINDOW_UPDATE"}, {a})

(* No credit is lost and none is invented: what the sender may still send, *)
(* with the DATA and the WINDOW_UPDATEs under way, is what the receiver's  *)
(* window has left. A new initial window counts at the sender from SETTINGS *)
(* on, at the receiver from the ACK on. An increment taken twice, or a     *)
(* reduction that is not given back, leaves the two ends apart for good.   *)
CreditConserved ==
  /\ remote[Conn] + DataTo(Conn) + Granted(Conn) = Room(window[Conn])
  /\ \A s \in Streams : rstate[s] = "open" /\ sstate[s] = "open" =>
       remote[s] + DataTo(s) + Granted(s) = Room(window[s]) + peerInitial - lastInitial

(* With NO_AUTO_WINDOW_UPDATE the application never holds, or can be sent, *)
(* more than the window it asked for, plus what it hid from the peer by a  *)
(* reduction and what it granted by hand: nothing is granted that it has   *)
(* not consumed, for the connection and for each stream, as long as no     *)
(* DATA is refused (see OnlyLoweredStreamFails).                           *)
NoneRefused == \A a \in Accounts : Error(a, "DATA") \notin failed

BackPressure ==
  ~auto /\ NoneRefused => \A a \in Usable :
    held[a] + Room(window[a]) <= window[a].local + window[a].reduction + calls.granted

(* A stream that waits for flow control has no window: whatever gives it   *)
(* one, a WINDOW_UPDATE or a larger initial window, also resumes it.       *)
NoLostWakeup == \A s \in Streams : item[s] = "flow" => remote[s] <= 0

(* Every response reaches its end, whatever the application does to the    *)
(* windows above zero, if it consumes what it gets. The exception: without *)
(* automatic updates, a lowered initial window may leave less than nothing *)
(* of the window with nothing left to consume.                             *)
Ends(s) == rstate[s] = "open" ~> (rstate[s] = "closed" \/ (shrunk /\ ~auto) \/ failed # {})

EveryResponseEnds == \A s \in Streams : Ends(s)

(* Both event loops send and receive as long as there is something to do,  *)
(* the receiving application consumes what it is given, and a sending      *)
(* application that had no data tells the session when it has some and     *)
(* does not always find itself without; the tree does not pass a stream    *)
(* that is ready for ever.                                                 *)
FlowFair ==
  /\ WF_flowVars(Running /\ ReceiverSends) /\ WF_flowVars(Running /\ ReceiverReceives)
  /\ WF_flowVars(Running /\ SenderReceives)
  /\ WF_flowVars(Running /\ SendsControl)
  /\ \A s \in Streams : /\ SF_flowVars(Running /\ (SendsBytes(s) \/ Defer(s)))
                        /\ WF_flowVars(Running /\ Consumes(s))
                        /\ WF_flowVars(Running /\ ResumeData(s))

FlowFairSpec == FlowSpec /\ FlowFair
=============================================================================
