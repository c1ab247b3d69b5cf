---------------------------- MODULE VerdictProofs ----------------------------
(***************************************************************************)
(* What on_stream_close tells the client's application is true, for every  *)
(* number of requests, pushes and resets and every limit: NO_ERROR is a    *)
(* complete response (CleanCloseIsComplete), REFUSED_STREAM a request the  *)
(* server's application was never given (SafeRetry), and so is a request   *)
(* above the last stream of the GOAWAY (AboveGoawayUnprocessed).           *)
(*                                                                         *)
(* The invariant relates the verdicts to the frames that carry them: what  *)
(* a frame on the wire or a waiting RST_STREAM says holds at the server    *)
(* already and cannot become false before the frame arrives.               *)
(***************************************************************************)
EXTENDS EndProofs

(* The two applications and the frames between them.                       *)
Seen      == log["server"].seen
LastRecv  == conn["server"].lastRecv
Answered  == log["server"].ended
Delivered == log["client"].seen
Verdict   == log["client"].why

ToClient     == ToSet(wire["client"])
ToServer     == ToSet(wire["server"])
ServerResetQ == ToSet(queue["server"].syn)
ClientResetQ == ToSet(queue["client"].syn)
Waiting      == ToSet(queue["client"].reg)

(* A refused request was not given to the application, and it was received *)
(* already: it cannot arrive any more.                                     *)
RefusalOK(f, seen, last) ==
  IsMine(FALSE, f.id) /\ f.code = "REFUSED_STREAM" => f.id \notin seen /\ f.id <= last

ServerResetOK(f, seen, last) == f.code # "NO_ERROR" /\ RefusalOK(f, seen, last)

ClientResetOK(f) == f.code # "NO_ERROR" /\ (IsMine(FALSE, f.id) => f.code # "REFUSED_STREAM")

ToClientOK(f, ended, seen, last) ==
  /\ f.type \in {"HEADERS", "DATA"} /\ f.end => f.id \in ended
  /\ f.type = "RST_STREAM" => ServerResetOK(f, seen, last)

(* A request whose HEADERS neither wait nor are under way, nor will be.    *)
NeverSent(id, next, frames) ==
  /\ id < next
  /\ \A f \in frames : IsHeaders(f) => f.id # id

FramesTrue ==
  /\ \A f \in ToClient : ToClientOK(f, Answered, Seen, LastRecv)
  /\ \A f \in ServerResetQ : ServerResetOK(f, Seen, LastRecv)
  /\ \A f \in ClientResetQ : ClientResetOK(f)
  /\ \A f \in ToServer : IsHeaders(f) => f.id \in log["client"].ended

SeenTrue == \A id \in Seen : IsMine(FALSE, id) /\ id <= LastRecv /\ id \in log["client"].ended

ClientTableTrue ==
  /\ table["client"].item = {}
  /\ \A id \in StreamIds : /\ table["client"].st[id] = "OPENED" => id \in Delivered
                           /\ table["client"].st[id] = "OPENING" => IsMine(FALSE, id)

VerdictTrue ==
  \A id \in StreamIds :
    /\ Verdict[id] = "NO_ERROR" => id \in Delivered /\ id \in Answered
    /\ IsMine(FALSE, id) /\ Verdict[id] = "REFUSED_STREAM" =>
         /\ id \notin Seen
         /\ id <= LastRecv \/ NeverSent(id, conn["client"].nextId, Waiting \cup ToServer)

VerdictInv == FramesTrue /\ SeenTrue /\ ClientTableTrue /\ VerdictTrue

IsGoaway(f) == f.type = "GOAWAY"

Terminated == "TERM_ON_SEND" \in conn["server"].goaway

GoawayInv ==
  /\ \A id \in Seen : id <= conn["server"].lastProc
  /\ \A f \in ToSet(queue["server"].reg) \cup ToClient : IsGoaway(f) =>
       Terminated /\ \A id \in Seen : id <= f.arg
  /\ "RECV" \in conn["client"].goaway =>
       Terminated /\ \A id \in Seen : id <= conn["client"].remoteLast
  /\ ~Terminated => conn["server"].localLast = MaxStreamId

-----------------------------------------------------------------------------
(* What one step does to the sequences and the logs                        *)

LEMMA Elements ==
  ASSUME NEW S, NEW s \in Seq(S)
  PROVE  /\ \A x : ToSet(Append(s, x)) = ToSet(s) \cup {x}
         /\ s # << >> => Head(s) \in ToSet(s) /\ ToSet(Tail(s)) \subseteq ToSet(s)
<1>1. ASSUME NEW x PROVE ToSet(Append(s, x)) = ToSet(s) \cup {x}
  <2>1. ToSet(Append(s, x)) \subseteq ToSet(s) \cup {x} BY AppendElements DEF ToSet
  <2>2. DOMAIN Append(s, x) = 1 .. Len(s) + 1 /\ DOMAIN s = 1 .. Len(s) /\ Len(s) \in Nat
        /\ Append(s, x)[Len(s) + 1] = x /\ \A i \in 1 .. Len(s) : Append(s, x)[i] = s[i]
    OBVIOUS
  <2>3. Len(s) + 1 \in 1 .. Len(s) + 1 /\ \A i \in 1 .. Len(s) : i \in 1 .. Len(s) + 1 BY <2>2
  <2>4. x \in ToSet(Append(s, x)) BY <2>2, <2>3 DEF ToSet
  <2>5. ToSet(s) \subseteq ToSet(Append(s, x)) BY <2>2, <2>3 DEF ToSet
  <2>6. QED BY <2>1, <2>4, <2>5
<1>2. ASSUME s # << >> PROVE Head(s) \in ToSet(s) /\ ToSet(Tail(s)) \subseteq ToSet(s)
  BY <1>2, TailElements DEF ToSet
<1>3. QED BY <1>1, <1>2

LEMMA WireMoves ==
  ASSUME Inv, NEW e \in Endpoints
  PROVE  /\ \A f : Transmit(e, f) => /\ ToSet(wire'[Peer(e)]) = ToSet(wire[Peer(e)]) \cup {f}
                                     /\ wire'[e] = wire[e]
         /\ \A type : Arrives(e, type) => /\ ToSet(wire'[e]) \subseteq ToSet(wire[e])
                                          /\ Head(wire[e]) \in ToSet(wire[e])
                                          /\ wire'[Peer(e)] = wire[Peer(e)]
<1>1. /\ wire = [x \in Endpoints |-> wire[x]] /\ Peer(e) \in Endpoints /\ Peer(e) # e
      /\ wire[Peer(e)] \in Seq(FramesTo(Peer(e))) /\ wire[e] \in Seq(FramesTo(e))
  BY Ends, InvParts DEF WiresOK
<1>2. QED BY <1>1, Elements DEF Transmit, Arrives

LEMMA QueueMoves ==
  ASSUME NEW e \in Endpoints, NEW q \in Queues(e), NEW t, NEW id, NEW code
  PROVE  /\ \A f : LET r == [q EXCEPT !.reg = Append(q.reg, f)]
                   IN ToSet(r.reg) = ToSet(q.reg) \cup {f} /\ r.syn = q.syn
         /\ ToSet(AddRst(t, q, id, code).syn) \subseteq ToSet(q.syn) \cup {Rst(id, code)}
         /\ AddRst(t, q, id, code).reg = q.reg
         /\ q.reg # << >> => LET r == [q EXCEPT !.reg = Tail(q.reg)]
                             IN /\ ToSet(r.reg) \subseteq ToSet(q.reg) /\ Head(q.reg) \in ToSet(q.reg)
                                /\ r.syn = q.syn
         /\ q.syn # << >> => LET r == [q EXCEPT !.syn = Tail(q.syn)]
                             IN /\ ToSet(r.syn) \subseteq ToSet(q.syn) /\ Head(q.syn) \in ToSet(q.syn)
                                /\ r.reg = q.reg
<1>1. q.reg \in Seq(RegFrames(e)) /\ q.syn \in Seq(SynFrames) BY QueuedIds
<1>2. q = [urg |-> q.urg, reg |-> q.reg, syn |-> q.syn] BY DEF Queues
<1>3. ASSUME NEW f PROVE LET r == [q EXCEPT !.reg = Append(q.reg, f)]
                         IN ToSet(r.reg) = ToSet(q.reg) \cup {f} /\ r.syn = q.syn
  BY <1>1, <1>2, Elements
<1>4. /\ ToSet(AddRst(t, q, id, code).syn) \subseteq ToSet(q.syn) \cup {Rst(id, code)}
      /\ AddRst(t, q, id, code).reg = q.reg
  <2>1. ToSet([q EXCEPT !.syn = Append(q.syn, Rst(id, code))].syn) = ToSet(q.syn) \cup {Rst(id, code)}
        /\ [q EXCEPT !.syn = Append(q.syn, Rst(id, code))].reg = q.reg
    BY <1>1, <1>2, Elements
  <2>2. QED BY <2>1 DEF AddRst
<1>5. ASSUME q.reg # << >> PROVE LET r == [q EXCEPT !.reg = Tail(q.reg)]
                             IN /\ ToSet(r.reg) \subseteq ToSet(q.reg) /\ Head(q.reg) \in ToSet(q.reg)
                                /\ r.syn = q.syn
  BY <1>1, <1>2, <1>5, Elements
<1>6. ASSUME q.syn # << >> PROVE LET r == [q EXCEPT !.syn = Tail(q.syn)]
                             IN /\ ToSet(r.syn) \subseteq ToSet(q.syn) /\ Head(q.syn) \in ToSet(q.syn)
                                /\ r.reg = q.reg
  BY <1>1, <1>2, <1>6, Elements
<1>7. QED BY <1>3, <1>4, <1>5, <1>6

LEMMA AddRstMoves ==
  ASSUME NEW e \in Endpoints, NEW q \in Queues(e)
  PROVE  /\ \A t, id, code : AddRst(t, q, id, code).reg = q.reg
         /\ \A t, id, code : \A f \in ToSet(AddRst(t, q, id, code).syn) :
              f \in ToSet(q.syn) \/ (f.id = id /\ f.code = code)
<1>1. \A t, id, code : AddRst(t, q, id, code).reg = q.reg BY QueueMoves
<1>2. \A id, code : Rst(id, code).id = id /\ Rst(id, code).code = code BY DEF Rst, F
<1>3. ASSUME NEW t, NEW id, NEW code, NEW f \in ToSet(AddRst(t, q, id, code).syn), f \notin ToSet(q.syn)
      PROVE  f = Rst(id, code)
  BY <1>3, QueueMoves
<1>4. QED BY <1>1, <1>2, <1>3

(* What a step of e writes down.                                           *)
Closes(e, id) == Live(table[e], id) /\ ~Live(table'[e], id)

LEMMA LogMoves ==
  ASSUME Inv, NEW e \in Endpoints, NEW code, NEW fin, log' = SentLast(e, code, fin)
  PROVE  /\ log'[e].seen = log[e].seen /\ log'[e].ended = log[e].ended \cup fin
         /\ \A id \in StreamIds : log'[e].why[id] = IF Closes(e, id) THEN code ELSE log[e].why[id]
<1>1. log \in [Endpoints -> Log] BY InvParts DEF LogsOK
<1>2. log[e] \in Log BY <1>1
<1>3. QED BY <1>1, <1>2 DEF SentLast, ClosedWith, Log, Closes

LEMMA ClosedMoves ==
  ASSUME Inv, NEW e \in Endpoints, NEW code, log' = ClosedWith(e, code)
  PROVE  /\ log'[e].seen = log[e].seen /\ log'[e].ended = log[e].ended
         /\ \A id \in StreamIds : log'[e].why[id] = IF Closes(e, id) THEN code ELSE log[e].why[id]
<1>1. log \in [Endpoints -> Log] BY InvParts DEF LogsOK
<1>2. log[e] \in Log BY <1>1
<1>3. QED BY <1>1, <1>2 DEF ClosedWith, Log, Closes

(* A step of one end leaves the state of the other alone.                  *)
Apart(e) == \A x \in Endpoints : x # e => /\ table'[x] = table[x] /\ queue'[x] = queue[x]
                                          /\ conn'[x] = conn[x] /\ log'[x] = log[x]

LEMMA ApartParts ==
  ASSUME Inv, NEW e \in Endpoints,
         UNCHANGED table \/ (\E t : table' = [table EXCEPT ![e] = t]),
         UNCHANGED queue \/ (\E q : queue' = [queue EXCEPT ![e] = q]),
         UNCHANGED conn \/ (\E c : conn' = [conn EXCEPT ![e] = c]),
         UNCHANGED log \/ (\E l : log' = [log EXCEPT ![e] = l])
  PROVE  Apart(e)
<1>1. /\ table = [x \in Endpoints |-> table[x]] /\ queue = [x \in Endpoints |-> queue[x]]
      /\ conn = [x \in Endpoints |-> conn[x]] /\ log = [x \in Endpoints |-> log[x]]
  BY InvParts DEF TablesGood, QueuesOK, ConnsOK, LogsOK
<1>2. QED BY <1>1 DEF Apart

LEMMA SubmitApart == ASSUME Inv, NEW e \in Endpoints, Submit(e) PROVE Apart(e)
<1>1. CASE e = "client" /\ SubmitRequest BY <1>1, ApartParts DEF SubmitRequest, SetConn
<1>2. CASE \E id \in StreamIds : e = "server" /\ SubmitPush(id)
  BY <1>2, ApartParts DEF SubmitPush, SetConn, SetTable
<1>3. CASE \E id \in StreamIds, end \in BOOLEAN : e = "server" /\ SubmitResponse(id, end)
  BY <1>3, ApartParts DEF SubmitResponse
<1>4. CASE \E id \in StreamIds : SubmitRst(e, id)
  BY <1>4, ApartParts DEF SubmitRst, SetConn, SetTable
<1>5. CASE SubmitTerminate(e) BY <1>5, ApartParts DEF SubmitTerminate, Terminate, SetConn
<1>6. CASE SubmitGoaway(e) BY <1>6, ApartParts DEF SubmitGoaway
<1>7. QED BY <1>1, <1>2, <1>3, <1>4, <1>5, <1>6 DEF Submit

LEMMA SentApart ==
  ASSUME NEW e, NEW code, NEW fin
  PROVE  /\ \E l : ClosedWith(e, code) = [log EXCEPT ![e] = l]
         /\ log \in [Endpoints -> Log] => \E l : SentLast(e, code, fin) = [log EXCEPT ![e] = l]
BY DEF ClosedWith, SentLast, Log

LEMMA SendApart == ASSUME Inv, NEW e \in Endpoints, Send(e) PROVE Apart(e)
<1>0. log \in [Endpoints -> Log] BY InvParts DEF LogsOK
<1>1. CASE SendSettings(e) BY <1>1, ApartParts DEF SendSettings, SetQueue
<1>2. CASE e = "client" /\ SendRequest
  <2>1. UNCHANGED table \/ (\E t : table' = [table EXCEPT ![e] = t]) BY <1>2 DEF SendRequest, SetTable
  <2>2. UNCHANGED queue \/ (\E q : queue' = [queue EXCEPT ![e] = q]) BY <1>2 DEF SendRequest, SetQueue
  <2>3. UNCHANGED conn \/ (\E c : conn' = [conn EXCEPT ![e] = c]) BY <1>2 DEF SendRequest, SetConn
  <2>4. UNCHANGED log \/ (\E l : log' = [log EXCEPT ![e] = l])
    <3>1. \/ log' = [log EXCEPT !["client"].why[NextReg("client").id] = "REFUSED_STREAM"]
          \/ UNCHANGED log
          \/ log' = SentLast("client", "NO_ERROR", {NextReg("client").id})
      BY <1>2 DEF SendRequest
    <3>2. \E l : [log EXCEPT !["client"].why[NextReg("client").id] = "REFUSED_STREAM"] = [log EXCEPT !["client"] = l]
      OBVIOUS
    <3>3. \E l : SentLast("client", "NO_ERROR", {NextReg("client").id}) = [log EXCEPT !["client"] = l]
      BY <1>0 DEF SentLast, ClosedWith, Log
    <3>4. QED BY <1>2, <3>1, <3>2, <3>3
  <2>5. QED BY <2>1, <2>2, <2>3, <2>4, ApartParts
<1>3. CASE e = "server" /\ SendResponse
  BY <1>0, <1>3, ApartParts, SentApart DEF SendResponse, SetQueue, SetTable
<1>4. CASE e = "server" /\ SendPromise
  <2>1. UNCHANGED table \/ (\E t : table' = [table EXCEPT ![e] = t]) BY <1>4 DEF SendPromise, SetTable
  <2>2. UNCHANGED queue \/ (\E q : queue' = [queue EXCEPT ![e] = q]) BY <1>4 DEF SendPromise, SetQueue
  <2>3. UNCHANGED conn \/ (\E c : conn' = [conn EXCEPT ![e] = c]) BY <1>4 DEF SendPromise, SetConn
  <2>4. UNCHANGED log \/ (\E l : log' = [log EXCEPT ![e] = l])
    <3>1. UNCHANGED log \/ log' = ClosedWith("server", "INTERNAL_ERROR") BY <1>4 DEF SendPromise
    <3>2. \E l : ClosedWith("server", "INTERNAL_ERROR") = [log EXCEPT !["server"] = l] BY SentApart
    <3>3. QED BY <1>4, <3>1, <3>2
  <2>5. QED BY <2>1, <2>2, <2>3, <2>4, ApartParts
<1>5. CASE SendGoaway(e)
  BY <1>0, <1>5, ApartParts, SentApart DEF SendGoaway, SetQueue, SetConn, SetTable
<1>6. CASE SendRst(e)
  <2>1. UNCHANGED table \/ (\E t : table' = [table EXCEPT ![e] = t]) BY <1>6 DEF SendRst, SetTable
  <2>2. UNCHANGED queue \/ (\E q : queue' = [queue EXCEPT ![e] = q]) BY <1>6 DEF SendRst, SetQueue
  <2>3. UNCHANGED conn \/ (\E c : conn' = [conn EXCEPT ![e] = c]) BY <1>6 DEF SendRst, SetConn
  <2>4. UNCHANGED log \/ (\E l : log' = [log EXCEPT ![e] = l]) BY <1>0, <1>6, SentApart DEF SendRst
  <2>5. QED BY <2>1, <2>2, <2>3, <2>4, ApartParts
<1>7. CASE \E id \in StreamIds : SendData(e, id)
  BY <1>0, <1>7, ApartParts, SentApart DEF SendData, SetTable
<1>8. QED BY <1>1, <1>2, <1>3, <1>4, <1>5, <1>6, <1>7 DEF Send

LEMMA RecvApart == ASSUME Inv, NEW e \in Endpoints, Recv(e) PROVE Apart(e)
<1>0. log \in [Endpoints -> Log] BY InvParts DEF LogsOK
<1>1. CASE RecvInvalid(e) BY <1>1, ApartParts DEF RecvInvalid, Terminate, SetConn
<1>2. CASE e = "server" /\ RecvRequest
  BY <1>2, ApartParts DEF RecvRequest, SetConn, SetQueue, SetTable
<1>3. CASE e = "client" /\ RecvResponse
  <2>1. UNCHANGED table \/ (\E t : table' = [table EXCEPT ![e] = t]) BY <1>3 DEF RecvResponse, SetTable
  <2>2. UNCHANGED queue \/ (\E q : queue' = [queue EXCEPT ![e] = q]) BY <1>3 DEF RecvResponse, SetQueue
  <2>3. \A m : [m EXCEPT ![e].seen = @ \cup {Head(wire[e]).id}]
                = [m EXCEPT ![e] = [m[e] EXCEPT !.seen = m[e].seen \cup {Head(wire[e]).id}]]
    OBVIOUS
  <2>4. \E k : ClosedWith(e, "NO_ERROR") = [log EXCEPT ![e] = k] BY SentApart
  <2>5. \A k, l : [[log EXCEPT ![e] = k] EXCEPT ![e] = l] = [log EXCEPT ![e] = l] BY <1>0
  <2>6. \E l : [ClosedWith(e, "NO_ERROR") EXCEPT ![e].seen = @ \cup {Head(wire[e]).id}] = [log EXCEPT ![e] = l]
    BY <2>3, <2>4, <2>5
  <2>7. UNCHANGED log \/ (\E l : log' = [log EXCEPT ![e] = l]) BY <1>3, <2>6 DEF RecvResponse
  <2>8. UNCHANGED conn BY <1>3 DEF RecvResponse
  <2>9. QED BY <2>1, <2>2, <2>7, <2>8, ApartParts
<1>4. CASE RecvData(e)
  <2>1. UNCHANGED table \/ (\E t : table' = [table EXCEPT ![e] = t]) BY <1>4 DEF RecvData, SetTable
  <2>2. UNCHANGED log \/ (\E l : log' = [log EXCEPT ![e] = l])
    <3>1. UNCHANGED log \/ log' = ClosedWith(e, "NO_ERROR") BY <1>4 DEF RecvData
    <3>2. QED BY <3>1, SentApart
  <2>3. UNCHANGED <<queue, conn>> BY <1>4 DEF RecvData
  <2>4. QED BY <2>1, <2>2, <2>3, ApartParts
<1>5. CASE e = "client" /\ RecvPromise
  <2>1. UNCHANGED table \/ (\E t : table' = [table EXCEPT ![e] = t]) BY <1>5 DEF RecvPromise, SetTable
  <2>2. UNCHANGED queue \/ (\E q : queue' = [queue EXCEPT ![e] = q]) BY <1>5 DEF RecvPromise, SetQueue
  <2>3. UNCHANGED conn \/ (\E c : conn' = [conn EXCEPT ![e] = c]) BY <1>5 DEF RecvPromise, SetConn
  <2>4. UNCHANGED log BY <1>5 DEF RecvPromise
  <2>5. QED BY <2>1, <2>2, <2>3, <2>4, ApartParts
<1>6. CASE RecvRst(e) BY <1>0, <1>6, ApartParts, SentApart DEF RecvRst, SetTable
<1>7. CASE RecvSettings(e) BY <1>7, ApartParts DEF RecvSettings, SetConn, SetQueue
<1>8. CASE RecvSettingsAck(e) BY <1>8, ApartParts DEF RecvSettingsAck, SetConn
<1>9. CASE RecvGoaway(e) BY <1>0, <1>9, ApartParts, SentApart DEF RecvGoaway, SetConn, SetTable
<1>10. QED BY <1>1, <1>2, <1>3, <1>4, <1>5, <1>6, <1>7, <1>8, <1>9 DEF Recv

LEMMA DropApart == ASSUME Inv, NEW e \in Endpoints, Drop(e) PROVE Apart(e)
BY ApartParts DEF Drop, SetConn

-----------------------------------------------------------------------------
(* The two kinds of steps                                                  *)

NextId == conn["client"].nextId

(* The server's end: what it adds to the wire and to its queue is true,    *)
(* and it hands its application only requests that just arrived.           *)
ServerMove ==
  /\ Apart("server")
  /\ Answered \subseteq Answered'
  /\ LastRecv <= LastRecv'
  /\ ToServer' \subseteq ToServer
  /\ \A id \in Seen' : \/ id \in Seen
                       \/ /\ LastRecv < id /\ id <= LastRecv' /\ IsMine(FALSE, id)
                          /\ \E f \in ToServer : IsHeaders(f) /\ f.id = id
  /\ \A f \in ToClient' : f \in ToClient \/ ToClientOK(f, Answered', Seen', LastRecv')
  /\ \A f \in ServerResetQ' : f \in ServerResetQ \/ ServerResetOK(f, Seen', LastRecv')

(* The client's end: it sends a request it has allotted, once, and each    *)
(* verdict it passes is justified when it passes it.                       *)
Justified(id) ==
  Verdict'[id] # Verdict[id] =>
    /\ Verdict'[id] = "NO_ERROR" => id \in Delivered' /\ id \in Answered
    /\ IsMine(FALSE, id) /\ Verdict'[id] = "REFUSED_STREAM" =>
         /\ id \notin Seen
         /\ id <= LastRecv \/ NeverSent(id, NextId', Waiting' \cup ToServer')

ClientMove ==
  /\ Apart("client")
  /\ log["client"].ended \subseteq log'["client"].ended /\ Delivered \subseteq Delivered'
  /\ ClientTableTrue'
  /\ ToClient' \subseteq ToClient
  /\ \A f \in ClientResetQ' : f \in ClientResetQ \/ ClientResetOK(f)
  /\ NextId <= NextId'
  /\ \A f \in Waiting' : IsHeaders(f) => f \in Waiting \/ NextId <= f.id
  /\ \A f \in ToServer' : IsHeaders(f) => f \in ToServer \/ (f \in Waiting /\ f.id \in log'["client"].ended)
  /\ \A id \in StreamIds : Justified(id)

LEMMA Order ==
  /\ \A a, b, c \in Int : a <= b /\ b <= c => a <= c
  /\ \A a, b, c \in Int : a < b /\ b <= c => a < c
  /\ \A a, b \in Int : a <= b => ~(b < a)
OBVIOUS

LEMMA Numbers ==
  ASSUME Inv
  PROVE  /\ LastRecv \in Int /\ NextId \in Int /\ Seen \subseteq StreamIds
         /\ \A x \in StreamIds : x \in Int
         /\ \A f \in ToClient : f.type \in {"HEADERS", "DATA", "RST_STREAM"} => f.id \in StreamIds
         /\ \A f \in ServerResetQ \cup ClientResetQ : f.id \in StreamIds /\ f.type = "RST_STREAM"
         /\ \A f \in ToServer \cup Waiting : IsHeaders(f) => f.id \in StreamIds /\ IsMine(FALSE, f.id)
<1>0. /\ queue["client"] \in Queues("client") /\ queue["server"] \in Queues("server")
      /\ wire["client"] \in Seq(FramesTo("client")) /\ wire["server"] \in Seq(FramesTo("server"))
      /\ conn["client"] \in Conn /\ conn["server"] \in Conn /\ log["server"] \in Log
  BY InvParts, Ends DEF QueuesOK, WiresOK, ConnsOK, LogsOK
<1>1. LastRecv \in Int /\ NextId \in Int
  <2>1. \A c \in Conn : c.lastRecv \in 0 .. MaxStreamId /\ c.nextId \in Nat BY DEF Conn
  <2>2. \A x \in 0 .. MaxStreamId : x \in Int OBVIOUS
  <2>3. \A x \in Nat : x \in Int OBVIOUS
  <2>4. QED BY <1>0, <2>1, <2>2, <2>3, Zenon DEF LastRecv, NextId
<1>2. Seen \subseteq StreamIds BY <1>0 DEF Seen, Log
<1>3. \A x \in StreamIds : x \in Int BY DEF StreamIds
<1>4. \A f \in ToClient : f \in FramesTo("client") BY <1>0 DEF ToClient, ToSet
<1>5. \A f \in ToServer : f \in FramesTo("server") BY <1>0 DEF ToServer, ToSet
<1>6. \A f \in Waiting : f \in RegFrames("client") BY <1>0 DEF Waiting, ToSet, Queues
<1>7. \A f \in ServerResetQ \cup ClientResetQ : f \in SynFrames
  BY <1>0 DEF ServerResetQ, ClientResetQ, ToSet, Queues
<1>8. \A f \in ToClient : f.type \in {"HEADERS", "DATA", "RST_STREAM"} => f.id \in StreamIds
  BY <1>4, FrameFacts, Ends
<1>9. \A f \in ServerResetQ \cup ClientResetQ : f.id \in StreamIds /\ f.type = "RST_STREAM"
  BY <1>7 DEF SynFrames
<1>10. \A f \in ToServer \cup Waiting : IsHeaders(f) => f.id \in StreamIds /\ IsMine(FALSE, f.id)
  BY <1>5, <1>6, FrameFacts, Ends DEF IsHeaders
<1>11. QED BY <1>1, <1>2, <1>3, <1>8, <1>9, <1>10

LEMMA NumberTypes == Inv => LastRecv \in Int /\ NextId \in Int /\ Seen \subseteq StreamIds
BY Numbers

(* A refusal stays true: the request it speaks of cannot be given to the   *)
(* application later.                                                      *)
LEMMA RefusalStays ==
  ASSUME NEW f, f.id \in StreamIds, NEW S, NEW T \in SUBSET StreamIds, NEW a \in Int, NEW b \in Int, a <= b,
         \A id \in T : id \in S \/ a < id, RefusalOK(f, S, a)
  PROVE  RefusalOK(f, T, b)
<1>1. f.id \in Int BY DEF StreamIds
<1>2. f.id <= a => f.id <= b BY <1>1, Order
<1>3. f.id <= a /\ f.id \notin S => f.id \notin T BY <1>1, Order
<1>4. QED BY <1>2, <1>3 DEF RefusalOK

LEMMA ServerStep ==
  ASSUME Inv, Inv', VerdictInv, ServerMove
  PROVE  VerdictInv'
<1>0. /\ table'["client"] = table["client"] /\ queue'["client"] = queue["client"]
      /\ conn'["client"] = conn["client"] /\ log'["client"] = log["client"]
  BY Ends DEF ServerMove, Apart
<1>1. /\ LastRecv \in Int /\ LastRecv' \in Int /\ LastRecv <= LastRecv'
      /\ Seen \subseteq StreamIds /\ Seen' \in SUBSET StreamIds
  <2>1. Inv' => (LastRecv \in Int /\ NextId \in Int /\ Seen \subseteq StreamIds)' BY NumberTypes, PTL
  <2>2. QED BY <2>1, Numbers DEF ServerMove
<1>2. \A id \in Seen' : id \in Seen \/ LastRecv < id BY DEF ServerMove
<1>3. FramesTrue'
  <2>1. ASSUME NEW f \in ToClient' PROVE ToClientOK(f, Answered', Seen', LastRecv')
    <3>1. CASE f \in ToClient
      <4>1. ToClientOK(f, Answered, Seen, LastRecv) BY <3>1 DEF VerdictInv, FramesTrue
      <4>2. f.type \in {"HEADERS", "DATA"} /\ f.end => f.id \in Answered'
        BY <4>1 DEF ToClientOK, ServerMove
      <4>3. ASSUME f.type = "RST_STREAM" PROVE ServerResetOK(f, Seen', LastRecv')
        <5>1. f.id \in StreamIds BY <3>1, <4>3, Numbers
        <5>2. f.code # "NO_ERROR" /\ RefusalOK(f, Seen, LastRecv) BY <4>1, <4>3 DEF ToClientOK, ServerResetOK
        <5>3. RefusalOK(f, Seen', LastRecv') BY <1>1, <1>2, <5>1, <5>2, RefusalStays
        <5>4. QED BY <5>2, <5>3 DEF ServerResetOK
      <4>4. QED BY <4>2, <4>3 DEF ToClientOK
    <3>2. QED BY <3>1 DEF ServerMove
  <2>2. ASSUME NEW f \in ServerResetQ' PROVE ServerResetOK(f, Seen', LastRecv')
    <3>1. CASE f \in ServerResetQ
      <4>1. f.id \in StreamIds BY <3>1, Numbers
      <4>2. f.code # "NO_ERROR" /\ RefusalOK(f, Seen, LastRecv)
        BY <3>1 DEF VerdictInv, FramesTrue, ServerResetOK
      <4>3. RefusalOK(f, Seen', LastRecv') BY <1>1, <1>2, <4>1, <4>2, RefusalStays
      <4>4. QED BY <4>2, <4>3 DEF ServerResetOK
    <3>2. QED BY <3>1 DEF ServerMove
  <2>3. \A f \in ClientResetQ' : ClientResetOK(f)
    BY <1>0 DEF VerdictInv, FramesTrue, ClientResetQ
  <2>4. \A f \in ToServer' : IsHeaders(f) => f.id \in log'["client"].ended
    BY <1>0 DEF VerdictInv, FramesTrue, ServerMove
  <2>5. QED BY <2>1, <2>2, <2>3, <2>4 DEF FramesTrue
<1>4. SeenTrue'
  <2>1. ASSUME NEW id \in Seen' PROVE IsMine(FALSE, id) /\ id <= LastRecv' /\ id \in log'["client"].ended
    <3>1. CASE id \in Seen
      <4>1. IsMine(FALSE, id) /\ id <= LastRecv /\ id \in log["client"].ended
        BY <3>1 DEF VerdictInv, SeenTrue
      <4>2. id \in Int BY <1>1, Numbers
      <4>3. id <= LastRecv' BY <1>1, <4>1, <4>2, Order
      <4>4. QED BY <1>0, <4>1, <4>3
    <3>2. CASE id \notin Seen
      <4>1. id <= LastRecv' /\ IsMine(FALSE, id) /\ \E f \in ToServer : IsHeaders(f) /\ f.id = id
        BY <3>2 DEF ServerMove
      <4>2. QED BY <1>0, <4>1 DEF VerdictInv, FramesTrue
    <3>3. QED BY <3>1, <3>2
  <2>2. QED BY <2>1 DEF SeenTrue
<1>5. ClientTableTrue' BY <1>0 DEF VerdictInv, ClientTableTrue, Delivered
<1>6. VerdictTrue'
  <2>1. Verdict' = Verdict /\ Delivered' = Delivered /\ Answered \subseteq Answered'
        /\ NextId' = NextId /\ Waiting' = Waiting /\ ToServer' \subseteq ToServer
    BY <1>0 DEF ServerMove, Verdict, Delivered, NextId, Waiting
  <2>2. ASSUME NEW id \in StreamIds, IsMine(FALSE, id), Verdict[id] = "REFUSED_STREAM"
        PROVE  id \notin Seen' /\ (id <= LastRecv' \/ NeverSent(id, NextId', Waiting' \cup ToServer'))
    <3>1. id \notin Seen /\ (id <= LastRecv \/ NeverSent(id, NextId, Waiting \cup ToServer))
      BY <2>2 DEF VerdictInv, VerdictTrue, NextId
    <3>2. id \in Int BY DEF StreamIds
    <3>3. CASE id <= LastRecv BY <1>1, <1>2, <3>1, <3>2, <3>3, Order
    <3>4. CASE NeverSent(id, NextId, Waiting \cup ToServer)
      <4>1. NeverSent(id, NextId', Waiting' \cup ToServer') BY <2>1, <3>4 DEF NeverSent
      <4>2. id \notin Seen' BY <3>1, <3>4 DEF NeverSent, ServerMove
      <4>3. QED BY <4>1, <4>2
    <3>5. QED BY <3>1, <3>3, <3>4
  <2>3. QED BY <2>1, <2>2 DEF VerdictInv, VerdictTrue, NextId
<1>7. QED BY <1>3, <1>4, <1>5, <1>6 DEF VerdictInv

LEMMA ClientStep ==
  ASSUME Inv, Inv', VerdictInv, ClientMove
  PROVE  VerdictInv'
<1>0. conn'["server"] = conn["server"] /\ queue'["server"] = queue["server"] /\ log'["server"] = log["server"]
  BY Ends DEF ClientMove, Apart
<1>1. Seen' = Seen /\ LastRecv' = LastRecv /\ Answered' = Answered /\ ServerResetQ' = ServerResetQ
  BY <1>0 DEF Seen, LastRecv, Answered, ServerResetQ
<1>2. FramesTrue'
  <2>1. \A f \in ToClient' : ToClientOK(f, Answered', Seen', LastRecv')
    BY <1>1 DEF ClientMove, VerdictInv, FramesTrue
  <2>2. \A f \in ServerResetQ' : ServerResetOK(f, Seen', LastRecv') BY <1>1 DEF VerdictInv, FramesTrue
  <2>3. \A f \in ClientResetQ' : ClientResetOK(f) BY DEF ClientMove, VerdictInv, FramesTrue
  <2>4. \A f \in ToServer' : IsHeaders(f) => f.id \in log'["client"].ended
    BY DEF ClientMove, VerdictInv, FramesTrue
  <2>5. QED BY <2>1, <2>2, <2>3, <2>4 DEF FramesTrue
<1>3. SeenTrue' BY <1>1 DEF VerdictInv, SeenTrue, ClientMove
<1>4. VerdictTrue'
  <2>1. ASSUME NEW id \in StreamIds, NeverSent(id, NextId, Waiting \cup ToServer)
        PROVE  NeverSent(id, NextId', Waiting' \cup ToServer')
    <3>1. NextId \in Int /\ NextId' \in Int /\ NextId <= NextId' /\ id \in Int /\ id < NextId
      <4>1. Inv' => (LastRecv \in Int /\ NextId \in Int /\ Seen \subseteq StreamIds)' BY NumberTypes, PTL
      <4>2. QED BY <2>1, <4>1, Numbers DEF ClientMove, NeverSent
    <3>2. id < NextId' BY <3>1, Order
    <3>3. ASSUME NEW f \in Waiting' \cup ToServer', IsHeaders(f) PROVE f.id # id
      <4>1. f \in Waiting \cup ToServer \/ NextId <= f.id BY <3>3 DEF ClientMove
      <4>2. NextId <= f.id => f.id # id BY <3>1, Order
      <4>3. QED BY <2>1, <3>3, <4>1, <4>2 DEF NeverSent
    <3>4. QED BY <3>2, <3>3 DEF NeverSent
  <2>2. ASSUME NEW id \in StreamIds
        PROVE  /\ Verdict'[id] = "NO_ERROR" => id \in Delivered' /\ id \in Answered'
               /\ IsMine(FALSE, id) /\ Verdict'[id] = "REFUSED_STREAM" =>
                    /\ id \notin Seen'
                    /\ id <= LastRecv' \/ NeverSent(id, NextId', Waiting' \cup ToServer')
    <3>1. CASE Verdict'[id] = Verdict[id]
      BY <1>1, <2>1, <3>1 DEF VerdictInv, VerdictTrue, ClientMove, NextId
    <3>2. CASE Verdict'[id] # Verdict[id] BY <1>1, <3>2 DEF ClientMove, Justified
    <3>3. QED BY <3>1, <3>2
  <2>3. QED BY <2>2 DEF VerdictTrue, NextId
<1>5. QED BY <1>2, <1>3, <1>4 DEF VerdictInv, ClientMove

-----------------------------------------------------------------------------
(* What the table operators open and close                                 *)

(* A step opens nothing and closes at most the streams of a set.           *)
Calm(u, t) == /\ u.item \subseteq t.item
              /\ \A x \in StreamIds : u.st[x] \in {"OPENED", "OPENING"} => u.st[x] = t.st[x]

ClosesOnly(u, t, S) == \A x \in StreamIds : Live(t, x) /\ ~Live(u, x) => x \in S

LEMMA CalmTwice ==
  ASSUME NEW t, NEW u, NEW w, Calm(u, t), Calm(w, u) PROVE Calm(w, t)
BY DEF Calm

LEMMA ClosesTwice ==
  ASSUME NEW t, NEW u, NEW w, NEW S, ClosesOnly(u, t, S), ClosesOnly(w, u, S) PROVE ClosesOnly(w, t, S)
BY DEF ClosesOnly

LEMMA FlagsCalm ==
  ASSUME NEW t \in Table, NEW id \in StreamIds
  PROVE  /\ Calm(t, t) /\ ClosesOnly(t, t, {})
         /\ Calm(ShutRd(t, id), t) /\ ClosesOnly(ShutRd(t, id), t, {})
         /\ Calm(ShutWr(t, id), t) /\ ClosesOnly(ShutWr(t, id), t, {})
         /\ Calm(Detach(t, id), t) /\ ClosesOnly(Detach(t, id), t, {})
         /\ Calm(MarkClosing(t, id), t) /\ ClosesOnly(MarkClosing(t, id), t, {})
<1>0. t.st \in [StreamIds -> StreamStates] BY DEF Table
<1>1. Calm(t, t) /\ ClosesOnly(t, t, {}) BY DEF Calm, ClosesOnly
<1>2. /\ ShutRd(t, id).st = t.st /\ ShutRd(t, id).item = t.item
      /\ ShutWr(t, id).st = t.st /\ ShutWr(t, id).item = t.item
      /\ Detach(t, id).st = t.st /\ Detach(t, id).item \subseteq t.item
  BY DEF ShutRd, ShutWr, Detach, Table
<1>3. /\ SetState(t, id, "CLOSING").st = [t.st EXCEPT ![id] = "CLOSING"]
      /\ SetState(t, id, "CLOSING").item = t.item
  BY DEF SetState, Table
<1>4. Calm(MarkClosing(t, id), t) /\ ClosesOnly(MarkClosing(t, id), t, {})
  BY <1>0, <1>1, <1>3 DEF MarkClosing, Calm, ClosesOnly, Live
<1>5. QED BY <1>1, <1>2, <1>4 DEF Calm, ClosesOnly, Live

LEMMA ClosesCalm ==
  ASSUME NEW t \in Table, NEW srv, NEW S \in SUBSET StreamIds
  PROVE  Calm(CloseStreams(t, srv, S), t) /\ ClosesOnly(CloseStreams(t, srv, S), t, S)
<1> DEFINE u == CloseStreams(t, srv, S)
           keep == {id \in S : srv /\ ~IsMine(srv, id)}
           gone == S \ keep
<1>0. t.st \in [StreamIds -> StreamStates] BY DEF Table
<1>1. u.st = [id \in StreamIds |-> IF id \in keep THEN "CLOSED" ELSE IF id \in gone THEN "NONE" ELSE t.st[id]]
      /\ u.item = t.item \ S
  BY DEF CloseStreams
<1>2. keep \subseteq S /\ gone \subseteq S OBVIOUS
<1> HIDE DEF u, keep, gone
<1>3. Calm(u, t) BY <1>0, <1>1 DEF Calm
<1>4. ClosesOnly(u, t, S) BY <1>0, <1>1, <1>2 DEF ClosesOnly, Live
<1>5. QED BY <1>3, <1>4 DEF u

LEMMA OneClosesCalm ==
  ASSUME NEW t \in Table, NEW srv, NEW id \in StreamIds
  PROVE  /\ Calm(CloseStream(t, srv, id), t) /\ ClosesOnly(CloseStream(t, srv, id), t, {id})
         /\ Calm(CloseIfShut(t, srv, id), t) /\ ClosesOnly(CloseIfShut(t, srv, id), t, {id})
<1>1. Calm(t, t) /\ ClosesOnly(t, t, {id}) BY DEF Calm, ClosesOnly
<1>2. Calm(CloseStreams(t, srv, {id}), t) /\ ClosesOnly(CloseStreams(t, srv, {id}), t, {id})
  BY ClosesCalm
<1>3. QED BY <1>1, <1>2 DEF CloseStream, CloseIfShut

LEMMA PeerEndedCalm ==
  ASSUME NEW t \in Table, NEW srv, NEW id \in StreamIds, NEW end \in BOOLEAN
  PROVE  /\ Calm(PeerEnded(t, srv, id, end), t) /\ ClosesOnly(PeerEnded(t, srv, id, end), t, {id})
         /\ ~end => PeerEnded(t, srv, id, end) = t
<1>1. Calm(t, t) /\ ClosesOnly(t, t, {id}) BY DEF Calm, ClosesOnly
<1> DEFINE s == ShutRd(t, id)
<1>2. s \in Table /\ Calm(s, t) /\ ClosesOnly(s, t, {id})
  BY ShutRdTable, FlagsCalm DEF ClosesOnly
<1> HIDE DEF s
<1>3. Calm(CloseIfShut(s, srv, id), s) /\ ClosesOnly(CloseIfShut(s, srv, id), s, {id})
  BY <1>2, OneClosesCalm
<1>4. Calm(CloseIfShut(s, srv, id), t) /\ ClosesOnly(CloseIfShut(s, srv, id), t, {id})
  BY <1>2, <1>3, CalmTwice, ClosesTwice
<1>5. QED BY <1>1, <1>4 DEF PeerEnded, s

LEMMA ClientTableKept ==
  ASSUME Inv, VerdictInv, NEW u, table'["client"] = u, u.item \subseteq table["client"].item,
         Delivered \subseteq Delivered',
         \A x \in StreamIds :
           /\ u.st[x] = "OPENED" => x \in Delivered' \/ table["client"].st[x] = "OPENED"
           /\ u.st[x] = "OPENING" => IsMine(FALSE, x) \/ table["client"].st[x] = "OPENING"
  PROVE  ClientTableTrue'
BY DEF VerdictInv, ClientTableTrue

LEMMA ClientTableCalm ==
  ASSUME Inv, VerdictInv, Calm(table'["client"], table["client"]), Delivered \subseteq Delivered'
  PROVE  ClientTableTrue'
BY ClientTableKept DEF Calm

-----------------------------------------------------------------------------
(* Steps that promise nothing                                              *)

ConnCalm(d, c) == d.nextId = c.nextId /\ c.lastRecv <= d.lastRecv

LEMMA ConnCalmOps ==
  ASSUME NEW c \in Conn
  PROVE  /\ ConnCalm(c, c)
         /\ \A a : ConnCalm([c EXCEPT !.abort = a], c)
         /\ \A n : ConnCalm([c EXCEPT !.remoteMax = n], c)
         /\ \A n : ConnCalm([c EXCEPT !.localMax = n, !.pendingMax = n], c)
         /\ \A id, g : ConnCalm([c EXCEPT !.goaway = g, !.remoteLast = id], c)
         /\ \A id, g : ConnCalm([c EXCEPT !.localLast = id, !.goaway = g], c)
         /\ \A g, why : ConnCalm([c EXCEPT !.goaway = g, !.err = why], c)
         /\ ConnCalm([c EXCEPT !.up = FALSE], c)
         /\ \A id : ConnCalm([c EXCEPT !.lastSent = id], c)
         /\ \A id : c.lastRecv < id /\ id \in StreamIds =>
              ConnCalm([c EXCEPT !.lastRecv = id], c) /\ ConnCalm([c EXCEPT !.lastRecv = id, !.lastProc = id], c)
<1>1. c.lastRecv <= c.lastRecv
  <2>1. c.lastRecv \in 0 .. MaxStreamId BY DEF Conn
  <2>2. \A x \in 0 .. MaxStreamId : x <= x OBVIOUS
  <2>3. QED BY <2>1, <2>2
<1>2. ASSUME NEW d, d.nextId = c.nextId, d.lastRecv = c.lastRecv PROVE ConnCalm(d, c)
  BY <1>1, <1>2 DEF ConnCalm
<1>3. /\ \A a : ConnCalm([c EXCEPT !.abort = a], c)
      /\ \A n : ConnCalm([c EXCEPT !.remoteMax = n], c)
      /\ \A n : ConnCalm([c EXCEPT !.localMax = n, !.pendingMax = n], c)
      /\ \A id, g : ConnCalm([c EXCEPT !.goaway = g, !.remoteLast = id], c)
      /\ \A id, g : ConnCalm([c EXCEPT !.localLast = id, !.goaway = g], c)
  BY <1>2 DEF Conn
<1>4. /\ \A g, why : ConnCalm([c EXCEPT !.goaway = g, !.err = why], c)
      /\ ConnCalm([c EXCEPT !.up = FALSE], c)
      /\ \A id : ConnCalm([c EXCEPT !.lastSent = id], c)
  BY <1>2 DEF Conn
<1>5. ASSUME NEW id \in StreamIds, c.lastRecv < id
      PROVE  ConnCalm([c EXCEPT !.lastRecv = id], c) /\ ConnCalm([c EXCEPT !.lastRecv = id, !.lastProc = id], c)
  <2>1. c.lastRecv <= id
    <3>1. c.lastRecv \in 0 .. MaxStreamId BY DEF Conn
    <3>2. \A x \in 0 .. MaxStreamId : \A y \in StreamIds : x < y => x <= y BY DEF StreamIds
    <3>3. QED BY <1>5, <3>1, <3>2
  <2>2. ASSUME NEW d, d.nextId = c.nextId, d.lastRecv = id PROVE ConnCalm(d, c)
    BY <2>1, <2>2 DEF ConnCalm
  <2>3. QED BY <2>2 DEF Conn
<1>6. QED BY <1>2, <1>3, <1>4, <1>5

(* The verdicts and frames a step may add without having to justify them.  *)
Plain(e) ==
  /\ Apart(e)
  /\ e = "client" => Calm(table'[e], table[e])
  /\ \A f \in ToSet(queue'[e].reg) : f \in ToSet(queue[e].reg) \/ ~IsHeaders(f) \/ e = "server"
  /\ \A f \in ToSet(queue'[e].syn) : f \in ToSet(queue[e].syn) \/ f.code \in {"CANCEL", "INTERNAL_ERROR"}
  /\ ConnCalm(conn'[e], conn[e])
  /\ ToSet(wire'[e]) \subseteq ToSet(wire[e])
  /\ \A f \in ToSet(wire'[Peer(e)]) :
       f \in ToSet(wire[Peer(e)]) \/ f.type \in {"SETTINGS", "SETTINGS_ACK", "GOAWAY", "PUSH_PROMISE"}
  /\ log'[e].seen = log[e].seen /\ log'[e].ended = log[e].ended
  /\ \A id \in StreamIds : \/ log'[e].why[id] = log[e].why[id] \/ e = "server"
                           \/ log'[e].why[id] \in {"CANCEL", "INTERNAL_ERROR"}

LEMMA PlainMove ==
  ASSUME Inv, Inv', VerdictInv, NEW e \in Endpoints, Plain(e)
  PROVE  VerdictInv'
<1>1. CASE e = "server"
  <2>1. /\ Apart("server") /\ Answered' = Answered /\ Seen' = Seen /\ LastRecv <= LastRecv'
        /\ ToServer' \subseteq ToServer
    BY <1>1 DEF Plain, ConnCalm, Answered, Seen, LastRecv, ToServer
  <2>2. \A f \in ToClient' : f \in ToClient \/ ToClientOK(f, Answered', Seen', LastRecv')
    BY <1>1, Ends DEF Plain, ToClient, ToClientOK
  <2>3. \A f \in ServerResetQ' : f \in ServerResetQ \/ ServerResetOK(f, Seen', LastRecv')
    BY <1>1 DEF Plain, ServerResetQ, ServerResetOK, RefusalOK
  <2>4. ServerMove BY <2>1, <2>2, <2>3 DEF ServerMove
  <2>5. QED BY <2>4, ServerStep
<1>2. CASE e = "client"
  <2>1. /\ Apart("client") /\ log["client"].ended = log'["client"].ended /\ Delivered' = Delivered
        /\ NextId' = NextId /\ ToClient' \subseteq ToClient
    BY <1>2 DEF Plain, ConnCalm, Delivered, NextId, ToClient
  <2>2. NextId <= NextId'
    <3>1. NextId \in Int BY Numbers
    <3>2. QED BY <2>1, <3>1
  <2>3. ClientTableTrue' BY <1>2, <2>1, ClientTableCalm DEF Plain
  <2>4. \A f \in ClientResetQ' : f \in ClientResetQ \/ ClientResetOK(f)
    BY <1>2 DEF Plain, ClientResetQ, ClientResetOK
  <2>5. \A f \in Waiting' : IsHeaders(f) => f \in Waiting BY <1>2, Ends DEF Plain, Waiting
  <2>6. \A f \in ToServer' : IsHeaders(f) => f \in ToServer BY <1>2, Ends DEF Plain, ToServer, IsHeaders
  <2>7. \A id \in StreamIds : Justified(id) BY <1>2, Ends DEF Plain, Justified, Verdict
  <2>8. ClientMove BY <2>1, <2>2, <2>3, <2>4, <2>5, <2>6, <2>7 DEF ClientMove
  <2>9. QED BY <2>8, ClientStep
<1>3. QED BY <1>1, <1>2 DEF Endpoints

(* The frames that are not about one stream.                               *)
LEMMA PlainFrames ==
  /\ \A f \in UrgFrames : f.type \in {"SETTINGS", "SETTINGS_ACK"}
  /\ \A last, term : ~IsHeaders(Goaway(last, term))
  /\ \A id, code : Rst(id, code).code = code /\ Rst(id, code).id = id /\ Rst(id, code).type = "RST_STREAM"
  /\ \A id, child : PushPromise(id, child).type = "PUSH_PROMISE"
  /\ \A id, end : Headers(id, end).type = "HEADERS" /\ Headers(id, end).id = id /\ Headers(id, end).end = end
  /\ \A id : Data(id).type = "DATA" /\ Data(id).id = id /\ Data(id).end = TRUE
BY DEF UrgFrames, Goaway, Rst, PushPromise, Headers, Data, F, IsHeaders

LEMMA Place ==
  ASSUME Inv, NEW e \in Endpoints
  PROVE  /\ \A t : table' = [table EXCEPT ![e] = t] => table'[e] = t
         /\ \A q : queue' = [queue EXCEPT ![e] = q] => queue'[e] = q
         /\ \A c : conn' = [conn EXCEPT ![e] = c] => conn'[e] = c
         /\ \A l : log' = [log EXCEPT ![e] = l] => log'[e] = l
         /\ table[e] \in Table /\ queue[e] \in Queues(e) /\ conn[e] \in Conn /\ log[e] \in Log
         /\ Calm(table[e], table[e]) /\ ConnCalm(conn[e], conn[e])
         /\ table \in [Endpoints -> Table]
<1>1. /\ table \in [Endpoints -> Table] /\ conn \in [Endpoints -> Conn] /\ log \in [Endpoints -> Log]
      /\ queue = [x \in Endpoints |-> queue[x]] /\ queue[e] \in Queues(e)
  BY InvParts DEF TablesGood, QueuesOK, ConnsOK, LogsOK
<1>2. QED BY <1>1, ConnCalmOps DEF Calm

LEMMA SubmitPushPlain ==
  ASSUME Inv, NEW parent \in StreamIds, SubmitPush(parent) PROVE ServerMove
<1> DEFINE q == queue["server"]
           f == PushPromise(parent, conn["server"].nextId)
<1>0. "server" \in Endpoints BY Ends
<1>1. Apart("server") BY <1>0, SubmitApart DEF Submit
<1>2. UNCHANGED <<wire, log>>
      /\ queue' = [queue EXCEPT !["server"] = [q EXCEPT !.reg = Append(q.reg, f)]]
      /\ conn' = [conn EXCEPT !["server"] = [conn["server"] EXCEPT !.nextId = conn["server"].nextId + 2]]
  BY DEF SubmitPush, SetConn
<1>3. q \in Queues("server") /\ conn["server"] \in Conn /\ queue'["server"] = [q EXCEPT !.reg = Append(q.reg, f)]
      /\ conn'["server"] = [conn["server"] EXCEPT !.nextId = conn["server"].nextId + 2]
  BY <1>0, <1>2, Place
<1>4. queue'["server"].syn = q.syn BY <1>0, <1>3, QueueMoves
<1>5. LastRecv' = LastRecv BY <1>3 DEF LastRecv, Conn
<1>6. LastRecv <= LastRecv'
  <2>1. LastRecv \in Int BY Numbers
  <2>2. QED BY <1>5, <2>1
<1>7. Answered' = Answered /\ Seen' = Seen /\ ToServer' = ToServer /\ ToClient' = ToClient
      /\ ServerResetQ' = ServerResetQ
  BY <1>2, <1>4 DEF Answered, Seen, ToServer, ToClient, ServerResetQ
<1>8. QED BY <1>1, <1>6, <1>7 DEF ServerMove

LEMMA SubmitResponsePlain ==
  ASSUME Inv, NEW id \in StreamIds, NEW end \in BOOLEAN, SubmitResponse(id, end) PROVE Plain("server")
<1> DEFINE e == "server"
           q == queue[e]
           f == Headers(id, end)
<1>0. e \in Endpoints BY Ends
<1>1. Apart(e) BY <1>0, SubmitApart DEF Submit
<1>2. UNCHANGED <<table, wire, conn>> /\ queue' = [queue EXCEPT ![e] = [q EXCEPT !.reg = Append(q.reg, f)]]
      /\ log' = [log EXCEPT ![e] = [log[e] EXCEPT !.responded = log[e].responded \cup {id}]]
  BY DEF SubmitResponse
<1>3. queue'[e].syn = q.syn BY <1>0, <1>2, Place, QueueMoves
<1>4. log'[e].seen = log[e].seen /\ log'[e].ended = log[e].ended BY <1>0, <1>2, Place DEF Log
<1>5. ConnCalm(conn'[e], conn[e]) BY <1>0, <1>2, Place
<1>6. QED BY <1>1, <1>2, <1>3, <1>4, <1>5 DEF Plain

LEMMA SubmitRstPlain ==
  ASSUME Inv, NEW e \in Endpoints, NEW id \in StreamIds, SubmitRst(e, id) PROVE Plain(e)
<1> DEFINE q == queue[e]
<1>1. Apart(e) BY SubmitApart DEF Submit
<1>2. UNCHANGED wire /\ log' = [log EXCEPT ![e] = [log[e] EXCEPT !.resets = log[e].resets + 1]]
  BY DEF SubmitRst
<1>3. /\ log'[e].seen = log[e].seen /\ log'[e].ended = log[e].ended
      /\ \A x \in StreamIds : log'[e].why[x] = log[e].why[x]
  BY <1>2, Place DEF Log
<1>4. Calm(table'[e], table[e])
  <2>1. UNCHANGED table \/ table' = [table EXCEPT ![e] = MarkClosing(table[e], id)] BY DEF SubmitRst, SetTable
  <2>2. QED BY <2>1, Place, FlagsCalm
<1>5. /\ queue'[e].reg = q.reg
      /\ \A f \in ToSet(queue'[e].syn) : f \in ToSet(q.syn) \/ f.code = "CANCEL"
  <2>1. UNCHANGED queue \/ queue' = [queue EXCEPT ![e] = AddRst(table[e], q, id, "CANCEL")] BY DEF SubmitRst
  <2>2. queue'[e] = q \/ queue'[e] = AddRst(table[e], q, id, "CANCEL") BY <2>1, Place
  <2>3. q \in Queues(e) BY Place
  <2>4. \A f \in ToSet(AddRst(table[e], q, id, "CANCEL").syn) : f \in ToSet(q.syn) \/ f.code = "CANCEL"
    BY <2>3, AddRstMoves
  <2>5. AddRst(table[e], q, id, "CANCEL").reg = q.reg BY <2>3, AddRstMoves
  <2>6. QED BY <2>2, <2>4, <2>5
<1>6. ConnCalm(conn'[e], conn[e])
  <2>1. \/ UNCHANGED conn
        \/ conn' = [conn EXCEPT ![e] = [conn[e] EXCEPT !.abort = "ob_syn holds HEADERS"]]
    BY DEF SubmitRst, SetConn
  <2>2. conn'[e] = conn[e] \/ conn'[e] = [conn[e] EXCEPT !.abort = "ob_syn holds HEADERS"] BY <2>1, Place
  <2>3. conn[e] \in Conn BY Place
  <2>4. QED BY <2>2, <2>3, ConnCalmOps
<1>7. QED BY <1>1, <1>2, <1>3, <1>4, <1>5, <1>6 DEF Plain

(* session_terminate_session and nghttp2_submit_goaway                     *)
LEMMA GoawayPlain ==
  ASSUME NEW e \in Endpoints, NEW q \in Queues(e)
  PROVE  \A c, last, term :
           /\ AddGoaway(q, c, last, term).syn = q.syn
           /\ \A f \in ToSet(AddGoaway(q, c, last, term).reg) : f \in ToSet(q.reg) \/ ~IsHeaders(f)
<1> TAKE c, last, term
<1> DEFINE f == Goaway(IF last < c.localLast THEN last ELSE c.localLast, term)
<1>1. ~IsHeaders(f) BY PlainFrames
<1>2. AddGoaway(q, c, last, term) = [q EXCEPT !.reg = Append(q.reg, f)] BY DEF AddGoaway
<1> HIDE DEF f
<1>3. ToSet([q EXCEPT !.reg = Append(q.reg, f)].reg) = ToSet(q.reg) \cup {f}
      /\ [q EXCEPT !.reg = Append(q.reg, f)].syn = q.syn
  BY QueueMoves
<1>4. QED BY <1>1, <1>2, <1>3

LEMMA TerminatePlain ==
  ASSUME Inv, NEW e \in Endpoints, NEW c \in Conn, ConnCalm(c, conn[e]), NEW why, Terminate(e, c, why)
  PROVE  /\ ConnCalm(conn'[e], conn[e]) /\ queue'[e].syn = queue[e].syn
         /\ \A f \in ToSet(queue'[e].reg) : f \in ToSet(queue[e].reg) \/ ~IsHeaders(f)
<1>1. \/ conn' = [conn EXCEPT ![e] = c] /\ UNCHANGED queue
      \/ /\ conn' = [conn EXCEPT ![e] = [c EXCEPT !.goaway = c.goaway \cup {"TERM_ON_SEND"}, !.err = why]]
         /\ queue' = [queue EXCEPT ![e] = AddGoaway(queue[e], c, c.lastProc, TRUE)]
  BY DEF Terminate, SetConn
<1>2. ConnCalm([c EXCEPT !.goaway = c.goaway \cup {"TERM_ON_SEND"}, !.err = why], conn[e])
  BY DEF ConnCalm, Conn
<1>3. \/ conn'[e] = c /\ queue'[e] = queue[e]
      \/ /\ conn'[e] = [c EXCEPT !.goaway = c.goaway \cup {"TERM_ON_SEND"}, !.err = why]
         /\ queue'[e] = AddGoaway(queue[e], c, c.lastProc, TRUE)
  BY <1>1, Place
<1>4. /\ AddGoaway(queue[e], c, c.lastProc, TRUE).syn = queue[e].syn
      /\ \A f \in ToSet(AddGoaway(queue[e], c, c.lastProc, TRUE).reg) : f \in ToSet(queue[e].reg) \/ ~IsHeaders(f)
  BY Place, GoawayPlain
<1>5. QED BY <1>2, <1>3, <1>4

LEMMA SubmitTerminatePlain == ASSUME Inv, NEW e \in Endpoints, SubmitTerminate(e) PROVE Plain(e)
<1>1. Apart(e) BY SubmitApart DEF Submit
<1>2. /\ Terminate(e, conn[e], conn[e].err) /\ UNCHANGED <<table, wire>>
      /\ log' = [log EXCEPT ![e] = [log[e] EXCEPT !.closing = TRUE]]
  BY DEF SubmitTerminate
<1>3. /\ log'[e].seen = log[e].seen /\ log'[e].ended = log[e].ended
      /\ \A x \in StreamIds : log'[e].why[x] = log[e].why[x]
  BY <1>2, Place DEF Log
<1>4. /\ ConnCalm(conn'[e], conn[e]) /\ queue'[e].syn = queue[e].syn
      /\ \A f \in ToSet(queue'[e].reg) : f \in ToSet(queue[e].reg) \/ ~IsHeaders(f)
  BY <1>2, Place, TerminatePlain
<1>5. Calm(table'[e], table[e]) BY <1>2, Place
<1>6. QED BY <1>1, <1>2, <1>3, <1>4, <1>5 DEF Plain

LEMMA SubmitGoawayPlain == ASSUME Inv, NEW e \in Endpoints, SubmitGoaway(e) PROVE Plain(e)
<1>1. Apart(e) BY SubmitApart DEF Submit
<1>2. /\ queue' = [queue EXCEPT ![e] = AddGoaway(queue[e], conn[e], conn[e].lastProc, FALSE)]
      /\ UNCHANGED <<table, wire, conn>>
      /\ log' = [log EXCEPT ![e] = [log[e] EXCEPT !.closing = TRUE]]
  BY DEF SubmitGoaway
<1>3. /\ log'[e].seen = log[e].seen /\ log'[e].ended = log[e].ended
      /\ \A x \in StreamIds : log'[e].why[x] = log[e].why[x]
  BY <1>2, Place DEF Log
<1>4. /\ queue'[e].syn = queue[e].syn
      /\ \A f \in ToSet(queue'[e].reg) : f \in ToSet(queue[e].reg) \/ ~IsHeaders(f)
  <2>1. queue'[e] = AddGoaway(queue[e], conn[e], conn[e].lastProc, FALSE) BY <1>2, Place
  <2>2. queue[e] \in Queues(e) BY Place
  <2>3. /\ AddGoaway(queue[e], conn[e], conn[e].lastProc, FALSE).syn = queue[e].syn
        /\ \A f \in ToSet(AddGoaway(queue[e], conn[e], conn[e].lastProc, FALSE).reg) :
             f \in ToSet(queue[e].reg) \/ ~IsHeaders(f)
    BY <2>2, GoawayPlain
  <2>4. QED BY <2>1, <2>3
<1>5. Calm(table'[e], table[e]) /\ ConnCalm(conn'[e], conn[e]) BY <1>2, Place
<1>6. QED BY <1>1, <1>2, <1>3, <1>4, <1>5 DEF Plain

LEMMA SendSettingsPlain == ASSUME Inv, NEW e \in Endpoints, SendSettings(e) PROVE Plain(e)
<1> DEFINE f == Head(queue[e].urg)
<1>1. Apart(e) BY SendApart DEF Send
<1>2. /\ UrgReady(e) /\ queue' = [queue EXCEPT ![e] = AfterUrg(e)]
      /\ UNCHANGED wire \/ Transmit(e, f)
      /\ UNCHANGED <<table, conn, log>>
  BY DEF SendSettings, SetQueue
<1>3. queue'[e].reg = queue[e].reg /\ queue'[e].syn = queue[e].syn
  <2>1. queue'[e] = AfterUrg(e) /\ queue[e] \in Queues(e) BY <1>2, Place
  <2>2. QED BY <2>1 DEF AfterUrg, Queues
<1>4. /\ ToSet(wire'[e]) = ToSet(wire[e])
      /\ \A x \in ToSet(wire'[Peer(e)]) : x \in ToSet(wire[Peer(e)]) \/ x.type \in {"SETTINGS", "SETTINGS_ACK"}
  <2>1. f \in UrgFrames
    <3>1. queue[e] \in Queues(e) /\ queue[e].urg # << >> BY <1>2, Place DEF UrgReady
    <3>2. QED BY <3>1, QueueOps
  <2>2. f.type \in {"SETTINGS", "SETTINGS_ACK"} BY <2>1, PlainFrames
  <2> HIDE DEF f
  <2>3. Transmit(e, f) => ToSet(wire'[Peer(e)]) = ToSet(wire[Peer(e)]) \cup {f} /\ wire'[e] = wire[e]
    BY WireMoves
  <2>4. QED BY <1>2, <2>2, <2>3
<1>5. Calm(table'[e], table[e]) /\ ConnCalm(conn'[e], conn[e]) BY <1>2, Place
<1>6. QED BY <1>1, <1>2, <1>3, <1>4, <1>5 DEF Plain

(* Taking the next frame of ob_reg.                                        *)
LEMMA TakeReg ==
  ASSUME Inv, NEW e \in Endpoints, RegReady(e), queue' = [queue EXCEPT ![e] = AfterReg(e)]
  PROVE  /\ ToSet(queue'[e].reg) \subseteq ToSet(queue[e].reg) /\ queue'[e].syn = queue[e].syn
         /\ NextReg(e) \in ToSet(queue[e].reg) /\ NextReg(e) \in RegFrames(e)
<1>1. queue'[e] = AfterReg(e) /\ queue[e] \in Queues(e) /\ queue[e].reg # << >> BY Place DEF RegReady
<1>2. QED BY <1>1, QueueMoves, QueueOps DEF AfterReg, NextReg

LEMMA SendPromisePlain == ASSUME Inv, SendPromise PROVE Plain("server")
<1> DEFINE e == "server"
           f == NextReg(e)
<1>0. e \in Endpoints BY Ends
<1>1. Apart(e) BY <1>0, SendApart DEF Send
<1>2. /\ RegReady(e) /\ f.type = "PUSH_PROMISE" /\ queue' = [queue EXCEPT ![e] = AfterReg(e)]
      /\ UNCHANGED wire \/ Transmit(e, f)
  BY DEF SendPromise, SetQueue
<1>3. UNCHANGED conn \/ (\E a : conn' = [conn EXCEPT ![e] = [conn[e] EXCEPT !.abort = a]])
      \/ (\E a : conn' = [conn EXCEPT ![e] = [conn[e] EXCEPT !.lastSent = a]])
  BY DEF SendPromise, SetConn
<1>4. UNCHANGED log \/ log' = ClosedWith(e, "INTERNAL_ERROR") BY DEF SendPromise
<1>5. ToSet(queue'[e].reg) \subseteq ToSet(queue[e].reg) /\ queue'[e].syn = queue[e].syn BY <1>0, <1>2, TakeReg
<1>6. /\ ToSet(wire'[e]) = ToSet(wire[e])
      /\ \A x \in ToSet(wire'[Peer(e)]) : x \in ToSet(wire[Peer(e)]) \/ x.type = "PUSH_PROMISE"
  <2> HIDE DEF f, e
  <2>1. Transmit(e, f) => ToSet(wire'[Peer(e)]) = ToSet(wire[Peer(e)]) \cup {f} /\ wire'[e] = wire[e]
    BY <1>0, WireMoves
  <2>2. QED BY <1>2, <2>1
<1>7. ConnCalm(conn'[e], conn[e])
  <2>1. conn'[e] = conn[e] \/ (\E a : conn'[e] = [conn[e] EXCEPT !.abort = a])
        \/ (\E a : conn'[e] = [conn[e] EXCEPT !.lastSent = a])
    BY <1>0, <1>3, Place
  <2>2. conn[e] \in Conn BY <1>0, Place
  <2>3. QED BY <2>1, <2>2, ConnCalmOps
<1>8. log'[e].seen = log[e].seen /\ log'[e].ended = log[e].ended BY <1>0, <1>4, ClosedMoves
<1>9. QED BY <1>1, <1>5, <1>6, <1>7, <1>8 DEF Plain

LEMMA GoawayCloses ==
  ASSUME Inv, NEW e \in Endpoints, NEW last, NEW mine
  PROVE  Calm(CloseOnGoaway(e, last, mine), table[e])
<1>1. {id \in LiveStreams(table[e]) : IsMine(Srv(e), id) = mine /\ id > last} \in SUBSET StreamIds
  BY DEF LiveStreams
<1>2. table[e] \in Table BY Place
<1>3. QED BY <1>1, <1>2, ClosesCalm DEF CloseOnGoaway

LEMMA SendGoawayPlain == ASSUME Inv, NEW e \in Endpoints, SendGoaway(e) PROVE Plain(e)
<1> DEFINE f == NextReg(e)
           code == IF Srv(e) THEN "REFUSED_STREAM" ELSE "CANCEL"
<1>1. Apart(e) BY SendApart DEF Send
<1>2. /\ RegReady(e) /\ f.type = "GOAWAY" /\ queue' = [queue EXCEPT ![e] = AfterReg(e)]
      /\ Transmit(e, f) /\ log' = ClosedWith(e, code)
      /\ table' = [table EXCEPT ![e] = CloseOnGoaway(e, f.arg, FALSE)]
      /\ \E id, g : conn' = [conn EXCEPT ![e] = [conn[e] EXCEPT !.localLast = id, !.goaway = g]]
  BY DEF SendGoaway, SetQueue, SetTable, SetConn
<1>3. ToSet(queue'[e].reg) \subseteq ToSet(queue[e].reg) /\ queue'[e].syn = queue[e].syn BY <1>2, TakeReg
<1>4. /\ ToSet(wire'[e]) = ToSet(wire[e])
      /\ \A x \in ToSet(wire'[Peer(e)]) : x \in ToSet(wire[Peer(e)]) \/ x.type = "GOAWAY"
  <2> HIDE DEF f
  <2>1. Transmit(e, f) => ToSet(wire'[Peer(e)]) = ToSet(wire[Peer(e)]) \cup {f} /\ wire'[e] = wire[e]
    BY WireMoves
  <2>2. QED BY <1>2, <2>1
<1>5. ConnCalm(conn'[e], conn[e])
  <2>1. PICK id, g : conn'[e] = [conn[e] EXCEPT !.localLast = id, !.goaway = g] BY <1>2, Place
  <2>2. conn[e] \in Conn BY Place
  <2>3. ConnCalm([conn[e] EXCEPT !.localLast = id, !.goaway = g], conn[e]) BY <2>2, ConnCalmOps
  <2>4. QED BY <2>1, <2>3
<1>6. Calm(table'[e], table[e]) BY <1>2, Place, GoawayCloses
<1>7. /\ log'[e].seen = log[e].seen /\ log'[e].ended = log[e].ended
      /\ \A id \in StreamIds : log'[e].why[id] = log[e].why[id] \/ log'[e].why[id] = code
  <2> HIDE DEF code
  <2>1. QED BY <1>2, ClosedMoves
<1>8. e = "server" \/ code = "CANCEL" BY Ends DEF Endpoints
<1>9. QED BY <1>1, <1>3, <1>4, <1>5, <1>6, <1>7, <1>8 DEF Plain

(* A frame that was received is gone from the wire.                        *)
LEMMA Received ==
  ASSUME Inv, NEW e \in Endpoints, NEW type, Arrives(e, type)
  PROVE  /\ ToSet(wire'[e]) \subseteq ToSet(wire[e]) /\ wire'[Peer(e)] = wire[Peer(e)]
         /\ Head(wire[e]) \in ToSet(wire[e]) /\ Head(wire[e]) \in FramesTo(e) /\ Head(wire[e]).type = type
<1>1. Head(wire[e]) \in FramesTo(e) /\ Head(wire[e]).type = type BY Here, WireOps
<1>2. QED BY <1>1, WireMoves

LEMMA RecvInvalidPlain == ASSUME Inv, NEW e \in Endpoints, RecvInvalid(e) PROVE Plain(e)
<1> DEFINE f == Head(wire[e])
           c == IF ErrorOf(e, f) = "max concurrent streams exceeded" /\ NewPeerId(e, f.id)
                THEN [conn[e] EXCEPT !.lastRecv = f.id] ELSE conn[e]
<1>1. Apart(e) BY RecvApart DEF Recv
<1>2. Arrives(e, f.type) /\ Terminate(e, c, ErrorOf(e, f)) /\ UNCHANGED <<table, log>> BY DEF RecvInvalid
<1>3. ToSet(wire'[e]) \subseteq ToSet(wire[e]) /\ wire'[Peer(e)] = wire[Peer(e)] /\ f \in FramesTo(e)
  BY <1>2, Received
<1> HIDE DEF f
<1>4. c \in Conn /\ ConnCalm(c, conn[e])
  <2>1. conn[e] \in Conn /\ ConnCalm(conn[e], conn[e]) BY Place
  <2>2. ASSUME ErrorOf(e, f) = "max concurrent streams exceeded", NewPeerId(e, f.id)
        PROVE  [conn[e] EXCEPT !.lastRecv = f.id] \in Conn /\ ConnCalm([conn[e] EXCEPT !.lastRecv = f.id], conn[e])
    <3>1. f.id \in StreamIds /\ conn[e].lastRecv < f.id
      BY <1>3, <2>2, ErrorKinds, FrameFacts DEF NewPeerId
    <3>2. QED BY <2>1, <3>1, ConnOps, ConnCalmOps
  <2>3. QED BY <2>1, <2>2
<1> HIDE DEF c
<1>5. /\ ConnCalm(conn'[e], conn[e]) /\ queue'[e].syn = queue[e].syn
      /\ \A x \in ToSet(queue'[e].reg) : x \in ToSet(queue[e].reg) \/ ~IsHeaders(x)
  BY <1>2, <1>4, TerminatePlain
<1>6. Calm(table'[e], table[e]) BY <1>2, Place
<1>7. QED BY <1>1, <1>2, <1>3, <1>5, <1>6 DEF Plain

LEMMA RecvPromisePlain == ASSUME Inv, EndInv, RecvPromise PROVE Plain("client")
<1> DEFINE e == "client"
           f == Head(wire[e])
           t == table[e]
           c == conn[e]
<1>0. e \in Endpoints /\ t \in Table /\ c \in Conn /\ queue[e] \in Queues(e) BY Ends, Place
<1>1. Apart(e) BY <1>0, RecvApart DEF Recv
<1>2. Accepted(e, "PUSH_PROMISE") /\ UNCHANGED log BY DEF RecvPromise
<1>3. f.arg \in StreamIds BY <1>0, <1>2, Arrived
<1>4. ToSet(wire'[e]) \subseteq ToSet(wire[e]) /\ wire'[Peer(e)] = wire[Peer(e)]
  BY <1>0, <1>2, Received DEF Accepted
<1>5. AllowIncoming(c) => c.lastRecv < f.arg
  <2>1. PromiseError(e, f.id, f.arg) = "none"
    <3>1. f.type = "PUSH_PROMISE" BY <1>0, <1>2, Arrived
    <3>2. ErrorOf(e, f) = "none" BY <1>2 DEF Accepted
    <3>3. QED BY <3>1, <3>2 DEF ErrorOf
  <2>2. AllowIncoming(c) => NewPeerId(e, f.arg) BY <2>1 DEF PromiseError
  <2>3. QED BY <2>2 DEF NewPeerId
<1>6. \/ ~AllowIncoming(c) /\ UNCHANGED <<table, queue, conn>>
      \/ /\ AllowIncoming(c) /\ UNCHANGED table
         /\ conn' = [conn EXCEPT ![e] = [c EXCEPT !.lastRecv = f.arg]]
         /\ queue' = [queue EXCEPT ![e] = AddRst(t, queue[e], f.arg, "CANCEL")]
      \/ /\ AllowIncoming(c) /\ UNCHANGED queue
         /\ conn' = [conn EXCEPT ![e] = [c EXCEPT !.lastRecv = f.arg, !.lastProc = f.arg]]
         /\ table' = [table EXCEPT ![e] = OpenStream(t, FALSE, f.arg, "RESERVED")]
  BY DEF RecvPromise, SetConn, SetQueue, SetTable
<1> HIDE DEF e, f, t, c
<1>7. Calm(table'[e], table[e])
  <2>1. Calm(OpenStream(t, FALSE, f.arg, "RESERVED"), t)
    BY <1>0, <1>3 DEF OpenStream, Calm, Table
  <2>2. Calm(t, t) /\ (UNCHANGED table => table'[e] = t)
        /\ (table' = [table EXCEPT ![e] = OpenStream(t, FALSE, f.arg, "RESERVED")] =>
              table'[e] = OpenStream(t, FALSE, f.arg, "RESERVED"))
    BY <1>0, Place DEF t
  <2>3. QED BY <1>6, <2>1, <2>2 DEF t
<1>8. ConnCalm(conn'[e], conn[e])
  <2>1. \/ conn'[e] = c
        \/ c.lastRecv < f.arg /\ conn'[e] \in {[c EXCEPT !.lastRecv = f.arg],
                                               [c EXCEPT !.lastRecv = f.arg, !.lastProc = f.arg]}
    BY <1>0, <1>5, <1>6, Place DEF c
  <2>2. QED BY <1>0, <1>3, <2>1, ConnCalmOps DEF c
<1>9. /\ queue'[e].reg = queue[e].reg
      /\ \A x \in ToSet(queue'[e].syn) : x \in ToSet(queue[e].syn) \/ x.code = "CANCEL"
  <2>1. queue'[e] \in {queue[e], AddRst(t, queue[e], f.arg, "CANCEL")} BY <1>0, <1>6, Place
  <2>2. AddRst(t, queue[e], f.arg, "CANCEL").reg = queue[e].reg BY <1>0, AddRstMoves
  <2>3. \A x \in ToSet(AddRst(t, queue[e], f.arg, "CANCEL").syn) : x \in ToSet(queue[e].syn) \/ x.code = "CANCEL"
    BY <1>0, AddRstMoves
  <2>4. QED BY <2>1, <2>2, <2>3
<1>10. Plain(e) BY <1>1, <1>2, <1>4, <1>7, <1>8, <1>9 DEF Plain
<1>11. QED BY <1>10 DEF e

LEMMA RecvSettingsPlain == ASSUME Inv, NEW e \in Endpoints, RecvSettings(e) PROVE Plain(e)
<1>1. Apart(e) BY RecvApart DEF Recv
<1>2. /\ Arrives(e, "SETTINGS") /\ UNCHANGED <<table, log>>
      /\ conn' = [conn EXCEPT ![e] = [conn[e] EXCEPT !.remoteMax = Head(wire[e]).arg]]
      /\ \/ queue' = [queue EXCEPT ![e] = queue[e]]
         \/ queue' = [queue EXCEPT ![e] = [queue[e] EXCEPT !.urg = Append(queue[e].urg, SettingsAck)]]
  BY DEF RecvSettings, Accepted, SetConn, SetQueue
<1>3. ToSet(wire'[e]) \subseteq ToSet(wire[e]) /\ wire'[Peer(e)] = wire[Peer(e)] BY <1>2, Received
<1>4. queue'[e].reg = queue[e].reg /\ queue'[e].syn = queue[e].syn
  <2>1. queue'[e] = queue[e] \/ queue'[e] = [queue[e] EXCEPT !.urg = Append(queue[e].urg, SettingsAck)]
    BY <1>2, Place
  <2>2. queue[e] \in Queues(e) BY Place
  <2>3. QED BY <2>1, <2>2 DEF Queues
<1>5. ConnCalm(conn'[e], conn[e])
  <2>1. conn[e] \in Conn /\ conn'[e] = [conn[e] EXCEPT !.remoteMax = Head(wire[e]).arg] BY <1>2, Place
  <2>2. QED BY <2>1, ConnCalmOps
<1>6. Calm(table'[e], table[e]) BY <1>2, Place
<1>7. QED BY <1>1, <1>2, <1>3, <1>4, <1>5, <1>6 DEF Plain

LEMMA RecvSettingsAckPlain == ASSUME Inv, NEW e \in Endpoints, RecvSettingsAck(e) PROVE Plain(e)
<1>1. Apart(e) BY RecvApart DEF Recv
<1>2. /\ Arrives(e, "SETTINGS_ACK") /\ UNCHANGED <<table, queue, log>>
      /\ conn' = [conn EXCEPT ![e] = [conn[e] EXCEPT !.localMax = MaxOf(e), !.pendingMax = MaxOf(e)]]
  BY DEF RecvSettingsAck, Accepted, SetConn
<1>3. ToSet(wire'[e]) \subseteq ToSet(wire[e]) /\ wire'[Peer(e)] = wire[Peer(e)] BY <1>2, Received
<1>4. ConnCalm(conn'[e], conn[e])
  <2>1. conn[e] \in Conn /\ conn'[e] = [conn[e] EXCEPT !.localMax = MaxOf(e), !.pendingMax = MaxOf(e)]
    BY <1>2, Place
  <2>2. QED BY <2>1, ConnCalmOps
<1>5. Calm(table'[e], table[e]) BY <1>2, Place
<1>6. QED BY <1>1, <1>2, <1>3, <1>4, <1>5 DEF Plain

LEMMA RecvGoawayPlain == ASSUME Inv, NEW e \in Endpoints, RecvGoaway(e) PROVE Plain(e)
<1> DEFINE last == Head(wire[e]).arg
           g == conn[e].goaway \cup {"RECV"}
<1>1. Apart(e) BY RecvApart DEF Recv
<1>2. /\ Arrives(e, "GOAWAY") /\ UNCHANGED queue /\ log' = ClosedWith(e, "CANCEL")
      /\ conn' = [conn EXCEPT ![e] = [conn[e] EXCEPT !.goaway = g, !.remoteLast = last]]
      /\ table' = [table EXCEPT ![e] = CloseOnGoaway(e, last, TRUE)]
  BY DEF RecvGoaway, Accepted, SetConn, SetTable
<1> HIDE DEF last, g
<1>3. ToSet(wire'[e]) \subseteq ToSet(wire[e]) /\ wire'[Peer(e)] = wire[Peer(e)] BY <1>2, Received
<1>4. ConnCalm(conn'[e], conn[e])
  <2>1. conn[e] \in Conn /\ conn'[e] = [conn[e] EXCEPT !.goaway = g, !.remoteLast = last] BY <1>2, Place
  <2>2. ConnCalm([conn[e] EXCEPT !.goaway = g, !.remoteLast = last], conn[e]) BY <2>1, ConnCalmOps
  <2>3. QED BY <2>1, <2>2
<1>5. Calm(table'[e], table[e]) BY <1>2, Place, GoawayCloses
<1>6. /\ log'[e].seen = log[e].seen /\ log'[e].ended = log[e].ended
      /\ \A id \in StreamIds : log'[e].why[id] = log[e].why[id] \/ log'[e].why[id] = "CANCEL"
  BY <1>2, ClosedMoves
<1>7. QED BY <1>1, <1>2, <1>3, <1>4, <1>5, <1>6 DEF Plain

LEMMA DropPlain == ASSUME Inv, NEW e \in Endpoints, Drop(e) PROVE Plain(e)
<1>1. Apart(e) BY DropApart
<1>2. UNCHANGED <<table, queue, wire, log>> /\ conn' = [conn EXCEPT ![e] = [conn[e] EXCEPT !.up = FALSE]]
  BY DEF Drop, SetConn
<1>3. ConnCalm(conn'[e], conn[e])
  <2>1. conn[e] \in Conn /\ conn'[e] = [conn[e] EXCEPT !.up = FALSE] BY <1>2, Place
  <2>2. QED BY <2>1, ConnCalmOps
<1>4. Calm(table'[e], table[e]) BY <1>2, Place
<1>5. QED BY <1>1, <1>2, <1>3, <1>4 DEF Plain

-----------------------------------------------------------------------------
(* The steps of the server that promise something                          *)

LEMMA SendResponseMove == ASSUME Inv, Inv', EndInv, VerdictInv, SendResponse PROVE VerdictInv'
<1> DEFINE e == "server"
           f == NextReg(e)
           t == table[e]
           fin == IF f.end THEN {f.id} ELSE {}
<1>0. e \in Endpoints /\ Peer(e) = "client" BY Ends
<1>1. Apart(e) BY <1>0, SendApart DEF Send
<1>2. /\ RegReady(e) /\ f.type = "HEADERS" /\ UNCHANGED conn
      /\ \/ /\ queue' = [queue EXCEPT ![e] = AfterReg(e)] /\ Transmit(e, f) /\ log' = SentLast(e, "NO_ERROR", fin)
         \/ /\ queue' = [queue EXCEPT ![e] = AddRst(t, AfterReg(e), f.id, "INTERNAL_ERROR")]
            /\ UNCHANGED <<wire, log>>
  BY DEF SendResponse, SetQueue
<1>3. conn[e] \in Conn /\ ConnCalm(conn'[e], conn[e]) BY <1>0, <1>2, Place
<1> HIDE DEF t
<1>4. CASE /\ queue' = [queue EXCEPT ![e] = AfterReg(e)] /\ Transmit(e, f) /\ log' = SentLast(e, "NO_ERROR", fin)
  <2>1. queue'[e].syn = queue[e].syn BY <1>0, <1>2, <1>4, TakeReg
  <2>2. ToSet(wire'["client"]) = ToSet(wire["client"]) \cup {f} /\ wire'[e] = wire[e]
    BY <1>0, <1>4, WireMoves
  <2>3. log'[e].seen = log[e].seen /\ log'[e].ended = log[e].ended \cup fin
    <3> HIDE DEF fin, e
    <3>1. QED BY <1>0, <1>4, LogMoves
  <2>4. Answered \subseteq Answered' /\ Seen' = Seen /\ ToServer' = ToServer /\ ServerResetQ' = ServerResetQ
        /\ ToClient' = ToClient \cup {f} /\ LastRecv <= LastRecv'
    BY <1>3, <2>1, <2>2, <2>3 DEF Answered, Seen, ToServer, ServerResetQ, ToClient, LastRecv, ConnCalm
  <2>5. ToClientOK(f, Answered', Seen', LastRecv') BY <1>2, <2>3 DEF ToClientOK, Answered
  <2>6. ServerMove BY <1>1, <2>4, <2>5 DEF ServerMove
  <2>7. QED BY <2>6, ServerStep
<1>5. CASE /\ queue' = [queue EXCEPT ![e] = AddRst(t, AfterReg(e), f.id, "INTERNAL_ERROR")]
           /\ UNCHANGED <<wire, log>>
  <2>1. queue'[e] = AddRst(t, AfterReg(e), f.id, "INTERNAL_ERROR") BY <1>0, <1>5, Place
  <2>2. AfterReg(e) \in Queues(e) /\ AfterReg(e).syn = queue[e].syn
    <3>1. queue[e] \in Queues(e) /\ queue[e].reg # << >> BY <1>0, <1>2, Place DEF RegReady
    <3>2. QED BY <1>0, <3>1, QueueOps, QueueMoves DEF AfterReg
  <2>3. \A x \in ToSet(queue'[e].syn) : x \in ToSet(queue[e].syn) \/ x.code = "INTERNAL_ERROR"
    <3>1. \A x \in ToSet(AddRst(t, AfterReg(e), f.id, "INTERNAL_ERROR").syn) :
             x \in ToSet(AfterReg(e).syn) \/ x.code = "INTERNAL_ERROR"
      BY <1>0, <2>2, AddRstMoves
    <3>2. QED BY <2>1, <2>2, <3>1
  <2>4. Plain(e) BY <1>1, <1>3, <1>5, <2>3 DEF Plain
  <2>5. QED BY <1>0, <2>4, PlainMove
<1>6. QED BY <1>2, <1>4, <1>5

LEMMA ServerSendRstMove == ASSUME Inv, Inv', EndInv, VerdictInv, SendRst("server") PROVE VerdictInv'
<1> DEFINE e == "server"
           f == Head(queue[e].syn)
<1>0. e \in Endpoints /\ Peer(e) = "client" BY Ends
<1>1. Apart(e) BY <1>0, SendApart DEF Send
<1>2. /\ SynReady(e) /\ UNCHANGED conn /\ queue' = [queue EXCEPT ![e] = AfterSyn(e)]
      /\ UNCHANGED <<wire, log>> \/ (Transmit(e, f) /\ log' = SentLast(e, f.code, {f.id}))
  BY DEF SendRst, SetQueue
<1>3. conn[e] \in Conn /\ ConnCalm(conn'[e], conn[e]) BY <1>0, <1>2, Place
<1>4. /\ f \in ToSet(queue[e].syn) /\ f.type = "RST_STREAM"
      /\ ToSet(queue'[e].syn) \subseteq ToSet(queue[e].syn)
  <2>1. queue[e] \in Queues(e) /\ queue[e].syn # << >> /\ queue'[e] = AfterSyn(e) BY <1>0, <1>2, Place DEF SynReady
  <2>2. f \in SynFrames BY <1>0, <2>1, QueueOps
  <2>3. f.type = "RST_STREAM" BY <2>2 DEF SynFrames
  <2>4. QED BY <1>0, <2>1, <2>3, QueueMoves DEF AfterSyn
<1>5. ServerResetOK(f, Seen, LastRecv) BY <1>4 DEF VerdictInv, FramesTrue, ServerResetQ
<1>6. /\ Answered \subseteq Answered' /\ Seen' = Seen
      /\ ToSet(wire'["client"]) \subseteq ToSet(wire["client"]) \cup {f} /\ wire'[e] = wire[e]
  <2>1. CASE UNCHANGED <<wire, log>> BY <2>1 DEF Answered, Seen
  <2>2. CASE Transmit(e, f) /\ log' = SentLast(e, f.code, {f.id})
    <3>1. log'[e].seen = log[e].seen /\ log[e].ended \subseteq log'[e].ended
      <4> HIDE DEF e, f
      <4>1. QED BY <1>0, <2>2, LogMoves
    <3>2. ToSet(wire'["client"]) = ToSet(wire["client"]) \cup {f} /\ wire'[e] = wire[e]
      BY <1>0, <2>2, WireMoves
    <3>3. QED BY <3>1, <3>2 DEF Answered, Seen
  <2>3. QED BY <1>2, <2>1, <2>2
<1>7. ToServer' = ToServer /\ ServerResetQ' \subseteq ServerResetQ
      /\ ToClient' \subseteq ToClient \cup {f} /\ LastRecv' = LastRecv /\ LastRecv <= LastRecv'
  BY <1>2, <1>3, <1>4, <1>6 DEF ToServer, ServerResetQ, ToClient, LastRecv, ConnCalm
<1>8. ToClientOK(f, Answered', Seen', LastRecv') BY <1>4, <1>5, <1>6, <1>7 DEF ToClientOK
<1>9. ServerMove BY <1>1, <1>6, <1>7, <1>8 DEF ServerMove
<1>10. QED BY <1>9, ServerStep

LEMMA ServerSendDataMove ==
  ASSUME Inv, Inv', EndInv, VerdictInv, NEW id \in StreamIds, SendData("server", id) PROVE VerdictInv'
<1> DEFINE e == "server"
           f == Data(id)
<1>0. e \in Endpoints /\ Peer(e) = "client" BY Ends
<1>1. Apart(e) BY <1>0, SendApart DEF Send
<1>2. /\ UNCHANGED <<queue, conn>>
      /\ UNCHANGED <<wire, log>> \/ (Transmit(e, f) /\ log' = SentLast(e, "NO_ERROR", {id}))
  BY DEF SendData
<1>3. ConnCalm(conn'[e], conn[e]) BY <1>0, <1>2, Place
<1>4. /\ Answered \subseteq Answered' /\ Seen' = Seen /\ wire'[e] = wire[e]
      /\ \/ wire'["client"] = wire["client"]
         \/ ToSet(wire'["client"]) = ToSet(wire["client"]) \cup {f} /\ id \in Answered'
  <2>1. CASE UNCHANGED <<wire, log>> BY <2>1 DEF Answered, Seen
  <2>2. CASE Transmit(e, f) /\ log' = SentLast(e, "NO_ERROR", {id})
    <3>1. log'[e].seen = log[e].seen /\ log'[e].ended = log[e].ended \cup {id}
      <4> HIDE DEF e, f
      <4>1. QED BY <1>0, <2>2, LogMoves
    <3>2. ToSet(wire'["client"]) = ToSet(wire["client"]) \cup {f} /\ wire'[e] = wire[e]
      BY <1>0, <2>2, WireMoves
    <3>3. QED BY <3>1, <3>2 DEF Answered, Seen
  <2>3. QED BY <1>2, <2>1, <2>2
<1>5. f.type = "DATA" /\ f.id = id BY PlainFrames
<1> HIDE DEF f
<1>6. ToServer' = ToServer /\ ServerResetQ' = ServerResetQ /\ LastRecv <= LastRecv'
  BY <1>2, <1>3, <1>4 DEF ToServer, ServerResetQ, LastRecv, ConnCalm
<1>7. \A x \in ToClient' : x \in ToClient \/ ToClientOK(x, Answered', Seen', LastRecv')
  BY <1>4, <1>5 DEF ToClient, ToClientOK
<1>8. ServerMove BY <1>1, <1>4, <1>6, <1>7 DEF ServerMove
<1>9. QED BY <1>8, ServerStep

(* A request that is refused was never handed over: the identifier is new. *)
LEMMA RecvRequestMove == ASSUME Inv, Inv', EndInv, VerdictInv, RecvRequest PROVE VerdictInv'
<1> DEFINE e == "server"
           f == Head(wire[e])
           t == table[e]
           c == [conn[e] EXCEPT !.lastRecv = f.id]
<1>0. e \in Endpoints /\ Peer(e) = "client" BY Ends
<1>1. Apart(e) BY <1>0, RecvApart DEF Recv
<1>2. Accepted(e, "HEADERS") /\ NewPeerId(e, f.id) BY DEF RecvRequest
<1>3. f.id \in StreamIds /\ f.type = "HEADERS" BY <1>0, <1>2, Arrived
<1>4. LastRecv < f.id BY <1>2 DEF NewPeerId, LastRecv
<1>5. ToSet(wire'[e]) \subseteq ToSet(wire[e]) /\ wire'["client"] = wire["client"] /\ f \in ToServer
  BY <1>0, <1>2, Received DEF Accepted, ToServer
<1>6. IsMine(FALSE, f.id) BY <1>3, <1>5, Numbers DEF IsHeaders
<1>7. \/ conn' = [conn EXCEPT ![e] = c] /\ UNCHANGED <<queue, log>>
      \/ /\ conn' = [conn EXCEPT ![e] = c] /\ UNCHANGED log
         /\ queue' = [queue EXCEPT ![e] = AddRst(t, queue[e], f.id, "REFUSED_STREAM")]
      \/ /\ conn' = [conn EXCEPT ![e] = [c EXCEPT !.lastProc = f.id]] /\ UNCHANGED queue
         /\ log' = [log EXCEPT ![e] = [log[e] EXCEPT !.seen = log[e].seen \cup {f.id}]]
  BY DEF RecvRequest, SetConn, SetQueue
<1>8. LastRecv' = f.id
  <2>1. conn'[e] = c \/ conn'[e] = [c EXCEPT !.lastProc = f.id] BY <1>0, <1>7, Place
  <2>2. conn[e] \in Conn BY <1>0, Place
  <2>3. QED BY <2>1, <2>2 DEF Conn, LastRecv
<1> HIDE DEF t, f, c
<1>9. LastRecv <= LastRecv' /\ f.id <= LastRecv' /\ f.id \notin Seen
  <2>1. LastRecv \in Int /\ f.id \in Int BY <1>3, Numbers
  <2>2. \A a, b \in Int : a < b => a <= b /\ b <= b OBVIOUS
  <2>3. LastRecv <= LastRecv' /\ f.id <= LastRecv' BY <1>4, <1>8, <2>1, <2>2
  <2>4. f.id \notin Seen BY <1>4, <2>1, Order DEF VerdictInv, SeenTrue
  <2>5. QED BY <2>3, <2>4
<1>10. Answered' = Answered /\ (Seen' = Seen \/ Seen' = Seen \cup {f.id})
  <2>1. log'[e] = log[e] \/ log'[e] = [log[e] EXCEPT !.seen = log[e].seen \cup {f.id}] BY <1>0, <1>7, Place
  <2>2. log[e] \in Log BY <1>0, Place
  <2>3. QED BY <2>1, <2>2 DEF Log, Answered, Seen
<1>11. \A x \in ServerResetQ' : x \in ServerResetQ \/ ServerResetOK(x, Seen', LastRecv')
  <2>1. CASE UNCHANGED queue BY <2>1 DEF ServerResetQ
  <2>2. CASE UNCHANGED log /\ queue' = [queue EXCEPT ![e] = AddRst(t, queue[e], f.id, "REFUSED_STREAM")]
    <3>1. queue[e] \in Queues(e) /\ queue'[e] = AddRst(t, queue[e], f.id, "REFUSED_STREAM") BY <1>0, <2>2, Place
    <3>2. \A x \in ToSet(queue'[e].syn) : x \in ToSet(queue[e].syn) \/ (x.id = f.id /\ x.code = "REFUSED_STREAM")
      BY <1>0, <3>1, AddRstMoves
    <3>3. Seen' = Seen BY <2>2 DEF Seen
    <3>4. \A x : x.id = f.id /\ x.code = "REFUSED_STREAM" => ServerResetOK(x, Seen', LastRecv')
      BY <1>9, <3>3 DEF ServerResetOK, RefusalOK
    <3>5. QED BY <3>2, <3>4 DEF ServerResetQ
  <2>3. QED BY <1>7, <2>1, <2>2
<1>12. ToServer' \subseteq ToServer /\ ToClient' = ToClient BY <1>5 DEF ToServer, ToClient
<1>13. \A id \in Seen' : \/ id \in Seen
                         \/ /\ LastRecv < id /\ id <= LastRecv' /\ IsMine(FALSE, id)
                            /\ \E x \in ToServer : IsHeaders(x) /\ x.id = id
  BY <1>3, <1>4, <1>5, <1>6, <1>9, <1>10 DEF IsHeaders
<1>14. ServerMove BY <1>1, <1>9, <1>10, <1>11, <1>12, <1>13 DEF ServerMove
<1>15. QED BY <1>14, ServerStep

LEMMA ServerReadPlain ==
  ASSUME Inv, NEW e \in Endpoints, e = "server", RecvData(e) \/ RecvRst(e) PROVE Plain(e)
<1>1. Apart(e) BY RecvApart DEF Recv
<1>2. /\ \E type : Arrives(e, type)
      /\ UNCHANGED <<queue, conn>>
      /\ UNCHANGED log \/ (\E code : log' = ClosedWith(e, code))
  <2>1. CASE RecvData(e) BY <2>1 DEF RecvData, Accepted
  <2>2. CASE RecvRst(e)
    <3>1. log' = ClosedWith(e, Head(wire[e]).code) /\ Arrives(e, "RST_STREAM") /\ UNCHANGED <<queue, conn>>
      BY <2>2 DEF RecvRst, Accepted
    <3>2. QED BY <3>1
  <2>3. QED BY <2>1, <2>2
<1>3. ToSet(wire'[e]) \subseteq ToSet(wire[e]) /\ wire'[Peer(e)] = wire[Peer(e)]
  <2>1. PICK type : Arrives(e, type) BY <1>2
  <2>2. QED BY <2>1, Received
<1>4. log'[e].seen = log[e].seen /\ log'[e].ended = log[e].ended BY <1>2, ClosedMoves
<1>5. ConnCalm(conn'[e], conn[e]) BY <1>2, Place
<1>6. QED BY <1>1, <1>2, <1>3, <1>4, <1>5 DEF Plain

-----------------------------------------------------------------------------
(* The steps of the client                                                 *)

LEMMA SubmitRequestMove == ASSUME Inv, Inv', VerdictInv, SubmitRequest PROVE VerdictInv'
<1> DEFINE e == "client"
           f == Headers(conn[e].nextId, TRUE)
<1>0. e \in Endpoints /\ Peer(e) = "server" BY Ends
<1>1. Apart(e) BY <1>0, SubmitApart DEF Submit
<1>2. /\ conn' = [conn EXCEPT ![e] = [conn[e] EXCEPT !.nextId = conn[e].nextId + 2]]
      /\ queue' = [queue EXCEPT ![e] = [queue[e] EXCEPT !.reg = Append(queue[e].reg, f)]]
      /\ UNCHANGED <<table, wire, log>>
  BY DEF SubmitRequest, SetConn
<1>3. f.id = NextId BY PlainFrames DEF NextId
<1> HIDE DEF f
<1>4. ToSet(queue'[e].reg) = ToSet(queue[e].reg) \cup {f} /\ queue'[e].syn = queue[e].syn
  <2>1. queue[e] \in Queues(e) /\ queue'[e] = [queue[e] EXCEPT !.reg = Append(queue[e].reg, f)]
    BY <1>0, <1>2, Place
  <2>2. ToSet([queue[e] EXCEPT !.reg = Append(queue[e].reg, f)].reg) = ToSet(queue[e].reg) \cup {f}
    BY <1>0, <2>1, QueueMoves
  <2>3. [queue[e] EXCEPT !.reg = Append(queue[e].reg, f)].syn = queue[e].syn BY <1>0, <2>1, QueueMoves
  <2>4. QED BY <2>1, <2>2, <2>3
<1>5. NextId <= NextId' /\ NextId <= f.id
  <2>1. NextId \in Int BY Numbers
  <2>2. NextId' = NextId + 2
    <3>1. conn[e] \in Conn /\ conn'[e] = [conn[e] EXCEPT !.nextId = conn[e].nextId + 2] BY <1>0, <1>2, Place
    <3>2. QED BY <3>1 DEF NextId, Conn
  <2>3. \A a \in Int : a <= a + 2 /\ a <= a OBVIOUS
  <2>4. QED BY <1>3, <2>1, <2>2, <2>3
<1>6. /\ Delivered' = Delivered /\ Verdict' = Verdict /\ ToClient' = ToClient /\ ToServer' = ToServer
      /\ ClientResetQ' = ClientResetQ /\ Waiting' = Waiting \cup {f} /\ log' = log
  BY <1>2, <1>4 DEF Delivered, Verdict, ToClient, ToServer, ClientResetQ, Waiting
<1>7. ClientTableTrue'
  <2>1. Calm(table'["client"], table["client"]) BY <1>0, <1>2, Place
  <2>2. QED BY <1>6, <2>1, ClientTableCalm
<1>8. \A id \in StreamIds : Justified(id) BY <1>6 DEF Justified
<1>9. ClientMove BY <1>1, <1>5, <1>6, <1>7, <1>8 DEF ClientMove
<1>10. QED BY <1>9, ClientStep

(* A request that waits was not sent, and no other HEADERS carry its       *)
(* identifier: OnceEach of EndInv.                                         *)
LEMMA NextRequest ==
  ASSUME Inv, EndInv, VerdictInv, RegReady("client"), NextReg("client").type = "HEADERS",
         queue' = [queue EXCEPT !["client"] = AfterReg("client")]
  PROVE  LET f == NextReg("client")
         IN /\ f \in Waiting /\ f.id \in StreamIds /\ IsMine(FALSE, f.id)
            /\ f.id \notin log["client"].ended /\ f.id < NextId
            /\ NeverSent(f.id, NextId, Waiting' \cup ToServer)
            /\ Waiting' \subseteq Waiting /\ ClientResetQ' = ClientResetQ
<1> DEFINE e == "client"
           f == NextReg(e)
           q == queue[e]
           E == log[e].ended
<1>0. e \in Endpoints /\ q \in Queues(e) /\ q.reg \in Seq(RegFrames(e)) /\ q.reg # << >> /\ ~Srv(e) /\ IsHeaders(f)
  BY Ends, Place, QueuedIds DEF RegReady, IsHeaders
<1>1. /\ Waiting' \subseteq Waiting /\ ClientResetQ' = ClientResetQ /\ f \in Waiting /\ f \in RegFrames(e)
      /\ Waiting' = ToSet(Tail(q.reg))
  <2>1. ToSet(queue'[e].reg) \subseteq ToSet(q.reg) /\ queue'[e].syn = q.syn /\ f \in ToSet(q.reg) /\ f \in RegFrames(e)
    BY <1>0, TakeReg
  <2>2. queue'[e].reg = Tail(q.reg)
    <3>1. queue'[e] = AfterReg(e) BY <1>0, Place
    <3>2. QED BY <1>0, <3>1 DEF AfterReg, Queues
  <2>3. QED BY <2>1, <2>2 DEF Waiting, ClientResetQ
<1>2. f.id \in StreamIds /\ IsMine(FALSE, f.id) BY <1>0, <1>1, FrameFacts DEF IsHeaders
<1>3. QueueOK(e, q, conn[e], E) BY <1>0, EndParts DEF Ended
<1>4. OnceEach(q.reg, E) BY <1>0, <1>3 DEF QueueOK
<1>5. f = Head(q.reg) BY DEF NextReg
<1>6. f.id \notin E /\ OnceEach(Tail(q.reg), E \cup {f.id}) BY <1>0, <1>4, <1>5, OnceTail
<1>7. \A x \in ToSet(Tail(q.reg)) : IsHeaders(x) => x.id # f.id BY <1>6 DEF OnceEach, ToSet
<1>8. f.id < NextId
  <2>1. Given(e, conn[e], f.id) BY <1>0, <1>3, <1>5, TakeOK
  <2>2. QED BY <1>0, <1>2, <2>1 DEF Given, NextId
<1>9. \A x \in ToServer : IsHeaders(x) => x.id # f.id BY <1>6 DEF VerdictInv, FramesTrue
<1>10. NeverSent(f.id, NextId, Waiting' \cup ToServer) BY <1>1, <1>7, <1>8, <1>9 DEF NeverSent
<1>11. QED BY <1>1, <1>2, <1>6, <1>8, <1>10

LEMMA SendRequestMove == ASSUME Inv, Inv', EndInv, VerdictInv, SendRequest PROVE VerdictInv'
<1> DEFINE e == "client"
           f == NextReg(e)
           t == table[e]
           u == ShutWr(OpenStream(t, FALSE, f.id, "OPENING"), f.id)
<1>0. e \in Endpoints /\ Peer(e) = "server" BY Ends
<1>1. Apart(e) BY <1>0, SendApart DEF Send
<1>2. /\ RegReady(e) /\ f.type = "HEADERS" /\ queue' = [queue EXCEPT ![e] = AfterReg(e)]
      /\ \/ /\ log' = [log EXCEPT ![e] = [log[e] EXCEPT !.why = [log[e].why EXCEPT ![f.id] = "REFUSED_STREAM"]]]
            /\ UNCHANGED <<table, conn, wire>>
         \/ /\ conn' = [conn EXCEPT ![e] = [conn[e] EXCEPT !.abort = "stream ids increase"]]
            /\ UNCHANGED <<table, wire, log>>
         \/ /\ table' = [table EXCEPT ![e] = u] /\ Transmit(e, f)
            /\ conn' = [conn EXCEPT ![e] = [conn[e] EXCEPT !.lastSent = f.id]]
            /\ log' = SentLast(e, "NO_ERROR", {f.id})
  BY DEF SendRequest, SetQueue, SetConn, SetTable
<1>3. /\ f \in Waiting /\ f.id \in StreamIds /\ IsMine(FALSE, f.id)
      /\ f.id \notin log["client"].ended /\ f.id < NextId
      /\ NeverSent(f.id, NextId, Waiting' \cup ToServer)
      /\ Waiting' \subseteq Waiting /\ ClientResetQ' = ClientResetQ
  BY <1>2, NextRequest
<1>4. NextId' = NextId /\ NextId <= NextId'
  <2>1. \/ conn'[e] = conn[e] \/ conn'[e] = [conn[e] EXCEPT !.abort = "stream ids increase"]
        \/ conn'[e] = [conn[e] EXCEPT !.lastSent = f.id]
    BY <1>0, <1>2, Place
  <2>2. conn[e] \in Conn BY <1>0, Place
  <2>3. ConnCalm(conn'[e], conn[e]) BY <2>1, <2>2, ConnCalmOps
  <2>4. NextId' = NextId BY <2>3 DEF ConnCalm, NextId
  <2>5. NextId \in Int BY Numbers
  <2>6. QED BY <2>4, <2>5
<1>5. log[e] \in Log /\ t \in Table BY <1>0, Place
<1> HIDE DEF f, t
<1>6. CASE /\ log' = [log EXCEPT ![e] = [log[e] EXCEPT !.why = [log[e].why EXCEPT ![f.id] = "REFUSED_STREAM"]]]
           /\ UNCHANGED <<table, conn, wire>>
  <2>1. log'[e] = [log[e] EXCEPT !.why = [log[e].why EXCEPT ![f.id] = "REFUSED_STREAM"]] BY <1>0, <1>6, Place
  <2>2. /\ Delivered' = Delivered /\ log'["client"].ended = log["client"].ended
        /\ Verdict' = [Verdict EXCEPT ![f.id] = "REFUSED_STREAM"]
    BY <1>5, <2>1 DEF Log, Delivered, Verdict
  <2>3. ToClient' = ToClient /\ ToServer' = ToServer BY <1>6 DEF ToClient, ToServer
  <2>4. ClientTableTrue'
    <3>1. Calm(table'["client"], table["client"]) BY <1>0, <1>6, Place
    <3>2. QED BY <2>2, <3>1, ClientTableCalm
  <2>5. Justified(f.id)
    <3>1. f.id \notin Seen BY <1>3 DEF VerdictInv, SeenTrue
    <3>2. Verdict'[f.id] # Verdict[f.id] => Verdict'[f.id] = "REFUSED_STREAM"
      BY <1>3, <1>5, <2>2 DEF Log, Verdict
    <3>3. QED BY <1>3, <1>4, <2>3, <3>1, <3>2 DEF Justified
  <2>6. \A id \in StreamIds : Justified(id)
    <3>1. \A id \in StreamIds : id # f.id => Verdict'[id] = Verdict[id] BY <1>5, <2>2 DEF Log, Verdict
    <3>2. QED BY <2>5, <3>1 DEF Justified
  <2>7. ClientMove BY <1>1, <1>3, <1>4, <2>2, <2>3, <2>4, <2>6 DEF ClientMove
  <2>8. QED BY <2>7, ClientStep
<1>7. CASE /\ conn' = [conn EXCEPT ![e] = [conn[e] EXCEPT !.abort = "stream ids increase"]]
           /\ UNCHANGED <<table, wire, log>>
  <2>1. /\ Delivered' = Delivered /\ Verdict' = Verdict /\ ToClient' = ToClient /\ ToServer' = ToServer
        /\ log'["client"].ended = log["client"].ended
    BY <1>7 DEF Delivered, Verdict, ToClient, ToServer
  <2>2. ClientTableTrue'
    <3>1. Calm(table'["client"], table["client"]) BY <1>0, <1>7, Place
    <3>2. QED BY <2>1, <3>1, ClientTableCalm
  <2>3. \A id \in StreamIds : Justified(id) BY <2>1 DEF Justified
  <2>4. ClientMove BY <1>1, <1>3, <1>4, <2>1, <2>2, <2>3 DEF ClientMove
  <2>5. QED BY <2>4, ClientStep
<1>8. CASE /\ table' = [table EXCEPT ![e] = u] /\ Transmit(e, f)
           /\ conn' = [conn EXCEPT ![e] = [conn[e] EXCEPT !.lastSent = f.id]]
           /\ log' = SentLast(e, "NO_ERROR", {f.id})
  <2>1. ToClient' = ToClient /\ ToServer' = ToServer \cup {f}
    <3>1. ToSet(wire'["server"]) = ToSet(wire["server"]) \cup {f} /\ wire'[e] = wire[e]
      BY <1>0, <1>8, WireMoves
    <3>2. QED BY <3>1 DEF ToClient, ToServer
  <2>2. /\ u.item = t.item /\ \A x \in StreamIds : u.st[x] = IF x = f.id THEN "OPENING" ELSE t.st[x]
    BY <1>3, <1>5 DEF ShutWr, OpenStream, Table
  <2> HIDE DEF u
  <2>3. table'[e] = u /\ table[e] = t BY <1>0, <1>8, Place DEF t
  <2>4. \A x \in StreamIds : ~Closes(e, x) BY <2>2, <2>3 DEF Closes, Live
  <2>5. /\ log'[e].seen = log[e].seen /\ log'[e].ended = log[e].ended \cup {f.id}
        /\ \A x \in StreamIds : log'[e].why[x] = log[e].why[x]
    <3>1. /\ log'[e].seen = log[e].seen /\ log'[e].ended = log[e].ended \cup {f.id}
          /\ \A x \in StreamIds : log'[e].why[x] = IF Closes(e, x) THEN "NO_ERROR" ELSE log[e].why[x]
      <4> HIDE DEF e
      <4>1. QED BY <1>0, <1>8, LogMoves
    <3>2. QED BY <2>4, <3>1
  <2>6. Delivered' = Delivered BY <2>5 DEF Delivered
  <2>7. ClientTableTrue'
    <3>1. /\ t.item = {}
          /\ \A x \in StreamIds : /\ t.st[x] = "OPENED" => x \in Delivered
                                  /\ t.st[x] = "OPENING" => IsMine(FALSE, x)
      BY <2>3 DEF VerdictInv, ClientTableTrue
    <3>2. /\ u.item = {}
          /\ \A x \in StreamIds : /\ u.st[x] = "OPENED" => x \in Delivered'
                                  /\ u.st[x] = "OPENING" => IsMine(FALSE, x)
      BY <1>3, <2>2, <2>6, <3>1
    <3>3. QED BY <2>3, <3>2 DEF ClientTableTrue
  <2>8. \A id \in StreamIds : Justified(id) BY <2>5 DEF Justified, Verdict
  <2>9. ClientMove BY <1>1, <1>3, <1>4, <2>1, <2>5, <2>6, <2>7, <2>8 DEF ClientMove
  <2>10. QED BY <2>9, ClientStep
<1>9. QED BY <1>2, <1>6, <1>7, <1>8

LEMMA ClientSendRstMove == ASSUME Inv, Inv', EndInv, VerdictInv, SendRst("client") PROVE VerdictInv'
<1> DEFINE e == "client"
           f == Head(queue[e].syn)
           t == table[e]
<1>0. e \in Endpoints /\ Peer(e) = "server" /\ t \in Table /\ conn[e] \in Conn BY Ends, Place
<1>1. Apart(e) BY <1>0, SendApart DEF Send
<1>2. /\ SynReady(e) /\ UNCHANGED conn /\ queue' = [queue EXCEPT ![e] = AfterSyn(e)]
      /\ \/ UNCHANGED <<table, wire, log>>
         \/ /\ table' = [table EXCEPT ![e] = CloseStream(t, Srv(e), f.id)] /\ Transmit(e, f)
            /\ log' = SentLast(e, f.code, {f.id})
  BY DEF SendRst, SetQueue, SetTable
<1>3. /\ f \in ToSet(queue[e].syn) /\ f.type = "RST_STREAM" /\ f.id \in StreamIds
      /\ ToSet(queue'[e].syn) \subseteq ToSet(queue[e].syn) /\ queue'[e].reg = queue[e].reg
  <2>1. queue[e] \in Queues(e) /\ queue[e].syn # << >> /\ queue'[e] = AfterSyn(e) BY <1>0, <1>2, Place DEF SynReady
  <2>2. f \in SynFrames BY <1>0, <2>1, QueueOps
  <2>3. f.type = "RST_STREAM" /\ f.id \in StreamIds BY <2>2 DEF SynFrames
  <2>4. QED BY <1>0, <2>1, <2>3, QueueMoves DEF AfterSyn
<1>4. ClientResetOK(f) BY <1>3 DEF VerdictInv, FramesTrue, ClientResetQ
<1> HIDE DEF f, t
<1>5. /\ log'[e].seen = log[e].seen /\ log[e].ended \subseteq log'[e].ended
      /\ \A id \in StreamIds : log'[e].why[id] = log[e].why[id] \/ (id = f.id /\ log'[e].why[id] = f.code)
      /\ ToSet(wire'["server"]) \subseteq ToSet(wire["server"]) \cup {f} /\ wire'[e] = wire[e]
      /\ Calm(table'[e], table[e])
  <2>1. CASE UNCHANGED <<table, wire, log>> BY <1>0, <2>1, Place
  <2>2. CASE /\ table' = [table EXCEPT ![e] = CloseStream(t, Srv(e), f.id)] /\ Transmit(e, f)
             /\ log' = SentLast(e, f.code, {f.id})
    <3>1. /\ log'[e].seen = log[e].seen /\ log'[e].ended = log[e].ended \cup {f.id}
          /\ \A x \in StreamIds : log'[e].why[x] = IF Closes(e, x) THEN f.code ELSE log[e].why[x]
      <4> HIDE DEF e
      <4>1. QED BY <1>0, <2>2, LogMoves
    <3>2. ToSet(wire'["server"]) = ToSet(wire["server"]) \cup {f} /\ wire'[e] = wire[e]
      BY <1>0, <2>2, WireMoves
    <3>3. table'[e] = CloseStream(t, Srv(e), f.id) /\ table[e] = t BY <1>0, <2>2, Place DEF t
    <3>4. Calm(CloseStream(t, Srv(e), f.id), t) /\ ClosesOnly(CloseStream(t, Srv(e), f.id), t, {f.id})
      BY <1>0, <1>3, OneClosesCalm
    <3>5. Calm(table'[e], table[e]) /\ \A x \in StreamIds : Closes(e, x) => x = f.id
      BY <3>3, <3>4 DEF ClosesOnly, Closes
    <3>6. QED BY <3>1, <3>2, <3>5
  <2>3. QED BY <1>2, <2>1, <2>2
<1>6. /\ Delivered' = Delivered /\ ToClient' = ToClient /\ ToServer' \subseteq ToServer \cup {f}
      /\ ClientResetQ' \subseteq ClientResetQ /\ Waiting' = Waiting /\ NextId' = NextId
  BY <1>2, <1>3, <1>5 DEF Delivered, ToClient, ToServer, ClientResetQ, Waiting, NextId
<1>7. NextId <= NextId'
  <2>1. NextId \in Int BY Numbers
  <2>2. QED BY <1>6, <2>1
<1>8. ClientTableTrue' BY <1>5, <1>6, ClientTableCalm
<1>9. \A id \in StreamIds : Justified(id) BY <1>4, <1>5 DEF Justified, Verdict, ClientResetOK
<1>10. ~IsHeaders(f) BY <1>3 DEF IsHeaders
<1>11. ClientMove BY <1>1, <1>5, <1>6, <1>7, <1>8, <1>9, <1>10 DEF ClientMove
<1>12. QED BY <1>11, ClientStep

(* A client has no DATA to send.                                           *)
LEMMA ClientSendsNoData == ASSUME VerdictInv, NEW id, SendData("client", id) PROVE FALSE
BY DEF SendData, VerdictInv, ClientTableTrue

(* A stream the client closes with NO_ERROR is the one whose END_STREAM it *)
(* just read, and it was delivered.                                        *)
LEMMA ReadMove ==
  ASSUME Inv, Inv', VerdictInv, Apart("client"), NEW f \in ToClient, f.id \in StreamIds,
         f.type \in {"HEADERS", "DATA"},
         UNCHANGED <<queue, conn>>, wire'["server"] = wire["server"],
         ToSet(wire'["client"]) \subseteq ToSet(wire["client"]),
         ClosesOnly(table'["client"], table["client"], {f.id}),
         Closes("client", f.id) => f.end,
         log'["client"].ended = log["client"].ended, Delivered \subseteq Delivered', f.id \in Delivered',
         \A id \in StreamIds : log'["client"].why[id] =
                                 IF Closes("client", id) THEN "NO_ERROR" ELSE log["client"].why[id],
         ClientTableTrue'
  PROVE  VerdictInv'
<1>1. f.end => f.id \in Answered BY DEF VerdictInv, FramesTrue, ToClientOK
<1>2. \A id \in StreamIds : Closes("client", id) => id = f.id /\ f.end BY DEF ClosesOnly, Closes
<1>3. \A id \in StreamIds : Justified(id) BY <1>1, <1>2 DEF Justified, Verdict
<1>4. ToClient' \subseteq ToClient /\ ToServer' = ToServer /\ ClientResetQ' = ClientResetQ /\ Waiting' = Waiting
      /\ NextId' = NextId
  BY DEF ToClient, ToServer, ClientResetQ, Waiting, NextId
<1>5. NextId <= NextId'
  <2>1. NextId \in Int BY Numbers
  <2>2. QED BY <1>4, <2>1
<1>6. ClientMove BY <1>3, <1>4, <1>5 DEF ClientMove
<1>7. QED BY <1>6, ClientStep

LEMMA ClientRecvDataMove == ASSUME Inv, Inv', EndInv, VerdictInv, RecvData("client") PROVE VerdictInv'
<1> DEFINE e == "client"
           f == Head(wire[e])
           t == table[e]
           u == PeerEnded(t, Srv(e), f.id, f.end)
<1>0. e \in Endpoints /\ Peer(e) = "server" /\ ~Srv(e) /\ t \in Table BY Ends, Place
<1>1. Apart(e) BY <1>0, RecvApart DEF Recv
<1>2. /\ Accepted(e, "DATA") /\ UNCHANGED <<queue, conn>>
      /\ \/ /\ Live(t, f.id) /\ t.st[f.id] # "CLOSING"
            /\ table' = [table EXCEPT ![e] = u] /\ log' = ClosedWith(e, "NO_ERROR")
         \/ UNCHANGED <<table, log>>
  BY DEF RecvData, SetTable
<1>3. f.id \in StreamIds /\ f.type = "DATA" /\ f.end \in BOOLEAN BY <1>0, <1>2, Arrived
<1>4. ToSet(wire'[e]) \subseteq ToSet(wire[e]) /\ wire'["server"] = wire["server"] /\ f \in ToClient
  BY <1>0, <1>2, Received DEF Accepted, ToClient
<1>5. DataError(e, f.id) = "none" BY <1>2, <1>3 DEF Accepted, ErrorOf
<1>6. CASE UNCHANGED <<table, log>>
  <2>1. Plain(e)
    <3>1. Calm(table'[e], table[e]) /\ ConnCalm(conn'[e], conn[e]) BY <1>0, <1>2, <1>6, Place
    <3>2. QED BY <1>0, <1>1, <1>2, <1>4, <1>6, <3>1 DEF Plain
  <2>2. QED BY <1>0, <2>1, PlainMove
<1>7. CASE /\ Live(t, f.id) /\ t.st[f.id] # "CLOSING"
           /\ table' = [table EXCEPT ![e] = u] /\ log' = ClosedWith(e, "NO_ERROR")
  <2>1. t.st[f.id] = "OPENED"
    <3>1. t.st[f.id] \in {"RESERVED", "OPENING", "OPENED"} BY <1>0, <1>3, <1>7 DEF Table, StreamStates, Live
    <3>2. f.id \notin t.rd
      BY <1>5, <1>7 DEF DataError
    <3>3. IF IsMine(Srv(e), f.id) THEN t.st[f.id] \in {"CLOSING", "OPENED"} ELSE t.st[f.id] # "RESERVED"
      BY <1>5, <1>7, <3>2 DEF DataError
    <3>4. t.st[f.id] = "OPENING" => IsMine(Srv(e), f.id)
      BY <1>0, <1>3 DEF VerdictInv, ClientTableTrue, Srv
    <3>5. QED BY <3>1, <3>3, <3>4
  <2>2. f.id \in Delivered BY <1>3, <2>1 DEF VerdictInv, ClientTableTrue
  <2>3. Calm(u, t) /\ ClosesOnly(u, t, {f.id}) /\ (~f.end => u = t) BY <1>0, <1>3, PeerEndedCalm
  <2> HIDE DEF u
  <2>4. table'[e] = u /\ table[e] = t BY <1>0, <1>7, Place
  <2>5. Closes(e, f.id) => f.end BY <2>3, <2>4 DEF Closes
  <2>6. /\ log'[e].seen = log[e].seen /\ log'[e].ended = log[e].ended
        /\ \A x \in StreamIds : log'[e].why[x] = IF Closes(e, x) THEN "NO_ERROR" ELSE log[e].why[x]
    <3> HIDE DEF e
    <3>1. QED BY <1>0, <1>7, ClosedMoves
  <2>7. Delivered' = Delivered BY <2>6 DEF Delivered
  <2>8. ClientTableTrue' BY <2>3, <2>4, <2>7, ClientTableCalm
  <2>9. ClosesOnly(table'[e], table[e], {f.id}) BY <2>3, <2>4
  <2> HIDE DEF f
  <2>10. QED BY <1>1, <1>2, <1>3, <1>4, <2>2, <2>5, <2>6, <2>7, <2>8, <2>9, ReadMove
<1>8. QED BY <1>2, <1>6, <1>7

LEMMA RecvResponseMove == ASSUME Inv, Inv', EndInv, VerdictInv, RecvResponse PROVE VerdictInv'
<1> DEFINE e == "client"
           f == Head(wire[e])
           t == table[e]
           Opens(u) == /\ table' = [table EXCEPT ![e] = PeerEnded(u, FALSE, f.id, f.end)]
                       /\ log' = [ClosedWith(e, "NO_ERROR") EXCEPT ![e].seen = @ \cup {f.id}]
                       /\ UNCHANGED queue
<1>0. e \in Endpoints /\ Peer(e) = "server" /\ t \in Table /\ queue[e] \in Queues(e) /\ log \in [Endpoints -> Log]
  BY Ends, Place, InvParts DEF LogsOK
<1>1. Apart(e) BY <1>0, RecvApart DEF Recv
<1>2. /\ Accepted(e, "HEADERS") /\ UNCHANGED conn
      /\ \/ UNCHANGED <<table, queue, log>>
         \/ /\ t.st[f.id] = "RESERVED" /\ UNCHANGED log
            /\ table' = [table EXCEPT ![e] = MarkClosing(t, f.id)]
            /\ queue' = [queue EXCEPT ![e] = AddRst(t, queue[e], f.id, "REFUSED_STREAM")]
         \/ t.st[f.id] = "RESERVED" /\ Opens(PromiseFulfilled(t, f.id))
         \/ Opens(SetState(t, f.id, "OPENED"))
  BY DEF RecvResponse, SetTable, SetQueue
<1>3. f.id \in StreamIds /\ f.type = "HEADERS" /\ f.end \in BOOLEAN BY <1>0, <1>2, Arrived
<1>4. ToSet(wire'[e]) \subseteq ToSet(wire[e]) /\ wire'["server"] = wire["server"] /\ f \in ToClient
  BY <1>0, <1>2, Received DEF Accepted, ToClient
<1>5. ConnCalm(conn'[e], conn[e]) BY <1>0, <1>2, Place
<1>6. CASE UNCHANGED <<table, queue, log>>
  <2>1. Calm(table'[e], table[e]) BY <1>0, <1>6, Place
  <2>2. Plain(e) BY <1>0, <1>1, <1>4, <1>5, <1>6, <2>1 DEF Plain
  <2>3. QED BY <1>0, <2>2, PlainMove
<1>7. CASE /\ t.st[f.id] = "RESERVED" /\ UNCHANGED log
           /\ table' = [table EXCEPT ![e] = MarkClosing(t, f.id)]
           /\ queue' = [queue EXCEPT ![e] = AddRst(t, queue[e], f.id, "REFUSED_STREAM")]
  <2>1. ~IsMine(FALSE, f.id)
    <3>1. IsMine(TRUE, f.id) BY <1>0, <1>3, <1>7, InvParts DEF TablesGood, Good, TableShape
    <3>2. QED BY <3>1 DEF IsMine
  <2>2. queue'[e] = AddRst(t, queue[e], f.id, "REFUSED_STREAM") /\ table'[e] = MarkClosing(t, f.id)
    BY <1>0, <1>7, Place
  <2>3. queue'[e].reg = queue[e].reg BY <1>0, <2>2, AddRstMoves
  <2>4. \A x \in ToSet(queue'[e].syn) : x \in ToSet(queue[e].syn) \/ (x.id = f.id /\ x.code = "REFUSED_STREAM")
    BY <1>0, <2>2, AddRstMoves
  <2> HIDE DEF f
  <2>5. \A x \in ClientResetQ' : x \in ClientResetQ \/ ClientResetOK(x)
    BY <2>1, <2>4 DEF ClientResetQ, ClientResetOK
  <2>6. /\ Delivered' = Delivered /\ Verdict' = Verdict /\ ToClient' \subseteq ToClient /\ ToServer' = ToServer
        /\ Waiting' = Waiting /\ NextId' = NextId /\ log'["client"].ended = log["client"].ended
    BY <1>2, <1>4, <1>7, <2>3 DEF Delivered, Verdict, ToClient, ToServer, Waiting, NextId
  <2>7. ClientTableTrue'
    <3>1. Calm(MarkClosing(t, f.id), t) BY <1>0, <1>3, FlagsCalm
    <3>2. QED BY <2>2, <2>6, <3>1, ClientTableCalm
  <2>8. NextId <= NextId'
    <3>1. NextId \in Int BY Numbers
    <3>2. QED BY <2>6, <3>1
  <2>9. \A id \in StreamIds : Justified(id) BY <2>6 DEF Justified
  <2>10. ClientMove BY <1>1, <2>5, <2>6, <2>7, <2>8, <2>9 DEF ClientMove
  <2>11. QED BY <2>10, ClientStep
<1>8. ASSUME NEW u \in Table, Opens(u), u.item = t.item, u.st[f.id] = "OPENED",
             \A x \in StreamIds : x # f.id => u.st[x] = t.st[x]
      PROVE  VerdictInv'
  <2> DEFINE w == PeerEnded(u, FALSE, f.id, f.end)
  <2>1. /\ w.item \subseteq t.item /\ ClosesOnly(w, t, {f.id})
        /\ \A x \in StreamIds : w.st[x] \in {"OPENED", "OPENING"} => x = f.id \/ w.st[x] = t.st[x]
        /\ w.st[f.id] # "OPENING"
        /\ ~f.end => Live(w, f.id)
    <3>1. u.item = t.item /\ u.st[f.id] = "OPENED" /\ \A x \in StreamIds : x # f.id => u.st[x] = t.st[x]
      BY <1>8
    <3>2. w = PeerEnded(u, FALSE, f.id, f.end) OBVIOUS
    <3>3. Calm(w, u) /\ ClosesOnly(w, u, {f.id}) /\ (~f.end => w = u) BY <1>3, PeerEndedCalm
    <3> HIDE DEF f, t, w
    <3>4. ClosesOnly(w, t, {f.id}) BY <3>1, <3>3 DEF ClosesOnly, Live
    <3>5. /\ w.item \subseteq t.item /\ w.st[f.id] # "OPENING"
          /\ \A x \in StreamIds : w.st[x] \in {"OPENED", "OPENING"} => x = f.id \/ w.st[x] = t.st[x]
      BY <1>3, <3>1, <3>3 DEF Calm
    <3>6. ~f.end => Live(w, f.id) BY <3>1, <3>3 DEF Live
    <3>7. QED BY <3>4, <3>5, <3>6
  <2>2. table' = [table EXCEPT ![e] = w] BY <1>8
  <2>3. UNCHANGED queue BY <1>8
  <2>4. log' = [ClosedWith(e, "NO_ERROR") EXCEPT ![e].seen = @ \cup {f.id}] BY <1>8
  <2> HIDE DEF w
  <2>5. table'[e] = w /\ table[e] = t BY <1>0, <2>2, Place
  <2>6. Closes(e, f.id) => f.end BY <2>1, <2>5 DEF Closes
  <2>7. /\ log'[e].seen = log[e].seen \cup {f.id} /\ log'[e].ended = log[e].ended
        /\ \A x \in StreamIds : log'[e].why[x] = IF Closes(e, x) THEN "NO_ERROR" ELSE log[e].why[x]
    <3>1. log[e] \in Log BY <1>0
    <3> HIDE DEF e, f, t
    <3>2. ClosedWith(e, "NO_ERROR")[e] =
            [log[e] EXCEPT !.why = [x \in StreamIds |-> IF Closes(e, x) THEN "NO_ERROR" ELSE log[e].why[x]]]
      BY <1>0 DEF ClosedWith, Closes
    <3>3. /\ ClosedWith(e, "NO_ERROR")[e].seen = log[e].seen /\ ClosedWith(e, "NO_ERROR")[e].ended = log[e].ended
          /\ ClosedWith(e, "NO_ERROR")[e].why = [x \in StreamIds |-> IF Closes(e, x) THEN "NO_ERROR" ELSE log[e].why[x]]
      BY <3>1, <3>2 DEF Log
    <3>4. log'[e] = [ClosedWith(e, "NO_ERROR")[e] EXCEPT !.seen = ClosedWith(e, "NO_ERROR")[e].seen \cup {f.id}]
      BY <1>0, <2>4 DEF ClosedWith
    <3>5. QED BY <3>1, <3>2, <3>3, <3>4 DEF Log
  <2>8. Delivered \subseteq Delivered' /\ f.id \in Delivered' BY <2>7 DEF Delivered
  <2>9. ClientTableTrue'
    <3>1. /\ t.item = {}
          /\ \A x \in StreamIds : /\ t.st[x] = "OPENED" => x \in Delivered
                                  /\ t.st[x] = "OPENING" => IsMine(FALSE, x)
      BY <2>5 DEF VerdictInv, ClientTableTrue
    <3>2. /\ w.item = {}
          /\ \A x \in StreamIds : /\ w.st[x] = "OPENED" => x \in Delivered'
                                  /\ w.st[x] = "OPENING" => IsMine(FALSE, x)
      BY <2>1, <2>8, <3>1
    <3>3. QED BY <2>5, <3>2 DEF ClientTableTrue
  <2>10. ClosesOnly(table'[e], table[e], {f.id}) BY <2>1, <2>5
  <2> HIDE DEF f
  <2>11. QED BY <1>1, <1>2, <1>3, <1>4, <2>3, <2>6, <2>7, <2>8, <2>9, <2>10, ReadMove
<1>9. CASE t.st[f.id] = "RESERVED" /\ Opens(PromiseFulfilled(t, f.id))
  <2>1. PromiseFulfilled(t, f.id) \in Table
    <3>1. Good(t, FALSE) BY <1>0, InvParts, Ends DEF TablesGood
    <3>2. QED BY <1>3, <1>9, <3>1, PromiseFulfilledGood DEF Good
  <2>2. /\ PromiseFulfilled(t, f.id).item = t.item
        /\ PromiseFulfilled(t, f.id).st = [t.st EXCEPT ![f.id] = "OPENED"]
    BY <1>0 DEF PromiseFulfilled, Table
  <2>3. t.st \in [StreamIds -> StreamStates] BY <1>0 DEF Table
  <2> HIDE DEF f, t
  <2>4. QED BY <1>3, <1>8, <1>9, <2>1, <2>2, <2>3
<1>10. CASE Opens(SetState(t, f.id, "OPENED"))
  <2>1. SetState(t, f.id, "OPENED") \in Table BY <1>0, <1>3 DEF SetState, Table, StreamStates
  <2>2. SetState(t, f.id, "OPENED").item = t.item /\ SetState(t, f.id, "OPENED").st = [t.st EXCEPT ![f.id] = "OPENED"]
    BY <1>0 DEF SetState, Table
  <2>3. t.st \in [StreamIds -> StreamStates] BY <1>0 DEF Table
  <2> HIDE DEF f, t
  <2>4. QED BY <1>3, <1>8, <1>10, <2>1, <2>2, <2>3
<1>11. QED BY <1>2, <1>6, <1>7, <1>9, <1>10

LEMMA ClientRecvRstMove == ASSUME Inv, Inv', EndInv, VerdictInv, RecvRst("client") PROVE VerdictInv'
<1> DEFINE e == "client"
           f == Head(wire[e])
           t == table[e]
           s == IF Live(t, f.id) THEN ShutRd(t, f.id) ELSE t
           u == CloseStream(s, Srv(e), f.id)
<1>0. e \in Endpoints /\ Peer(e) = "server" /\ t \in Table BY Ends, Place
<1>1. Apart(e) BY <1>0, RecvApart DEF Recv
<1>2. /\ Accepted(e, "RST_STREAM") /\ UNCHANGED <<queue, conn>>
      /\ table' = [table EXCEPT ![e] = u] /\ log' = ClosedWith(e, f.code)
  BY DEF RecvRst, SetTable
<1>3. f.id \in StreamIds /\ f.type = "RST_STREAM" BY <1>0, <1>2, Arrived
<1>4. ToSet(wire'[e]) \subseteq ToSet(wire[e]) /\ wire'["server"] = wire["server"] /\ f \in ToClient
  BY <1>0, <1>2, Received DEF Accepted, ToClient
<1>5. ServerResetOK(f, Seen, LastRecv) BY <1>3, <1>4 DEF VerdictInv, FramesTrue, ToClientOK
<1>6. Calm(u, t) /\ ClosesOnly(u, t, {f.id})
  <2>1. s \in Table /\ Calm(s, t) /\ ClosesOnly(s, t, {f.id})
    BY <1>0, <1>3, ShutRdTable, FlagsCalm DEF ClosesOnly
  <2> HIDE DEF s
  <2>2. Calm(u, s) /\ ClosesOnly(u, s, {f.id}) BY <1>3, <2>1, OneClosesCalm
  <2> HIDE DEF u
  <2>3. QED BY <2>1, <2>2, CalmTwice, ClosesTwice
<1> HIDE DEF u
<1>7. table'[e] = u /\ table[e] = t BY <1>0, <1>2, Place
<1>8. /\ log'[e].seen = log[e].seen /\ log'[e].ended = log[e].ended
      /\ \A x \in StreamIds : log'[e].why[x] = log[e].why[x] \/ (x = f.id /\ log'[e].why[x] = f.code)
  <2>1. /\ log'[e].seen = log[e].seen /\ log'[e].ended = log[e].ended
        /\ \A x \in StreamIds : log'[e].why[x] = IF Closes(e, x) THEN f.code ELSE log[e].why[x]
    <3> HIDE DEF e
    <3>1. QED BY <1>0, <1>2, ClosedMoves
  <2>2. \A x \in StreamIds : Closes(e, x) => x = f.id BY <1>6, <1>7 DEF ClosesOnly, Closes
  <2>3. QED BY <2>1, <2>2
<1> HIDE DEF f, t
<1>9. /\ Delivered' = Delivered /\ ToClient' \subseteq ToClient /\ ToServer' = ToServer
      /\ ClientResetQ' = ClientResetQ /\ Waiting' = Waiting /\ NextId' = NextId
  BY <1>2, <1>4, <1>8 DEF Delivered, ToClient, ToServer, ClientResetQ, Waiting, NextId
<1>10. NextId <= NextId'
  <2>1. NextId \in Int BY Numbers
  <2>2. QED BY <1>9, <2>1
<1>11. ClientTableTrue' BY <1>6, <1>7, <1>9, ClientTableCalm
<1>12. \A id \in StreamIds : Justified(id)
  BY <1>5, <1>8 DEF Justified, Verdict, ServerResetOK, RefusalOK
<1>13. ClientMove BY <1>1, <1>8, <1>9, <1>10, <1>11, <1>12 DEF ClientMove
<1>14. QED BY <1>13, ClientStep

-----------------------------------------------------------------------------
(* All steps                                                               *)

LEMMA SubmitMove ==
  ASSUME Inv, Inv', EndInv, VerdictInv, NEW e \in Endpoints, Submit(e) PROVE VerdictInv'
<1>1. CASE e = "client" /\ SubmitRequest BY <1>1, SubmitRequestMove
<1>2. CASE \E id \in StreamIds : e = "server" /\ SubmitPush(id) BY <1>2, SubmitPushPlain, ServerStep
<1>3. CASE \E id \in StreamIds, end \in BOOLEAN : e = "server" /\ SubmitResponse(id, end)
  BY <1>3, Ends, SubmitResponsePlain, PlainMove
<1>4. CASE \E id \in StreamIds : SubmitRst(e, id) BY <1>4, SubmitRstPlain, PlainMove
<1>5. CASE SubmitTerminate(e) BY <1>5, SubmitTerminatePlain, PlainMove
<1>6. CASE SubmitGoaway(e) BY <1>6, SubmitGoawayPlain, PlainMove
<1>7. QED BY <1>1, <1>2, <1>3, <1>4, <1>5, <1>6 DEF Submit

LEMMA SendMove ==
  ASSUME Inv, Inv', EndInv, VerdictInv, NEW e \in Endpoints, Send(e) PROVE VerdictInv'
<1>1. CASE SendSettings(e) BY <1>1, SendSettingsPlain, PlainMove
<1>2. CASE e = "client" /\ SendRequest BY <1>2, SendRequestMove
<1>3. CASE e = "server" /\ SendResponse BY <1>3, SendResponseMove
<1>4. CASE e = "server" /\ SendPromise BY <1>4, Ends, SendPromisePlain, PlainMove
<1>5. CASE SendGoaway(e) BY <1>5, SendGoawayPlain, PlainMove
<1>6. CASE SendRst(e) BY <1>6, ServerSendRstMove, ClientSendRstMove DEF Endpoints
<1>7. CASE \E id \in StreamIds : SendData(e, id) BY <1>7, ServerSendDataMove, ClientSendsNoData DEF Endpoints
<1>8. QED BY <1>1, <1>2, <1>3, <1>4, <1>5, <1>6, <1>7 DEF Send

LEMMA RecvMove ==
  ASSUME Inv, Inv', EndInv, VerdictInv, NEW e \in Endpoints, Recv(e) PROVE VerdictInv'
<1>1. CASE RecvInvalid(e) BY <1>1, RecvInvalidPlain, PlainMove
<1>2. CASE e = "server" /\ RecvRequest BY <1>2, RecvRequestMove
<1>3. CASE e = "client" /\ RecvResponse BY <1>3, RecvResponseMove
<1>4. CASE RecvData(e) BY <1>4, ServerReadPlain, PlainMove, ClientRecvDataMove DEF Endpoints
<1>5. CASE e = "client" /\ RecvPromise BY <1>5, Ends, RecvPromisePlain, PlainMove
<1>6. CASE RecvRst(e) BY <1>6, ServerReadPlain, PlainMove, ClientRecvRstMove DEF Endpoints
<1>7. CASE RecvSettings(e) BY <1>7, RecvSettingsPlain, PlainMove
<1>8. CASE RecvSettingsAck(e) BY <1>8, RecvSettingsAckPlain, PlainMove
<1>9. CASE RecvGoaway(e) BY <1>9, RecvGoawayPlain, PlainMove
<1>10. QED BY <1>1, <1>2, <1>3, <1>4, <1>5, <1>6, <1>7, <1>8, <1>9 DEF Recv

LEMMA VerdictNext == ASSUME Inv, EndInv, VerdictInv, [Next]_vars PROVE VerdictInv'
<1>1. CASE UNCHANGED vars
  BY <1>1 DEF vars, VerdictInv, FramesTrue, SeenTrue, ClientTableTrue, VerdictTrue, ToClient, ToServer,
              ServerResetQ, ClientResetQ, Waiting, Seen, LastRecv, Answered, Delivered, Verdict
<1>2. CASE Next
  <2>1. Inv' BY NextInv
  <2>2. PICK e \in Endpoints : Submit(e) \/ Send(e) \/ Recv(e) \/ Drop(e) BY <1>2 DEF Next
  <2>3. QED BY <2>1, <2>2, SubmitMove, SendMove, RecvMove, DropPlain, PlainMove
<1>3. QED BY <1>1, <1>2

LEMMA InitVerdict == Init => VerdictInv
<1> SUFFICES ASSUME Init PROVE VerdictInv OBVIOUS
<1>1. /\ wire["client"] = << >> /\ wire["server"] = << >> /\ table["client"] = EmptyTable
      /\ \A e \in Endpoints : queue[e].reg = << >> /\ queue[e].syn = << >>
      /\ \A e \in Endpoints : log[e].seen = {} /\ log[e].ended = {}
      /\ log["client"].why = [id \in StreamIds |-> "open"]
  BY Ends DEF Init
<1>2. ToSet(<< >>) = {} BY DEF ToSet
<1>3. ToClient = {} /\ ToServer = {} /\ ServerResetQ = {} /\ ClientResetQ = {} /\ Waiting = {} /\ Seen = {}
  BY <1>1, <1>2, Ends DEF ToClient, ToServer, ServerResetQ, ClientResetQ, Waiting, Seen
<1>4. FramesTrue /\ SeenTrue BY <1>3 DEF FramesTrue, SeenTrue
<1>5. ClientTableTrue BY <1>1 DEF ClientTableTrue, EmptyTable
<1>6. VerdictTrue BY <1>1 DEF VerdictTrue, Verdict
<1>7. QED BY <1>4, <1>5, <1>6 DEF VerdictInv

LEMMA VerdictHolds == Spec => [](Inv /\ EndInv /\ VerdictInv)
<1>1. Init => Inv /\ EndInv /\ VerdictInv BY InitInv, InitEnd, InitVerdict
<1>2. Inv /\ EndInv /\ VerdictInv /\ [Next]_vars => (Inv /\ EndInv /\ VerdictInv)'
  <2>1. ASSUME Inv, EndInv, VerdictInv, [Next]_vars PROVE (Inv /\ EndInv /\ VerdictInv)'
    BY <2>1, NextInv, EndNext, VerdictNext
  <2>2. QED BY <2>1
<1>3. QED BY <1>1, <1>2, PTL DEF Spec

(* on_stream_close with NO_ERROR at the client is a complete response,     *)
(* whatever resets, refusals and GOAWAYs cross it.                         *)
THEOREM CleanCloseComplete == Spec => []CleanCloseIsComplete
<1>1. VerdictInv => CleanCloseIsComplete
  BY DEF VerdictInv, VerdictTrue, CleanCloseIsComplete, Verdict, Delivered, Answered
<1>2. QED BY <1>1, VerdictHolds, PTL

(* A request the client may send again was never given to the server's     *)
(* application, nor will it be.                                            *)
THEOREM RetryIsSafe == Spec => []SafeRetry
<1>1. VerdictInv => SafeRetry BY DEF VerdictInv, VerdictTrue, SafeRetry, Verdict, Seen
<1>2. QED BY <1>1, VerdictHolds, PTL

-----------------------------------------------------------------------------
(* What carries the last stream of a GOAWAY to the client                  *)

(* What a session says of the streams it processes.                        *)
SameNotice(d, c) == /\ d.lastProc = c.lastProc /\ d.localLast = c.localLast
                    /\ "TERM_ON_SEND" \in d.goaway <=> "TERM_ON_SEND" \in c.goaway

(* What a session was told of the streams the peer processes.              *)
SameWord(d, c) == /\ d.remoteLast = c.remoteLast
                  /\ "RECV" \in d.goaway <=> "RECV" \in c.goaway

LEMMA NoticeOps ==
  ASSUME NEW c \in Conn
  PROVE  /\ SameNotice(c, c) /\ SameWord(c, c)
         /\ \A a : SameNotice([c EXCEPT !.abort = a], c) /\ SameWord([c EXCEPT !.abort = a], c)
         /\ \A n : SameNotice([c EXCEPT !.remoteMax = n], c) /\ SameWord([c EXCEPT !.remoteMax = n], c)
         /\ \A n : /\ SameNotice([c EXCEPT !.localMax = n, !.pendingMax = n], c)
                   /\ SameWord([c EXCEPT !.localMax = n, !.pendingMax = n], c)
         /\ \A n : SameNotice([c EXCEPT !.nextId = n], c) /\ SameWord([c EXCEPT !.nextId = n], c)
         /\ \A id : SameNotice([c EXCEPT !.lastSent = id], c) /\ SameWord([c EXCEPT !.lastSent = id], c)
         /\ \A id : SameNotice([c EXCEPT !.lastRecv = id], c) /\ SameWord([c EXCEPT !.lastRecv = id], c)
         /\ \A id : SameWord([c EXCEPT !.lastRecv = id, !.lastProc = id], c)
         /\ \A id : SameNotice([c EXCEPT !.goaway = c.goaway \cup {"RECV"}, !.remoteLast = id], c)
         /\ SameNotice([c EXCEPT !.up = FALSE], c) /\ SameWord([c EXCEPT !.up = FALSE], c)
<1>1. c = [nextId |-> c.nextId, lastRecv |-> c.lastRecv, lastSent |-> c.lastSent, lastProc |-> c.lastProc,
           localLast |-> c.localLast, remoteLast |-> c.remoteLast, goaway |-> c.goaway,
           localMax |-> c.localMax, pendingMax |-> c.pendingMax, remoteMax |-> c.remoteMax,
           err |-> c.err, abort |-> c.abort, up |-> c.up]
  BY DEF Conn
<1>2. \A d : d.lastProc = c.lastProc /\ d.localLast = c.localLast /\ d.goaway = c.goaway => SameNotice(d, c)
  BY DEF SameNotice
<1>3. \A d : d.remoteLast = c.remoteLast /\ d.goaway = c.goaway => SameWord(d, c) BY DEF SameWord
<1>4. ASSUME NEW id PROVE SameNotice([c EXCEPT !.goaway = c.goaway \cup {"RECV"}, !.remoteLast = id], c)
  BY <1>1 DEF SameNotice
<1>5. QED BY <1>1, <1>2, <1>3, <1>4

(* The queue, the wire and the connection of an end, by action.            *)
LEMMA WireSteps ==
  ASSUME NEW e \in Endpoints
  PROVE  /\ Submit(e) \/ Drop(e) => UNCHANGED wire
         /\ Send(e) => UNCHANGED wire \/ \E f : Transmit(e, f)
         /\ Recv(e) => \E type : Arrives(e, type)
<1>1. Submit(e) \/ Drop(e) => UNCHANGED wire
  BY DEF Submit, SubmitRequest, SubmitPush, SubmitResponse, SubmitRst, SubmitTerminate, SubmitGoaway, Drop
<1>2. ASSUME Send(e) PROVE UNCHANGED wire \/ \E f : Transmit(e, f)
  <2>1. CASE SendSettings(e) BY <2>1 DEF SendSettings
  <2>2. CASE e = "client" /\ SendRequest BY <2>2 DEF SendRequest
  <2>3. CASE e = "server" /\ SendResponse BY <2>3 DEF SendResponse
  <2>4. CASE e = "server" /\ SendPromise BY <2>4 DEF SendPromise
  <2>5. CASE SendGoaway(e) BY <2>5 DEF SendGoaway
  <2>6. CASE SendRst(e) BY <2>6 DEF SendRst
  <2>7. CASE \E id \in StreamIds : SendData(e, id) BY <2>7 DEF SendData
  <2>8. QED BY <1>2, <2>1, <2>2, <2>3, <2>4, <2>5, <2>6, <2>7 DEF Send
<1>3. ASSUME Recv(e) PROVE \E type : Arrives(e, type)
  BY <1>3 DEF Recv, RecvInvalid, RecvRequest, RecvResponse, RecvData, RecvPromise, RecvRst, RecvSettings,
              RecvSettingsAck, RecvGoaway, Accepted
<1>4. QED BY <1>1, <1>2, <1>3

LEMMA RegMoves ==
  ASSUME Inv, NEW e \in Endpoints
  PROVE  /\ UNCHANGED queue => ToSet(queue'[e].reg) \subseteq ToSet(queue[e].reg)
         /\ \A t, id, code : queue' = [queue EXCEPT ![e] = AddRst(t, queue[e], id, code)] =>
              ToSet(queue'[e].reg) \subseteq ToSet(queue[e].reg)
         /\ \A f : queue' = [queue EXCEPT ![e] = [queue[e] EXCEPT !.reg = Append(queue[e].reg, f)]] =>
              ToSet(queue'[e].reg) = ToSet(queue[e].reg) \cup {f}
         /\ \A s : queue' = [queue EXCEPT ![e] = [queue[e] EXCEPT !.urg = s]] =>
              ToSet(queue'[e].reg) \subseteq ToSet(queue[e].reg)
         /\ \A s : queue' = [queue EXCEPT ![e] = [queue[e] EXCEPT !.syn = s]] =>
              ToSet(queue'[e].reg) \subseteq ToSet(queue[e].reg)
         /\ RegReady(e) /\ queue' = [queue EXCEPT ![e] = AfterReg(e)] =>
              ToSet(queue'[e].reg) \subseteq ToSet(queue[e].reg)
         /\ \A t, id, code : RegReady(e) /\ queue' = [queue EXCEPT ![e] = AddRst(t, AfterReg(e), id, code)] =>
              ToSet(queue'[e].reg) \subseteq ToSet(queue[e].reg)
<1>1. queue[e] \in Queues(e) /\ \A q : queue' = [queue EXCEPT ![e] = q] => queue'[e] = q BY Place
<1>2. /\ \A s : [queue[e] EXCEPT !.urg = s].reg = queue[e].reg
      /\ \A s : [queue[e] EXCEPT !.syn = s].reg = queue[e].reg
  BY <1>1 DEF Queues
<1>3. \A t, id, code : AddRst(t, queue[e], id, code).reg = queue[e].reg BY <1>1, AddRstMoves
<1>4. \A f : ToSet([queue[e] EXCEPT !.reg = Append(queue[e].reg, f)].reg) = ToSet(queue[e].reg) \cup {f}
  BY <1>1, QueueMoves
<1>5. ASSUME RegReady(e) PROVE /\ AfterReg(e) \in Queues(e)
                               /\ ToSet(AfterReg(e).reg) \subseteq ToSet(queue[e].reg)
  BY <1>1, <1>5, QueueOps, QueueMoves DEF AfterReg, RegReady
<1>6. ASSUME RegReady(e), NEW t, NEW id, NEW code
      PROVE  AddRst(t, AfterReg(e), id, code).reg = AfterReg(e).reg
  BY <1>5, <1>6, AddRstMoves
<1>7. \A t, id, code : queue' = [queue EXCEPT ![e] = AddRst(t, queue[e], id, code)] =>
        ToSet(queue'[e].reg) = ToSet(queue[e].reg)
  BY <1>1, <1>3
<1>8. \A f : queue' = [queue EXCEPT ![e] = [queue[e] EXCEPT !.reg = Append(queue[e].reg, f)]] =>
        ToSet(queue'[e].reg) = ToSet(queue[e].reg) \cup {f}
  BY <1>1, <1>4
<1>9. /\ \A s : queue' = [queue EXCEPT ![e] = [queue[e] EXCEPT !.urg = s]] =>
             ToSet(queue'[e].reg) = ToSet(queue[e].reg)
      /\ \A s : queue' = [queue EXCEPT ![e] = [queue[e] EXCEPT !.syn = s]] =>
             ToSet(queue'[e].reg) = ToSet(queue[e].reg)
  BY <1>1, <1>2
<1>10. RegReady(e) /\ queue' = [queue EXCEPT ![e] = AfterReg(e)] =>
         ToSet(queue'[e].reg) \subseteq ToSet(queue[e].reg)
  BY <1>1, <1>5
<1>11. ASSUME NEW t, NEW id, NEW code, RegReady(e), queue' = [queue EXCEPT ![e] = AddRst(t, AfterReg(e), id, code)]
       PROVE  ToSet(queue'[e].reg) \subseteq ToSet(queue[e].reg)
  <2>1. queue'[e] = AddRst(t, AfterReg(e), id, code) BY <1>1, <1>11
  <2>2. queue'[e].reg = AfterReg(e).reg BY <1>6, <1>11, <2>1
  <2>3. QED BY <1>5, <1>11, <2>2
<1>12. UNCHANGED queue => ToSet(queue'[e].reg) = ToSet(queue[e].reg) OBVIOUS
<1>13. QED BY <1>7, <1>8, <1>9, <1>10, <1>11, <1>12

LEMMA RegKept ==
  ASSUME Inv, NEW e \in Endpoints,
         \/ UNCHANGED queue
         \/ \E t, id, code : queue' = [queue EXCEPT ![e] = AddRst(t, queue[e], id, code)]
         \/ \E s : queue' = [queue EXCEPT ![e] = [queue[e] EXCEPT !.urg = s]]
         \/ \E s : queue' = [queue EXCEPT ![e] = [queue[e] EXCEPT !.syn = s]]
         \/ RegReady(e) /\ queue' = [queue EXCEPT ![e] = AfterReg(e)]
         \/ RegReady(e) /\ \E t, id, code : queue' = [queue EXCEPT ![e] = AddRst(t, AfterReg(e), id, code)]
  PROVE  ToSet(queue'[e].reg) \subseteq ToSet(queue[e].reg)
<1>1. CASE \/ UNCHANGED queue
           \/ RegReady(e) /\ queue' = [queue EXCEPT ![e] = AfterReg(e)]
  BY <1>1, RegMoves
<1>2. ASSUME NEW t, NEW id, NEW code, queue' = [queue EXCEPT ![e] = AddRst(t, queue[e], id, code)]
      PROVE  ToSet(queue'[e].reg) \subseteq ToSet(queue[e].reg)
  BY <1>2, RegMoves
<1>3. ASSUME NEW s, \/ queue' = [queue EXCEPT ![e] = [queue[e] EXCEPT !.urg = s]]
                    \/ queue' = [queue EXCEPT ![e] = [queue[e] EXCEPT !.syn = s]]
      PROVE  ToSet(queue'[e].reg) \subseteq ToSet(queue[e].reg)
  BY <1>3, RegMoves
<1>4. ASSUME NEW t, NEW id, NEW code, RegReady(e), queue' = [queue EXCEPT ![e] = AddRst(t, AfterReg(e), id, code)]
      PROVE  ToSet(queue'[e].reg) \subseteq ToSet(queue[e].reg)
  BY <1>4, RegMoves
<1>5. QED BY <1>1, <1>2, <1>3, <1>4

(* GOAWAY enters the server's queue only when the session ends itself or   *)
(* the application announces that it leaves.                               *)
NoNotice(frames, old) == \A f \in frames : f \in old \/ ~IsGoaway(f)

LEMMA OtherFrames ==
  /\ \A id, child : ~IsGoaway(PushPromise(id, child))
  /\ \A id, end : ~IsGoaway(Headers(id, end))
  /\ \A id, code : ~IsGoaway(Rst(id, code))
  /\ \A id : ~IsGoaway(Data(id))
  /\ \A f \in UrgFrames \cup SynFrames : ~IsGoaway(f)
  /\ \A last, term : Goaway(last, term).arg = last
BY DEF PushPromise, Headers, Rst, Data, UrgFrames, SynFrames, Goaway, F, IsGoaway

LEMMA NoticeSubmitted ==
  ASSUME Inv, Submit("server"), ~SubmitTerminate("server"), ~SubmitGoaway("server")
  PROVE  NoNotice(ToSet(queue'["server"].reg), ToSet(queue["server"].reg))
<1> DEFINE e == "server"
<1>0. e \in Endpoints BY Ends
<1>1. CASE \E id \in StreamIds : SubmitPush(id)
  <2>1. PICK f : ~IsGoaway(f) /\ queue' = [queue EXCEPT ![e] = [queue[e] EXCEPT !.reg = Append(queue[e].reg, f)]]
    BY <1>1, OtherFrames DEF SubmitPush
  <2>2. ToSet(queue'[e].reg) = ToSet(queue[e].reg) \cup {f} BY <1>0, <2>1, RegMoves
  <2>3. QED BY <2>1, <2>2 DEF NoNotice
<1>2. CASE \E id \in StreamIds, end \in BOOLEAN : SubmitResponse(id, end)
  <2>1. PICK f : ~IsGoaway(f) /\ queue' = [queue EXCEPT ![e] = [queue[e] EXCEPT !.reg = Append(queue[e].reg, f)]]
    BY <1>2, OtherFrames DEF SubmitResponse
  <2>2. ToSet(queue'[e].reg) = ToSet(queue[e].reg) \cup {f} BY <1>0, <2>1, RegMoves
  <2>3. QED BY <2>1, <2>2 DEF NoNotice
<1>3. CASE \E id \in StreamIds : SubmitRst(e, id)
  <2>1. PICK id \in StreamIds : SubmitRst(e, id) BY <1>3
  <2>2. UNCHANGED queue \/ queue' = [queue EXCEPT ![e] = AddRst(table[e], queue[e], id, "CANCEL")]
    BY <2>1 DEF SubmitRst
  <2>3. ToSet(queue'[e].reg) \subseteq ToSet(queue[e].reg)
    <3> HIDE DEF e
    <3>1. QED BY <1>0, <2>2, RegKept
  <2>4. QED BY <2>3 DEF NoNotice
<1>4. QED BY <1>1, <1>2, <1>3 DEF Submit

LEMMA NoticeSent ==
  ASSUME Inv, Send("server") PROVE ToSet(queue'["server"].reg) \subseteq ToSet(queue["server"].reg)
<1> DEFINE e == "server"
<1>0. e \in Endpoints BY Ends
<1> SUFFICES ToSet(queue'[e].reg) \subseteq ToSet(queue[e].reg) OBVIOUS
<1>1. CASE SendSettings(e)
  <2>1. queue' = [queue EXCEPT ![e] = [queue[e] EXCEPT !.urg = Tail(queue[e].urg)]]
    BY <1>1 DEF SendSettings, SetQueue, AfterUrg
  <2>2. QED BY <1>0, <2>1, RegMoves
<1>2. CASE SendResponse \/ SendPromise \/ SendGoaway(e)
  <2>1. RegReady(e) BY <1>2 DEF SendResponse, SendPromise, SendGoaway
  <2>2. \/ queue' = [queue EXCEPT ![e] = AfterReg(e)]
        \/ \E t, id, code : queue' = [queue EXCEPT ![e] = AddRst(t, AfterReg(e), id, code)]
    BY <1>2 DEF SendResponse, SendPromise, SendGoaway, SetQueue
  <2> HIDE DEF e
  <2>3. QED BY <1>0, <2>1, <2>2, RegKept
<1>3. CASE SendRst(e)
  <2>1. queue' = [queue EXCEPT ![e] = [queue[e] EXCEPT !.syn = Tail(queue[e].syn)]]
    BY <1>3 DEF SendRst, SetQueue, AfterSyn
  <2>2. QED BY <1>0, <2>1, RegMoves
<1>4. CASE \E id \in StreamIds : SendData(e, id) BY <1>0, <1>4, RegMoves DEF SendData
<1>5. QED BY <1>1, <1>2, <1>3, <1>4 DEF Send

LEMMA NoticeReceived ==
  ASSUME Inv, Recv("server"), ~RecvInvalid("server")
  PROVE  ToSet(queue'["server"].reg) \subseteq ToSet(queue["server"].reg)
<1> DEFINE e == "server"
<1>0. e \in Endpoints BY Ends
<1> SUFFICES ToSet(queue'[e].reg) \subseteq ToSet(queue[e].reg) OBVIOUS
<1>1. CASE RecvData(e) \/ RecvRst(e) \/ RecvSettingsAck(e) \/ RecvGoaway(e)
  <2>1. UNCHANGED queue BY <1>1 DEF RecvData, RecvRst, RecvSettingsAck, RecvGoaway
  <2>2. QED BY <1>0, <2>1, RegMoves
<1>2. CASE RecvRequest
  <2>1. UNCHANGED queue \/ \E t, id, code : queue' = [queue EXCEPT ![e] = AddRst(t, queue[e], id, code)]
    BY <1>2 DEF RecvRequest, SetQueue
  <2> HIDE DEF e
  <2>2. QED BY <1>0, <2>1, RegKept
<1>3. CASE RecvSettings(e)
  <2>1. \/ queue' = [queue EXCEPT ![e] = queue[e]]
        \/ \E s : queue' = [queue EXCEPT ![e] = [queue[e] EXCEPT !.urg = s]]
    BY <1>3 DEF RecvSettings, SetQueue
  <2>2. queue' = [queue EXCEPT ![e] = queue[e]] => UNCHANGED queue
    <3>1. queue = [x \in Endpoints |-> queue[x]] BY InvParts DEF QueuesOK
    <3>2. QED BY <3>1
  <2> HIDE DEF e
  <2>3. QED BY <1>0, <2>1, <2>2, RegKept
<1>4. QED BY <1>1, <1>2, <1>3 DEF Recv

(* Only SendGoaway puts a GOAWAY on the wire.                              *)
LEMMA NoticeWire ==
  ASSUME Inv, Submit("server") \/ (Send("server") /\ ~SendGoaway("server")) \/ Recv("server") \/ Drop("server")
  PROVE  NoNotice(ToClient', ToClient)
<1> DEFINE e == "server"
<1>0. e \in Endpoints /\ Peer(e) = "client" BY Ends
<1>1. CASE UNCHANGED wire BY <1>1 DEF NoNotice, ToClient
<1>2. ASSUME NEW f, Transmit(e, f), ~IsGoaway(f) PROVE NoNotice(ToClient', ToClient)
  <2>1. ToSet(wire'["client"]) = ToSet(wire["client"]) \cup {f} BY <1>0, <1>2, WireMoves
  <2>2. QED BY <1>2, <2>1 DEF NoNotice, ToClient
<1>3. CASE Submit(e) \/ Drop(e) BY <1>0, <1>1, <1>3, WireSteps
<1>4. CASE Recv(e)
  <2>1. PICK type : Arrives(e, type) BY <1>0, <1>4, WireSteps
  <2>2. wire'["client"] = wire["client"] BY <1>0, <2>1, WireMoves
  <2>3. QED BY <2>2 DEF NoNotice, ToClient
<1>5. CASE SendSettings(e)
  <2>1. Head(queue[e].urg) \in UrgFrames
    <3>1. queue[e] \in Queues(e) /\ queue[e].urg # << >> BY <1>0, <1>5, Place DEF SendSettings, UrgReady
    <3>2. QED BY <1>0, <3>1, QueueOps
  <2>2. UNCHANGED wire \/ Transmit(e, Head(queue[e].urg)) BY <1>5 DEF SendSettings
  <2>3. QED BY <1>1, <1>2, <2>1, <2>2, OtherFrames
<1>6. CASE SendResponse \/ SendPromise
  <2>1. NextReg(e).type \in {"HEADERS", "PUSH_PROMISE"} /\ (UNCHANGED wire \/ Transmit(e, NextReg(e)))
    BY <1>6 DEF SendResponse, SendPromise
  <2>2. ~IsGoaway(NextReg(e)) BY <2>1 DEF IsGoaway
  <2>3. QED BY <1>1, <1>2, <2>1, <2>2
<1>7. CASE SendRst(e)
  <2>1. Head(queue[e].syn) \in SynFrames
    <3>1. queue[e] \in Queues(e) /\ queue[e].syn # << >> BY <1>0, <1>7, Place DEF SendRst, SynReady
    <3>2. QED BY <1>0, <3>1, QueueOps
  <2>2. UNCHANGED wire \/ Transmit(e, Head(queue[e].syn)) BY <1>7 DEF SendRst
  <2>3. QED BY <1>1, <1>2, <2>1, <2>2, OtherFrames
<1>8. CASE \E id \in StreamIds : SendData(e, id)
  <2>1. PICK id \in StreamIds : SendData(e, id) BY <1>8
  <2>2. UNCHANGED wire \/ Transmit(e, Data(id)) BY <2>1 DEF SendData
  <2>3. QED BY <1>1, <1>2, <2>2, OtherFrames
<1>9. QED BY <1>3, <1>4, <1>5, <1>6, <1>7, <1>8 DEF Send

LEMMA ConnKept ==
  ASSUME Inv, NEW e \in Endpoints,
         \/ UNCHANGED conn
         \/ \E n : conn' = [conn EXCEPT ![e] = [conn[e] EXCEPT !.nextId = n]]
         \/ \E a : conn' = [conn EXCEPT ![e] = [conn[e] EXCEPT !.abort = a]]
         \/ \E n : conn' = [conn EXCEPT ![e] = [conn[e] EXCEPT !.lastSent = n]]
         \/ \E n : conn' = [conn EXCEPT ![e] = [conn[e] EXCEPT !.lastRecv = n]]
         \/ \E n : conn' = [conn EXCEPT ![e] = [conn[e] EXCEPT !.remoteMax = n]]
         \/ \E n : conn' = [conn EXCEPT ![e] = [conn[e] EXCEPT !.localMax = n, !.pendingMax = n]]
         \/ conn' = [conn EXCEPT ![e] = [conn[e] EXCEPT !.up = FALSE]]
  PROVE  SameNotice(conn'[e], conn[e]) /\ SameWord(conn'[e], conn[e])
<1>1. conn[e] \in Conn /\ \A c : conn' = [conn EXCEPT ![e] = c] => conn'[e] = c BY Place
<1> DEFINE Same == SameNotice(conn'[e], conn[e]) /\ SameWord(conn'[e], conn[e])
           Fields(d) == /\ d.lastProc = conn[e].lastProc /\ d.localLast = conn[e].localLast
                        /\ d.remoteLast = conn[e].remoteLast /\ d.goaway = conn[e].goaway
<1>2. CASE UNCHANGED conn BY <1>1, <1>2, NoticeOps
<1>3. ASSUME NEW n, conn' = [conn EXCEPT ![e] = [conn[e] EXCEPT !.nextId = n]] PROVE Same
  <2>1. conn'[e] = [conn[e] EXCEPT !.nextId = n] BY <1>1, <1>3
  <2>2. Fields(conn'[e]) BY <1>1, <2>1 DEF Conn
  <2>3. QED BY <2>2 DEF SameNotice, SameWord
<1>4. ASSUME NEW n, conn' = [conn EXCEPT ![e] = [conn[e] EXCEPT !.abort = n]] PROVE Same
  <2>1. conn'[e] = [conn[e] EXCEPT !.abort = n] BY <1>1, <1>4
  <2>2. Fields(conn'[e]) BY <1>1, <2>1 DEF Conn
  <2>3. QED BY <2>2 DEF SameNotice, SameWord
<1>5. ASSUME NEW n, conn' = [conn EXCEPT ![e] = [conn[e] EXCEPT !.lastSent = n]] PROVE Same
  <2>1. conn'[e] = [conn[e] EXCEPT !.lastSent = n] BY <1>1, <1>5
  <2>2. Fields(conn'[e]) BY <1>1, <2>1 DEF Conn
  <2>3. QED BY <2>2 DEF SameNotice, SameWord
<1>6. ASSUME NEW n, conn' = [conn EXCEPT ![e] = [conn[e] EXCEPT !.lastRecv = n]] PROVE Same
  <2>1. conn'[e] = [conn[e] EXCEPT !.lastRecv = n] BY <1>1, <1>6
  <2>2. Fields(conn'[e]) BY <1>1, <2>1 DEF Conn
  <2>3. QED BY <2>2 DEF SameNotice, SameWord
<1>7. ASSUME NEW n, conn' = [conn EXCEPT ![e] = [conn[e] EXCEPT !.remoteMax = n]] PROVE Same
  <2>1. conn'[e] = [conn[e] EXCEPT !.remoteMax = n] BY <1>1, <1>7
  <2>2. Fields(conn'[e]) BY <1>1, <2>1 DEF Conn
  <2>3. QED BY <2>2 DEF SameNotice, SameWord
<1>8. ASSUME NEW n, conn' = [conn EXCEPT ![e] = [conn[e] EXCEPT !.localMax = n, !.pendingMax = n]] PROVE Same
  <2>1. conn'[e] = [conn[e] EXCEPT !.localMax = n, !.pendingMax = n] BY <1>1, <1>8
  <2>2. Fields(conn'[e]) BY <1>1, <2>1 DEF Conn
  <2>3. QED BY <2>2 DEF SameNotice, SameWord
<1>9. CASE conn' = [conn EXCEPT ![e] = [conn[e] EXCEPT !.up = FALSE]]
  <2>1. conn'[e] = [conn[e] EXCEPT !.up = FALSE] BY <1>1, <1>9
  <2>2. QED BY <1>1, <2>1, NoticeOps
<1>10. QED BY <1>2, <1>3, <1>4, <1>5, <1>6, <1>7, <1>8, <1>9

LEMMA ConnSubmits ==
  ASSUME Inv, NEW e \in Endpoints, Submit(e), ~SubmitTerminate(e)
  PROVE  SameNotice(conn'[e], conn[e]) /\ SameWord(conn'[e], conn[e])
<1>1. CASE e = "client" /\ SubmitRequest BY <1>1, ConnKept DEF SubmitRequest, SetConn
<1>2. CASE \E id \in StreamIds : e = "server" /\ SubmitPush(id) BY <1>2, ConnKept DEF SubmitPush, SetConn
<1>3. CASE \E id \in StreamIds, end \in BOOLEAN : e = "server" /\ SubmitResponse(id, end)
  BY <1>3, ConnKept DEF SubmitResponse
<1>4. CASE \E id \in StreamIds : SubmitRst(e, id) BY <1>4, ConnKept DEF SubmitRst, SetConn
<1>5. CASE SubmitGoaway(e) BY <1>5, ConnKept DEF SubmitGoaway
<1>6. QED BY <1>1, <1>2, <1>3, <1>4, <1>5 DEF Submit

LEMMA ConnSends ==
  ASSUME Inv, NEW e \in Endpoints, Send(e), ~SendGoaway(e)
  PROVE  SameNotice(conn'[e], conn[e]) /\ SameWord(conn'[e], conn[e])
<1>1. CASE SendSettings(e) BY <1>1, ConnKept DEF SendSettings
<1>2. CASE e = "client" /\ SendRequest BY <1>2, ConnKept DEF SendRequest, SetConn
<1>3. CASE e = "server" /\ SendResponse BY <1>3, ConnKept DEF SendResponse
<1>4. CASE e = "server" /\ SendPromise BY <1>4, ConnKept DEF SendPromise, SetConn
<1>5. CASE SendRst(e) BY <1>5, ConnKept DEF SendRst
<1>6. CASE \E id \in StreamIds : SendData(e, id) BY <1>6, ConnKept DEF SendData
<1>7. QED BY <1>1, <1>2, <1>3, <1>4, <1>5, <1>6 DEF Send

(* A GOAWAY that is sent does not change what was received.                *)
LEMMA ConnLeaves ==
  ASSUME Inv, NEW e \in Endpoints, SendGoaway(e) PROVE SameWord(conn'[e], conn[e])
<1> DEFINE g == IF NextReg(e).end THEN {"TERM_SENT"} ELSE {}
<1>1. conn'[e] = [conn[e] EXCEPT !.localLast = NextReg(e).arg, !.goaway = conn[e].goaway \cup {"SENT"} \cup g]
  BY Place DEF SendGoaway, SetConn
<1>2. conn[e] \in Conn BY Place
<1>3. conn'[e].remoteLast = conn[e].remoteLast /\ conn'[e].goaway = conn[e].goaway \cup {"SENT"} \cup g
  BY <1>1, <1>2 DEF Conn
<1>4. QED BY <1>3 DEF SameWord

LEMMA ConnTerminates ==
  ASSUME Inv, NEW e \in Endpoints, NEW c \in Conn, SameWord(c, conn[e]), NEW why, Terminate(e, c, why)
  PROVE  SameWord(conn'[e], conn[e])
<1>1. \/ conn' = [conn EXCEPT ![e] = c]
      \/ conn' = [conn EXCEPT ![e] = [c EXCEPT !.goaway = c.goaway \cup {"TERM_ON_SEND"}, !.err = why]]
  BY DEF Terminate, SetConn
<1>2. conn'[e] = c \/ conn'[e] = [c EXCEPT !.goaway = c.goaway \cup {"TERM_ON_SEND"}, !.err = why]
  BY <1>1, Place
<1>3. /\ conn'[e].remoteLast = c.remoteLast
      /\ conn'[e].goaway = c.goaway \/ conn'[e].goaway = c.goaway \cup {"TERM_ON_SEND"}
  BY <1>2 DEF Conn
<1>4. QED BY <1>3 DEF SameWord

(* The connection session_handle_invalid_connection ends.                  *)
Refused(e) == IF ErrorOf(e, Head(wire[e])) = "max concurrent streams exceeded" /\ NewPeerId(e, Head(wire[e]).id)
              THEN [conn[e] EXCEPT !.lastRecv = Head(wire[e]).id] ELSE conn[e]

LEMMA RefusedKept ==
  ASSUME Inv, NEW e \in Endpoints, RecvInvalid(e)
  PROVE  /\ Refused(e) \in Conn /\ SameNotice(Refused(e), conn[e]) /\ SameWord(Refused(e), conn[e])
         /\ \E why : Terminate(e, Refused(e), why)
<1> DEFINE f == Head(wire[e])
<1>1. Arrives(e, f.type) /\ \E why : Terminate(e, Refused(e), why) BY DEF RecvInvalid, Refused
<1>2. conn[e] \in Conn /\ SameNotice(conn[e], conn[e]) /\ SameWord(conn[e], conn[e]) BY Place, NoticeOps
<1>3. ASSUME ErrorOf(e, f) = "max concurrent streams exceeded", NewPeerId(e, f.id)
      PROVE  /\ [conn[e] EXCEPT !.lastRecv = f.id] \in Conn
             /\ SameNotice([conn[e] EXCEPT !.lastRecv = f.id], conn[e])
             /\ SameWord([conn[e] EXCEPT !.lastRecv = f.id], conn[e])
  <2>1. f \in FramesTo(e) BY <1>1, Received
  <2> HIDE DEF f
  <2>2. f.id \in StreamIds /\ conn[e].lastRecv < f.id
    BY <1>3, <2>1, ErrorKinds, FrameFacts DEF NewPeerId
  <2>3. [conn[e] EXCEPT !.lastRecv = f.id] \in Conn BY <1>2, <2>2, ConnOps
  <2>4. QED BY <1>2, <2>3, NoticeOps
<1>4. QED BY <1>1, <1>2, <1>3 DEF Refused

LEMMA ConnReads ==
  ASSUME Inv, NEW e \in Endpoints, Recv(e)
  PROVE  /\ ~RecvGoaway(e) => SameWord(conn'[e], conn[e])
         /\ ~RecvInvalid(e) /\ e = "server" /\ ~RecvRequest => SameNotice(conn'[e], conn[e])
<1>1. CASE RecvInvalid(e) BY <1>1, RefusedKept, ConnTerminates
<1>2. CASE e = "server" /\ RecvRequest
  <2>1. \/ conn' = [conn EXCEPT ![e] = [conn[e] EXCEPT !.lastRecv = Head(wire[e]).id]]
        \/ conn' = [conn EXCEPT ![e] = [[conn[e] EXCEPT !.lastRecv = Head(wire[e]).id]
                                          EXCEPT !.lastProc = Head(wire[e]).id]]
    BY <1>2 DEF RecvRequest, SetConn
  <2>2. conn[e] \in Conn BY Place
  <2>3. \/ conn'[e] = [conn[e] EXCEPT !.lastRecv = Head(wire[e]).id]
        \/ conn'[e] = [[conn[e] EXCEPT !.lastRecv = Head(wire[e]).id] EXCEPT !.lastProc = Head(wire[e]).id]
    BY <2>1, Place
  <2>4. conn'[e].remoteLast = conn[e].remoteLast /\ conn'[e].goaway = conn[e].goaway
    BY <2>2, <2>3 DEF Conn
  <2>5. QED BY <1>1, <1>2, <2>4 DEF SameWord
<1>3. CASE e = "client" /\ RecvResponse BY <1>3, ConnKept DEF RecvResponse
<1>4. CASE RecvData(e) BY <1>4, ConnKept DEF RecvData
<1>5. CASE e = "client" /\ RecvPromise
  <2>1. \/ UNCHANGED conn
        \/ \E id : conn' = [conn EXCEPT ![e] = [conn[e] EXCEPT !.lastRecv = id]]
        \/ \E id : conn' = [conn EXCEPT ![e] = [conn[e] EXCEPT !.lastRecv = id, !.lastProc = id]]
    BY <1>5 DEF RecvPromise, SetConn
  <2>2. ASSUME NEW id, conn' = [conn EXCEPT ![e] = [conn[e] EXCEPT !.lastRecv = id, !.lastProc = id]]
        PROVE  SameWord(conn'[e], conn[e])
    <3>1. conn[e] \in Conn /\ conn'[e] = [conn[e] EXCEPT !.lastRecv = id, !.lastProc = id] BY <2>2, Place
    <3>2. QED BY <3>1, NoticeOps
  <2>3. QED BY <1>5, <2>1, <2>2, ConnKept
<1>6. CASE RecvRst(e) BY <1>6, ConnKept DEF RecvRst
<1>7. CASE RecvSettings(e) BY <1>7, ConnKept DEF RecvSettings, SetConn
<1>8. CASE RecvSettingsAck(e) BY <1>8, ConnKept DEF RecvSettingsAck, SetConn
<1>9. CASE RecvGoaway(e)
  <2>1. PICK id : conn' = [conn EXCEPT ![e] = [conn[e] EXCEPT !.goaway = conn[e].goaway \cup {"RECV"},
                                                              !.remoteLast = id]]
    BY <1>9 DEF RecvGoaway, SetConn
  <2>2. /\ conn[e] \in Conn
        /\ conn'[e] = [conn[e] EXCEPT !.goaway = conn[e].goaway \cup {"RECV"}, !.remoteLast = id]
    BY <2>1, Place
  <2>3. SameNotice(conn'[e], conn[e]) BY <2>2, NoticeOps
  <2>4. QED BY <1>9, <2>3
<1>10. QED BY <1>1, <1>2, <1>3, <1>4, <1>5, <1>6, <1>7, <1>8, <1>9 DEF Recv

(* The requests the server's application was given.                        *)
LEMMA SeenKept ==
  ASSUME Inv, Submit("server") \/ Send("server") \/ Drop("server") \/ (Recv("server") /\ ~RecvRequest)
  PROVE  Seen' = Seen
<1> DEFINE e == "server"
<1>0. e \in Endpoints /\ e # "client" BY Ends
<1>1. log[e] \in Log /\ \A l : log' = [log EXCEPT ![e] = l] => log'[e] = l BY <1>0, Place
<1>2. CASE UNCHANGED log BY <1>2 DEF Seen
<1>3. ASSUME NEW r, log' = [log EXCEPT ![e] = r], r.seen = log[e].seen PROVE Seen' = Seen
  BY <1>1, <1>3 DEF Seen
<1>4. ASSUME NEW code, NEW fin, log' = SentLast(e, code, fin) PROVE Seen' = Seen
  BY <1>0, <1>4, LogMoves DEF Seen
<1>5. ASSUME NEW code, log' = ClosedWith(e, code) PROVE Seen' = Seen
  BY <1>0, <1>5, ClosedMoves DEF Seen
<1>6. CASE Submit(e)
  <2>1. \/ UNCHANGED log
        \/ \E id : log' = [log EXCEPT ![e] = [log[e] EXCEPT !.responded = log[e].responded \cup {id}]]
        \/ log' = [log EXCEPT ![e] = [log[e] EXCEPT !.resets = log[e].resets + 1]]
        \/ log' = [log EXCEPT ![e] = [log[e] EXCEPT !.closing = TRUE]]
    BY <1>6, <1>0 DEF Submit, SubmitPush, SubmitResponse, SubmitRst, SubmitTerminate, SubmitGoaway
  <2>2. /\ \A id : [log[e] EXCEPT !.responded = log[e].responded \cup {id}].seen = log[e].seen
        /\ [log[e] EXCEPT !.resets = log[e].resets + 1].seen = log[e].seen
        /\ [log[e] EXCEPT !.closing = TRUE].seen = log[e].seen
    BY <1>1 DEF Log
  <2>3. QED BY <1>2, <1>3, <2>1, <2>2
<1>7. CASE Drop(e) BY <1>2, <1>7 DEF Drop
<1>8. CASE Send(e)
  <2>1. CASE SendSettings(e) BY <1>2, <2>1 DEF SendSettings
  <2>2. CASE SendResponse BY <1>2, <1>4, <2>2 DEF SendResponse
  <2>3. CASE SendPromise
    <3>1. UNCHANGED log \/ log' = ClosedWith(e, "INTERNAL_ERROR") BY <2>3 DEF SendPromise
    <3>2. QED BY <1>2, <1>5, <3>1
  <2>4. CASE SendGoaway(e)
    <3>1. \E code : log' = ClosedWith(e, code) BY <2>4 DEF SendGoaway
    <3>2. QED BY <1>5, <3>1
  <2>5. CASE SendRst(e)
    <3>1. UNCHANGED log \/ (\E code, fin : log' = SentLast(e, code, fin)) BY <2>5 DEF SendRst
    <3>2. QED BY <1>2, <1>4, <3>1
  <2>6. CASE \E id \in StreamIds : SendData(e, id)
    <3>1. UNCHANGED log \/ (\E code, fin : log' = SentLast(e, code, fin)) BY <2>6 DEF SendData
    <3>2. QED BY <1>2, <1>4, <3>1
  <2>7. QED BY <1>0, <1>8, <2>1, <2>2, <2>3, <2>4, <2>5, <2>6 DEF Send
<1>9. CASE Recv(e) /\ ~RecvRequest
  <2>1. CASE RecvInvalid(e) \/ RecvSettings(e) \/ RecvSettingsAck(e)
    BY <1>2, <2>1 DEF RecvInvalid, RecvSettings, RecvSettingsAck
  <2>2. CASE RecvData(e) \/ RecvRst(e) \/ RecvGoaway(e)
    <3>1. UNCHANGED log \/ (\E code : log' = ClosedWith(e, code)) BY <2>2 DEF RecvData, RecvRst, RecvGoaway
    <3>2. QED BY <1>2, <1>5, <3>1
  <2>3. QED BY <1>0, <1>9, <2>1, <2>2 DEF Recv
<1>10. QED BY <1>6, <1>7, <1>8, <1>9

-----------------------------------------------------------------------------
(* GOAWAY, from the session that ends itself to the client                 *)

Pending == ToSet(queue["server"].reg) \cup ToClient

Still == /\ Seen' = Seen
         /\ SameNotice(conn'["server"], conn["server"]) /\ SameWord(conn'["client"], conn["client"])
         /\ NoNotice(Pending', Pending)

LEMMA StillMove == ASSUME GoawayInv, Still PROVE GoawayInv'
<1>1. /\ conn'["server"].lastProc = conn["server"].lastProc
      /\ conn'["server"].localLast = conn["server"].localLast /\ Terminated' = Terminated
  BY DEF Still, SameNotice, Terminated
<1>2. /\ conn'["client"].remoteLast = conn["client"].remoteLast
      /\ "RECV" \in conn'["client"].goaway <=> "RECV" \in conn["client"].goaway
  BY DEF Still, SameWord
<1>3. Seen' = Seen /\ \A f \in Pending' : f \in Pending \/ ~IsGoaway(f) BY DEF Still, NoNotice
<1>4. QED BY <1>1, <1>2, <1>3 DEF GoawayInv, Pending

LEMMA StillServer ==
  ASSUME Inv,
         \/ Submit("server") /\ ~SubmitTerminate("server") /\ ~SubmitGoaway("server")
         \/ Send("server") /\ ~SendGoaway("server")
         \/ Recv("server") /\ ~RecvInvalid("server") /\ ~RecvRequest
         \/ Drop("server")
  PROVE  Still
<1> DEFINE e == "server"
<1>0. e \in Endpoints /\ "client" \in Endpoints /\ e # "client" BY Ends
<1>1. Apart(e) BY <1>0, SubmitApart, SendApart, RecvApart, DropApart
<1>2. Seen' = Seen BY SeenKept
<1>3. SameNotice(conn'[e], conn[e])
  <2>1. Drop(e) => SameNotice(conn'[e], conn[e]) BY <1>0, ConnKept DEF Drop, SetConn
  <2>2. QED BY <1>0, <2>1, ConnSubmits, ConnSends, ConnReads
<1>4. SameWord(conn'["client"], conn["client"]) BY <1>0, <1>1 DEF Apart, SameWord
<1>5. NoNotice(ToSet(queue'[e].reg), ToSet(queue[e].reg))
  <2>1. Drop(e) => NoNotice(ToSet(queue'[e].reg), ToSet(queue[e].reg)) BY DEF Drop, NoNotice
  <2>2. ToSet(queue'[e].reg) \subseteq ToSet(queue[e].reg) => NoNotice(ToSet(queue'[e].reg), ToSet(queue[e].reg))
    BY DEF NoNotice
  <2>3. QED BY <2>1, <2>2, NoticeSubmitted, NoticeSent, NoticeReceived
<1>6. NoNotice(ToClient', ToClient) BY NoticeWire
<1>7. NoNotice(Pending', Pending) BY <1>5, <1>6 DEF NoNotice, Pending
<1>8. QED BY <1>2, <1>3, <1>4, <1>7 DEF Still

LEMMA StillClient ==
  ASSUME Inv, Submit("client") \/ Send("client") \/ (Recv("client") /\ ~RecvGoaway("client")) \/ Drop("client")
  PROVE  Still
<1> DEFINE e == "client"
<1>0. e \in Endpoints /\ "server" \in Endpoints /\ e # "server" /\ Peer(e) = "server" BY Ends
<1>1. Apart(e) BY <1>0, SubmitApart, SendApart, RecvApart, DropApart
<1>2. /\ Seen' = Seen /\ SameNotice(conn'["server"], conn["server"])
      /\ queue'["server"] = queue["server"]
  BY <1>0, <1>1 DEF Apart, Seen, SameNotice
<1>3. SameWord(conn'[e], conn[e])
  <2>1. Drop(e) => SameWord(conn'[e], conn[e]) BY <1>0, ConnKept DEF Drop, SetConn
  <2>2. SubmitTerminate(e) => SameWord(conn'[e], conn[e])
    <3>1. conn[e] \in Conn /\ SameWord(conn[e], conn[e]) BY <1>0, Place, NoticeOps
    <3>2. SubmitTerminate(e) => Terminate(e, conn[e], conn[e].err) BY DEF SubmitTerminate
    <3> HIDE DEF e
    <3>3. QED BY <1>0, <3>1, <3>2, ConnTerminates
  <2>3. QED BY <1>0, <2>1, <2>2, ConnSubmits, ConnSends, ConnLeaves, ConnReads
<1>4. ToClient' \subseteq ToClient
  <2>1. CASE UNCHANGED wire BY <2>1 DEF ToClient
  <2>2. ASSUME NEW f, Transmit(e, f) PROVE ToClient' \subseteq ToClient BY <1>0, <2>2, WireMoves DEF ToClient
  <2>3. ASSUME NEW type, Arrives(e, type) PROVE ToClient' \subseteq ToClient
    BY <1>0, <2>3, WireMoves DEF ToClient
  <2>4. QED BY <1>0, <2>1, <2>2, <2>3, WireSteps
<1>5. NoNotice(Pending', Pending) BY <1>2, <1>4 DEF NoNotice, Pending
<1>6. QED BY <1>2, <1>3, <1>5 DEF Still

(* A session that ends itself announces the last request it handed over.   *)
LEMMA TerminateMove ==
  ASSUME Inv, GoawayInv, NEW c \in Conn, SameNotice(c, conn["server"]), NEW why, Terminate("server", c, why),
         Apart("server"), ToClient' = ToClient, Seen' = Seen
  PROVE  GoawayInv'
<1> DEFINE e == "server"
           d == [c EXCEPT !.goaway = c.goaway \cup {"TERM_ON_SEND"}, !.err = why]
           last == IF c.lastProc < c.localLast THEN c.lastProc ELSE c.localLast
           f == Goaway(last, TRUE)
<1>0. e \in Endpoints /\ "client" \in Endpoints /\ e # "client" BY Ends
<1>1. conn'["client"] = conn["client"] BY <1>0 DEF Apart
<1>2. c.lastProc = conn[e].lastProc /\ c.localLast = conn[e].localLast
      /\ ("TERM_ON_SEND" \in c.goaway <=> Terminated)
  BY DEF SameNotice, Terminated
<1>3. CASE Terminated
  <2>1. conn' = [conn EXCEPT ![e] = c] /\ UNCHANGED queue BY <1>2, <1>3 DEF Terminate, SetConn
  <2>2. conn'[e] = c BY <1>0, <2>1, Place
  <2>3. NoNotice(Pending', Pending) BY <2>1 DEF NoNotice, Pending
  <2>4. SameNotice(conn'[e], conn[e]) BY <2>2
  <2>5. SameWord(conn'["client"], conn["client"]) BY <1>1 DEF SameWord
  <2>6. QED BY <2>3, <2>4, <2>5, StillMove DEF Still
<1>4. CASE ~Terminated
  <2>1. /\ conn' = [conn EXCEPT ![e] = d]
        /\ queue' = [queue EXCEPT ![e] = [queue[e] EXCEPT !.reg = Append(queue[e].reg, f)]]
    BY <1>2, <1>4 DEF Terminate, SetConn, AddGoaway
  <2>2. conn'[e] = d BY <1>0, <2>1, Place
  <2>3. d.lastProc = c.lastProc /\ "TERM_ON_SEND" \in d.goaway BY DEF Conn
  <2>4. last = conn[e].lastProc
    <3>1. c.localLast = MaxStreamId BY <1>2, <1>4 DEF GoawayInv
    <3>2. c.lastProc \in 0 .. MaxStreamId BY DEF Conn
    <3>3. MaxStreamId \in Nat BY MaxStreamIdAssumption
    <3>4. c.lastProc < MaxStreamId \/ c.lastProc = MaxStreamId BY <3>2, <3>3
    <3>5. QED BY <1>2, <3>1, <3>4
  <2>5. f.arg = conn[e].lastProc BY <2>4, OtherFrames
  <2> HIDE DEF f, d, last
  <2>6. ToSet(queue'[e].reg) = ToSet(queue[e].reg) \cup {f} BY <1>0, <2>1, RegMoves
  <2>7. Pending' = Pending \cup {f} BY <2>6 DEF Pending
  <2>8. Terminated' /\ conn'[e].lastProc = conn[e].lastProc BY <1>2, <2>2, <2>3 DEF Terminated
  <2>9. "RECV" \notin conn["client"].goaway BY <1>4 DEF GoawayInv
  <2>10. \A x \in Pending : ~IsGoaway(x) BY <1>4 DEF GoawayInv, Pending
  <2>11. \A id \in Seen : id <= conn[e].lastProc BY DEF GoawayInv
  <2>12. \A x \in Pending' : IsGoaway(x) => Terminated' /\ \A id \in Seen' : id <= x.arg
    BY <2>5, <2>7, <2>8, <2>10, <2>11
  <2>13. QED BY <1>1, <2>8, <2>9, <2>11, <2>12 DEF GoawayInv, Pending
<1>5. QED BY <1>3, <1>4

LEMMA SubmitTerminateMove == ASSUME Inv, GoawayInv, SubmitTerminate("server") PROVE GoawayInv'
<1> DEFINE e == "server"
<1>0. e \in Endpoints BY Ends
<1>1. Apart(e) /\ Seen' = Seen BY <1>0, SubmitApart, SeenKept DEF Submit
<1>2. Terminate(e, conn[e], conn[e].err) /\ UNCHANGED wire BY DEF SubmitTerminate
<1>3. conn[e] \in Conn /\ SameNotice(conn[e], conn[e]) BY <1>0, Place, NoticeOps
<1>4. ToClient' = ToClient BY <1>2 DEF ToClient
<1>5. QED BY <1>1, <1>2, <1>3, <1>4, TerminateMove

LEMMA RecvInvalidMove == ASSUME Inv, GoawayInv, RecvInvalid("server") PROVE GoawayInv'
<1> DEFINE e == "server"
<1>0. e \in Endpoints /\ Peer(e) = "client" BY Ends
<1>1. Apart(e) BY <1>0, RecvApart DEF Recv
<1>2. PICK why : Terminate(e, Refused(e), why) BY <1>0, RefusedKept
<1>3. Refused(e) \in Conn /\ SameNotice(Refused(e), conn[e]) BY <1>0, RefusedKept
<1>4. Arrives(e, Head(wire[e]).type) /\ UNCHANGED log BY DEF RecvInvalid
<1>5. ToClient' = ToClient /\ Seen' = Seen BY <1>0, <1>4, WireMoves DEF ToClient, Seen
<1>6. QED BY <1>1, <1>2, <1>3, <1>5, TerminateMove

(* Only a session that ends itself has a GOAWAY to send.                   *)
LEMMA SendGoawayMove == ASSUME Inv, GoawayInv, SendGoaway("server") PROVE GoawayInv'
<1> DEFINE e == "server"
           f == NextReg(e)
           g == IF f.end THEN {"TERM_SENT"} ELSE {}
           d == [conn[e] EXCEPT !.localLast = f.arg, !.goaway = conn[e].goaway \cup {"SENT"} \cup g]
<1>0. e \in Endpoints /\ "client" \in Endpoints /\ e # "client" /\ Peer(e) = "client" BY Ends
<1>1. Apart(e) /\ Seen' = Seen BY <1>0, SendApart, SeenKept DEF Send
<1>2. /\ RegReady(e) /\ f.type = "GOAWAY" /\ queue' = [queue EXCEPT ![e] = AfterReg(e)]
      /\ conn' = [conn EXCEPT ![e] = d] /\ Transmit(e, f)
  BY DEF SendGoaway, SetQueue, SetConn
<1>3. conn["client"] = conn'["client"] BY <1>0, <1>1 DEF Apart
<1>4. conn[e] \in Conn /\ conn'[e] = d BY <1>0, <1>2, Place
<1>5. d.lastProc = conn[e].lastProc /\ d.goaway = conn[e].goaway \cup {"SENT"} \cup g BY <1>4 DEF Conn
<1> HIDE DEF f, d, g
<1>6. ToSet(queue'[e].reg) \subseteq ToSet(queue[e].reg) /\ f \in ToSet(queue[e].reg)
  BY <1>0, <1>2, TakeReg DEF f
<1>7. ToClient' = ToClient \cup {f} BY <1>0, <1>2, WireMoves DEF ToClient
<1>8. Pending' \subseteq Pending /\ f \in Pending BY <1>6, <1>7 DEF Pending
<1>9. Terminated BY <1>2, <1>8 DEF GoawayInv, Pending, IsGoaway
<1>10. Terminated' BY <1>4, <1>5, <1>9 DEF Terminated
<1>11. QED BY <1>1, <1>3, <1>4, <1>5, <1>8, <1>9, <1>10 DEF GoawayInv, Pending

(* A request is handed over only before the session ends itself, and it is *)
(* then the last one it announces.                                         *)
LEMMA AcceptMove == ASSUME Inv, EndInv, VerdictInv, GoawayInv, RecvRequest PROVE GoawayInv'
<1> DEFINE e == "server"
           f == Head(wire[e])
           c == [conn[e] EXCEPT !.lastRecv = f.id]
           d == [c EXCEPT !.lastProc = f.id]
<1>0. e \in Endpoints /\ "client" \in Endpoints /\ e # "client" /\ Peer(e) = "client" BY Ends
<1>1. Apart(e) BY <1>0, RecvApart DEF Recv
<1>2. Accepted(e, "HEADERS") /\ NewPeerId(e, f.id) BY DEF RecvRequest
<1>3. f.id \in StreamIds /\ LastRecv < f.id
  <2>1. f.id \in StreamIds /\ f.type = "HEADERS" BY <1>0, <1>2, Arrived
  <2>2. QED BY <1>2, <2>1 DEF NewPeerId, LastRecv
<1>4. ToClient' = ToClient BY <1>0, <1>2, WireMoves DEF Accepted, ToClient
<1>5. conn'["client"] = conn["client"] BY <1>0, <1>1 DEF Apart
<1>6. ToSet(queue'[e].reg) \subseteq ToSet(queue[e].reg)
  <2>1. Recv(e) BY <1>0 DEF Recv
  <2>2. ErrorOf(e, f) = "none" BY <1>2 DEF Accepted
  <2>3. ~RecvInvalid(e) BY <2>2 DEF RecvInvalid
  <2>4. QED BY <2>1, <2>3, NoticeReceived
<1>7. Pending' \subseteq Pending BY <1>4, <1>6 DEF Pending
<1>8. conn[e] \in Conn /\ log[e] \in Log BY <1>0, Place
<1>9. \/ conn' = [conn EXCEPT ![e] = c] /\ UNCHANGED log
      \/ /\ AllowIncoming(c) /\ conn' = [conn EXCEPT ![e] = d]
         /\ log' = [log EXCEPT ![e] = [log[e] EXCEPT !.seen = log[e].seen \cup {f.id}]]
  BY DEF RecvRequest, SetConn
<1>10. c.goaway = conn[e].goaway /\ d.lastProc = f.id /\ d.localLast = conn[e].localLast /\ d.goaway = conn[e].goaway
  BY <1>8 DEF Conn
<1>11. SameNotice(c, conn[e]) BY <1>8, NoticeOps
<1>12. CASE conn' = [conn EXCEPT ![e] = c] /\ UNCHANGED log
  <2>1. conn'[e] = c BY <1>0, <1>12, Place
  <2>2. SameNotice(conn'[e], conn[e]) /\ Seen' = Seen BY <1>11, <1>12, <2>1 DEF Seen
  <2>3. SameWord(conn'["client"], conn["client"]) BY <1>5 DEF SameWord
  <2>4. NoNotice(Pending', Pending) BY <1>7 DEF NoNotice
  <2>5. QED BY <2>2, <2>3, <2>4, StillMove DEF Still
<1>13. CASE /\ AllowIncoming(c) /\ conn' = [conn EXCEPT ![e] = d]
            /\ log' = [log EXCEPT ![e] = [log[e] EXCEPT !.seen = log[e].seen \cup {f.id}]]
  <2>1. ~Terminated BY <1>10, <1>13 DEF AllowIncoming, Terminated
  <2>2. conn'[e] = d BY <1>0, <1>13, Place
  <2>3. Seen' = Seen \cup {f.id}
    <3>1. log'[e] = [log[e] EXCEPT !.seen = log[e].seen \cup {f.id}] BY <1>0, <1>13, Place
    <3>2. QED BY <1>8, <3>1 DEF Log, Seen
  <2>4. conn'[e].lastProc = f.id /\ conn'[e].localLast = MaxStreamId /\ Terminated' = Terminated
    BY <1>10, <2>1, <2>2 DEF GoawayInv, Terminated
  <2> HIDE DEF f
  <2>5. \A id \in Seen' : id <= f.id
    <3>1. \A id \in Seen : id <= LastRecv BY DEF VerdictInv, SeenTrue
    <3>2. LastRecv \in Int /\ f.id \in Int /\ Seen \subseteq StreamIds BY <1>3, Numbers, NumberTypes
    <3>3. StreamIds \subseteq Int BY MaxStreamIdAssumption DEF StreamIds
    <3>4. ASSUME NEW id \in Seen PROVE id <= f.id
      <4>1. id \in Int /\ id <= LastRecv BY <3>1, <3>2, <3>3
      <4>2. \A a, b, k \in Int : a <= b /\ b < k => a <= k OBVIOUS
      <4>3. QED BY <1>3, <3>2, <4>1, <4>2
    <3>5. f.id <= f.id BY <3>2
    <3>6. QED BY <2>3, <3>4, <3>5
  <2>6. \A x \in Pending' : ~IsGoaway(x) BY <1>7, <2>1 DEF GoawayInv, Pending
  <2>7. "RECV" \notin conn'["client"].goaway BY <1>5, <2>1 DEF GoawayInv
  <2>8. QED BY <2>1, <2>4, <2>5, <2>6, <2>7 DEF GoawayInv, Pending
<1>14. QED BY <1>9, <1>12, <1>13

(* The client takes the announced stream for its own limit.                *)
LEMMA RecvGoawayMove == ASSUME Inv, GoawayInv, RecvGoaway("client") PROVE GoawayInv'
<1> DEFINE e == "client"
           f == Head(wire[e])
           d == [conn[e] EXCEPT !.goaway = conn[e].goaway \cup {"RECV"}, !.remoteLast = f.arg]
<1>0. e \in Endpoints /\ "server" \in Endpoints /\ e # "server" BY Ends
<1>1. Apart(e) BY <1>0, RecvApart DEF Recv
<1>2. Arrives(e, "GOAWAY") /\ conn' = [conn EXCEPT ![e] = d] BY DEF RecvGoaway, Accepted, SetConn
<1>3. ToClient' \subseteq ToClient /\ f \in ToClient /\ IsGoaway(f)
  BY <1>0, <1>2, Received DEF ToClient, IsGoaway
<1>4. conn[e] \in Conn /\ conn'[e] = d BY <1>0, <1>2, Place
<1>5. d.remoteLast = f.arg BY <1>4 DEF Conn
<1>6. conn'["server"] = conn["server"] /\ queue'["server"] = queue["server"] /\ Seen' = Seen
  BY <1>0, <1>1 DEF Apart, Seen
<1> HIDE DEF f, d
<1>7. Terminated' /\ \A id \in Seen' : id <= f.arg BY <1>3, <1>6 DEF GoawayInv, Terminated
<1>8. conn'[e].remoteLast = f.arg BY <1>4, <1>5
<1>9. QED BY <1>3, <1>6, <1>7, <1>8 DEF GoawayInv, Terminated

LEMMA GoawayNext ==
  ASSUME "server" \notin Leavers, Inv, EndInv, VerdictInv, GoawayInv, [Next]_vars PROVE GoawayInv'
<1>1. CASE UNCHANGED vars BY <1>1 DEF vars, GoawayInv, Terminated, Seen, ToClient
<1>2. CASE Next
  <2>1. ~SubmitGoaway("server") BY DEF SubmitGoaway
  <2>2. CASE Submit("server") \/ Send("server") \/ Recv("server") \/ Drop("server")
    BY <2>1, <2>2, StillServer, StillMove, SubmitTerminateMove, SendGoawayMove, RecvInvalidMove, AcceptMove
  <2>3. CASE Submit("client") \/ Send("client") \/ Recv("client") \/ Drop("client")
    BY <2>3, StillClient, StillMove, RecvGoawayMove
  <2>4. QED BY <1>2, <2>2, <2>3 DEF Next, Endpoints
<1>3. QED BY <1>1, <1>2

LEMMA InitGoaway == Init => GoawayInv
<1> SUFFICES ASSUME Init PROVE GoawayInv OBVIOUS
<1>1. /\ wire["client"] = << >> /\ queue["server"].reg = << >> /\ log["server"].seen = {}
      /\ conn["client"].goaway = {} /\ conn["server"].localLast = MaxStreamId
  BY Ends DEF Init
<1>2. ToSet(<< >>) = {} BY DEF ToSet
<1>3. QED BY <1>1, <1>2 DEF GoawayInv, Seen, ToClient

(* A request above the last stream of the GOAWAY the client received was   *)
(* never given to the server's application, for a server that ends its     *)
(* session the way nghttp2_session_terminate_session does.                 *)
THEOREM GoawayRespected ==
  ASSUME "server" \notin Leavers
  PROVE  Spec => []AboveGoawayUnprocessed
<1>1. Init => GoawayInv BY InitGoaway
<1>2. Inv /\ EndInv /\ VerdictInv /\ GoawayInv /\ [Next]_vars => GoawayInv' BY GoawayNext
<1>3. Inv /\ GoawayInv => AboveGoawayUnprocessed
  <2> SUFFICES ASSUME Inv, GoawayInv, NEW id \in StreamIds, id > conn["client"].remoteLast,
                      "RECV" \in conn["client"].goaway, id \in Seen
               PROVE  FALSE
    BY DEF AboveGoawayUnprocessed, Seen
  <2>1. id <= conn["client"].remoteLast BY DEF GoawayInv
  <2>2. id \in Int /\ conn["client"].remoteLast \in Int
    <3>1. conn["client"] \in Conn BY Ends, Place
    <3>2. conn["client"].remoteLast \in 0 .. MaxStreamId BY <3>1 DEF Conn
    <3>3. QED BY <3>2, MaxStreamIdAssumption DEF StreamIds
  <2>3. QED BY <2>1, <2>2
<1>4. QED BY <1>1, <1>2, <1>3, VerdictHolds, PTL DEF Spec
=============================================================================
