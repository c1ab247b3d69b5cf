------------------------------ MODULE EndProofs ------------------------------
(***************************************************************************)
(* NothingAfterEnd for every number of requests, pushes and resets and     *)
(* every limit: once END_STREAM or RST_STREAM went out on a stream, no     *)
(* HEADERS, DATA or PUSH_PROMISE is sent on it, whatever still waits in    *)
(* the queues and in whatever order the applications call.                 *)
(*                                                                         *)
(* Three reasons, one invariant: an ended stream that is still in memory   *)
(* has its write side shut, which the predicates of session_prep_frame     *)
(* look at; it is not opened again, because every identifier that ended    *)
(* was given out before; and a request whose HEADERS wait has not ended,   *)
(* because RST_STREAM leaves only when the regular queue is empty.         *)
(***************************************************************************)
EXTENDS SessionProofs

(* id was given out before: announced to or by a server, submitted by a    *)
(* client.                                                                 *)
Given(e, c, id) == IF Srv(e) THEN Announced(e, c, id) ELSE IsMine(FALSE, id) => id < c.nextId

IsHeaders(f) == f.type = "HEADERS"

(* The HEADERS of s name streams that differ and that did not end. *)
OnceEach(s, E) ==
  \A i \in DOMAIN s : IsHeaders(s[i]) =>
    /\ s[i].id \notin E
    /\ \A j \in DOMAIN s : j # i /\ IsHeaders(s[j]) => s[j].id # s[i].id

QueueOK(e, q, c, E) ==
  /\ \A i \in DOMAIN q.syn : Given(e, c, q.syn[i].id)
  /\ \A i \in DOMAIN q.reg : IsHeaders(q.reg[i]) => Given(e, c, q.reg[i].id)
  /\ \A id \in E : Given(e, c, id)
  /\ ~Srv(e) => OnceEach(q.reg, E) /\ c.lastSent < c.nextId

TableOK(t, E) == /\ t.item \subseteq LiveStreams(t)
                 /\ \A id \in E : Live(t, id) => id \in t.wr

EndInv == \A e \in Endpoints : /\ TableOK(table[e], log[e].ended)
                               /\ QueueOK(e, queue[e], conn[e], log[e].ended)

-----------------------------------------------------------------------------
(* Tables: no operator but nghttp2_session_open_stream brings a stream     *)
(* back or opens its write side again.                                     *)

Steady(u, t) == /\ \A x \in StreamIds : Live(u, x) => Live(t, x) /\ (x \in t.wr => x \in u.wr)
                /\ t.item \subseteq LiveStreams(t) => u.item \subseteq LiveStreams(u)

LEMMA SteadyOK ==
  ASSUME NEW t, NEW u, NEW E \in SUBSET StreamIds, TableOK(t, E), Steady(u, t)
  PROVE  TableOK(u, E)
BY DEF TableOK, Steady

LEMMA SteadyTwice == ASSUME NEW t, NEW u, NEW w, Steady(u, t), Steady(w, u) PROVE Steady(w, t)
BY DEF Steady

LEMMA SteadySame == ASSUME NEW t PROVE Steady(t, t)
BY DEF Steady

LEMMA FlagsSteady ==
  ASSUME NEW t \in Table, NEW id \in StreamIds
  PROVE  /\ Steady(ShutRd(t, id), t) /\ Steady(ShutWr(t, id), t) /\ Steady(Detach(t, id), t)
         /\ Live(t, id) => Steady(Attach(t, id), t)
         /\ id \in ShutWr(t, id).wr
<1>1. ASSUME NEW u, u.st = t.st, t.wr \subseteq u.wr, u.item \subseteq t.item PROVE Steady(u, t)
  BY <1>1 DEF Steady, Live, LiveStreams
<1>2. ASSUME Live(t, id) PROVE Steady(Attach(t, id), t)
  <2>1. Attach(t, id).st = t.st /\ Attach(t, id).wr = t.wr /\ Attach(t, id).item = t.item \cup {id}
    BY DEF Table, Attach
  <2> QED
    BY <1>2, <2>1 DEF Steady, Live, LiveStreams
<1>3. /\ ShutRd(t, id).st = t.st /\ ShutRd(t, id).wr = t.wr /\ ShutRd(t, id).item = t.item
      /\ ShutWr(t, id).st = t.st /\ ShutWr(t, id).wr = t.wr \cup {id} /\ ShutWr(t, id).item = t.item
      /\ Detach(t, id).st = t.st /\ Detach(t, id).wr = t.wr /\ Detach(t, id).item = t.item \ {id}
  BY DEF Table, ShutRd, ShutWr, Detach
<1> QED
  BY <1>1, <1>2, <1>3

(* Moving a live stream to another state of a live stream. *)
LEMMA StateSteady ==
  ASSUME NEW t \in Table, NEW id \in StreamIds, Live(t, id), NEW u, NEW s,
         s \in {"OPENING", "OPENED", "CLOSING"},
         u.st = [t.st EXCEPT ![id] = s], u.wr = t.wr, u.item = t.item
  PROVE  Steady(u, t)
<1>1. \A x \in StreamIds : u.st[x] = IF x = id THEN s ELSE t.st[x]
  BY DEF Table
<1>2. \A x \in StreamIds : Live(u, x) <=> Live(t, x)
  BY <1>1 DEF Live
<1> QED
  BY <1>2 DEF Steady, LiveStreams

LEMMA MovesSteady ==
  ASSUME NEW t \in Table, NEW id \in StreamIds
  PROVE  /\ Live(t, id) => Steady(SetState(t, id, "OPENED"), t)
         /\ Steady(MarkClosing(t, id), t)
         /\ t.st[id] = "RESERVED" => Steady(PushResponseSent(t, id), t) /\ Steady(PromiseFulfilled(t, id), t)
<1>1. ASSUME NEW s \in {"OPENING", "OPENED", "CLOSING"}, Live(t, id) PROVE Steady(SetState(t, id, s), t)
  <2> DEFINE u == SetState(t, id, s)
  <2>1. u.st = [t.st EXCEPT ![id] = s] /\ u.wr = t.wr /\ u.item = t.item
    BY DEF Table, SetState
  <2> HIDE DEF u
  <2> QED
    BY <1>1, <2>1, StateSteady DEF u
<1>2. ASSUME t.st[id] = "RESERVED"
      PROVE  Steady(PushResponseSent(t, id), t) /\ Steady(PromiseFulfilled(t, id), t)
  <2> DEFINE u == PushResponseSent(t, id)
             w == PromiseFulfilled(t, id)
  <2>1. /\ u.st = [t.st EXCEPT ![id] = "OPENED"] /\ u.wr = t.wr /\ u.item = t.item
        /\ w.st = [t.st EXCEPT ![id] = "OPENED"] /\ w.wr = t.wr /\ w.item = t.item
    BY DEF Table, PushResponseSent, PromiseFulfilled
  <2>2. Live(t, id)
    BY <1>2 DEF Live
  <2> HIDE DEF u, w
  <2> QED
    BY <2>1, <2>2, StateSteady DEF u, w
<1> QED
  BY <1>1, <1>2, SteadySame DEF MarkClosing

(* Closing. *)
LEMMA CloseSteady ==
  ASSUME NEW t \in Table, NEW srv, NEW S \in SUBSET StreamIds
  PROVE  /\ Steady(CloseStreams(t, srv, S), t)
         /\ \A x \in S : ~Live(CloseStreams(t, srv, S), x)
<1> DEFINE u    == CloseStreams(t, srv, S)
           keep == {id \in S : srv /\ ~IsMine(srv, id)}
           gone == S \ keep
<1>1. /\ u.st = [id \in StreamIds |-> IF id \in keep THEN "CLOSED" ELSE IF id \in gone THEN "NONE" ELSE t.st[id]]
      /\ u.wr = t.wr \ gone /\ u.item = t.item \ S
  BY DEF CloseStreams
<1>2. \A x \in StreamIds : u.st[x] = IF x \in keep THEN "CLOSED" ELSE IF x \in gone THEN "NONE" ELSE t.st[x]
  BY <1>1
<1> HIDE DEF u
<1>3. \A x \in StreamIds : Live(u, x) <=> Live(t, x) /\ x \notin S
  BY <1>2 DEF Live
<1> QED
  BY <1>1, <1>3 DEF Steady, LiveStreams, u

LEMMA CloseOneSteady ==
  ASSUME NEW t \in Table, NEW srv, NEW id \in StreamIds
  PROVE  /\ Steady(CloseStream(t, srv, id), t) /\ ~Live(CloseStream(t, srv, id), id)
         /\ Steady(CloseIfShut(t, srv, id), t)
<1>1. Steady(CloseStream(t, srv, id), t) /\ ~Live(CloseStream(t, srv, id), id)
  <2>1. CASE Live(t, id)
    BY <2>1, CloseSteady DEF CloseStream
  <2>2. CASE ~Live(t, id)
    BY <2>2, SteadySame DEF CloseStream
  <2> QED
    BY <2>1, <2>2
<1> QED
  BY <1>1, SteadySame DEF CloseIfShut

LEMMA PeerEndedSteady ==
  ASSUME NEW t \in Table, NEW srv, NEW id \in StreamIds, ShutRd(t, id) \in Table, NEW end \in BOOLEAN
  PROVE  Steady(PeerEnded(t, srv, id, end), t)
<1>1. Steady(ShutRd(t, id), t)
  BY FlagsSteady
<1>2. Steady(CloseIfShut(ShutRd(t, id), srv, id), t)
  BY <1>1, CloseOneSteady, SteadyTwice
<1> QED
  BY <1>2, SteadySame DEF PeerEnded

LEMMA AdjustSteady ==
  ASSUME NEW t, NEW srv \in BOOLEAN, Good(t, srv), NEW max \in Int
  PROVE  Steady(AdjustClosed(t, max), t)
<1> DEFINE u == AdjustClosed(t, max)
<1>1. \A x \in StreamIds : Live(t, x) => Live(u, x)
  BY AdjustClosedGood
<1>2. t \in Table
  BY DEF Good
<1>3. PICK gone : /\ u.st = [id \in StreamIds |-> IF id \in gone THEN "NONE" ELSE t.st[id]]
                  /\ u.wr = t.wr \ gone /\ u.item = t.item
  BY <1>2 DEF Table, AdjustClosed
<1>4. \A x \in StreamIds : u.st[x] = IF x \in gone THEN "NONE" ELSE t.st[x]
  BY <1>3
<1> HIDE DEF u
<1>5. \A x \in StreamIds : Live(u, x) => Live(t, x) /\ x \notin gone
  BY <1>4 DEF Live
<1> QED
  BY <1>1, <1>3, <1>5 DEF Steady, LiveStreams, u

(* A new stream did not end, or cannot be written to. *)
LEMMA OpenOK ==
  ASSUME NEW t \in Table, NEW srv \in BOOLEAN, NEW id \in StreamIds, NEW E \in SUBSET StreamIds, TableOK(t, E),
         NEW initial \in {"OPENING", "RESERVED"},
         id \notin E \/ (initial = "RESERVED" /\ ~IsMine(srv, id))
  PROVE  TableOK(OpenStream(t, srv, id, initial), E)
<1> DEFINE u == OpenStream(t, srv, id, initial)
<1>1. /\ u.st = [t.st EXCEPT ![id] = initial] /\ u.item = t.item /\ t.wr \subseteq u.wr
      /\ initial = "RESERVED" /\ ~IsMine(srv, id) => id \in u.wr
  BY DEF Table, OpenStream
<1>2. \A x \in StreamIds : u.st[x] = IF x = id THEN initial ELSE t.st[x]
  BY <1>1 DEF Table
<1> HIDE DEF u
<1>3. \A x \in StreamIds : Live(u, x) <=> x = id \/ Live(t, x)
  BY <1>2 DEF Live
<1> QED
  BY <1>1, <1>3 DEF TableOK, LiveStreams, u

-----------------------------------------------------------------------------
(* Queues and identifiers                                                  *)

LEMMA GivenLater ==
  ASSUME NEW e \in Endpoints, NEW c \in Conn, NEW d \in Conn, Later(d, c), NEW id \in StreamIds, Given(e, c, id)
  PROVE  Given(e, d, id)
<1>1. /\ c.lastRecv \in Int /\ c.lastSent \in Int /\ c.nextId \in Int /\ id \in Int
      /\ d.lastRecv \in Int /\ d.lastSent \in Int /\ d.nextId \in Int
  BY DEF Conn, StreamIds
<1>2. c.lastRecv <= d.lastRecv /\ c.lastSent <= d.lastSent /\ c.nextId <= d.nextId
  BY <1>1 DEF Later
<1>3. /\ id <= c.lastRecv => id <= d.lastRecv
      /\ id <= c.lastSent => id <= d.lastSent
      /\ id < c.nextId => id < d.nextId
  BY <1>1, <1>2
<1> QED
  BY <1>3 DEF Given, Announced

(* An announced stream was given out. *)
LEMMA AnnouncedGiven ==
  ASSUME NEW e \in Endpoints, NEW c \in Conn, NEW id \in StreamIds, Announced(e, c, id),
         ~Srv(e) => c.lastSent < c.nextId
  PROVE  Given(e, c, id)
<1>1. CASE Srv(e)
  BY <1>1 DEF Given
<1>2. CASE ~Srv(e)
  <2>1. c.lastSent \in Int /\ c.nextId \in Int /\ id \in Int
    BY DEF Conn, StreamIds
  <2>2. e = "client" /\ Srv(e) = FALSE
    BY <1>2, Ends
  <2>3. IsMine(FALSE, id) => id <= c.lastSent
    BY <2>2 DEF Announced
  <2>4. IsMine(FALSE, id) => id < c.nextId
    BY <1>2, <2>1, <2>3
  <2> QED
    BY <1>2, <2>4 DEF Given
<1> QED
  BY <1>1, <1>2

(* Identifiers in the queues. *)
LEMMA QueuedIds ==
  ASSUME NEW e \in Endpoints, NEW q \in Queues(e)
  PROVE  /\ \A i \in DOMAIN q.syn : q.syn[i].id \in StreamIds
         /\ \A i \in DOMAIN q.reg : IsHeaders(q.reg[i]) => q.reg[i].id \in StreamIds
         /\ q.reg \in Seq(RegFrames(e)) /\ q.syn \in Seq(SynFrames)
<1>1. q.reg \in Seq(RegFrames(e)) /\ q.syn \in Seq(SynFrames)
  BY DEF Queues
<1>2. \A i \in DOMAIN q.syn : q.syn[i] \in SynFrames
  BY <1>1
<1>3. \A i \in DOMAIN q.reg : q.reg[i] \in RegFrames(e)
  BY <1>1
<1> QED
  BY <1>1, <1>2, <1>3 DEF SynFrames, RegFrames, IsHeaders

LEMMA QueueLater ==
  ASSUME NEW e \in Endpoints, NEW q \in Queues(e), NEW c \in Conn, NEW d \in Conn, Later(d, c),
         NEW E \in SUBSET StreamIds, QueueOK(e, q, c, E), ~Srv(e) => d.lastSent < d.nextId
  PROVE  QueueOK(e, q, d, E)
BY QueuedIds, GivenLater DEF QueueOK

(* What Append and Tail leave in a queue. *)
LEMMA AppendElements ==
  ASSUME NEW S, NEW s \in Seq(S), NEW x
  PROVE  \A i \in DOMAIN Append(s, x) : (i \in DOMAIN s /\ Append(s, x)[i] = s[i])
                                     \/ (i = Len(s) + 1 /\ i \notin DOMAIN s /\ Append(s, x)[i] = x)
<1>1. PICK n \in Nat : n = Len(s) /\ DOMAIN s = 1 .. n
  OBVIOUS
<1> QED
  BY <1>1

LEMMA TailElements ==
  ASSUME NEW S, NEW s \in Seq(S), s # << >>
  PROVE  /\ 1 \in DOMAIN s /\ Head(s) = s[1]
         /\ \A i \in DOMAIN Tail(s) : /\ i \in Int /\ i + 1 \in DOMAIN s /\ i + 1 # 1
                                      /\ Tail(s)[i] = s[i + 1]
<1>1. PICK n \in Nat : n = Len(s) /\ DOMAIN s = 1 .. n /\ n > 0
  OBVIOUS
<1> QED
  BY <1>1

LEMMA OnceTail ==
  ASSUME NEW S, NEW s \in Seq(S), s # << >>, NEW E, OnceEach(s, E)
  PROVE  /\ OnceEach(Tail(s), E)
         /\ IsHeaders(Head(s)) => Head(s).id \notin E /\ OnceEach(Tail(s), E \cup {Head(s).id})
<1>1. ASSUME NEW i \in DOMAIN Tail(s), IsHeaders(Tail(s)[i])
      PROVE  /\ Tail(s)[i].id \notin E
             /\ IsHeaders(Head(s)) => Tail(s)[i].id # Head(s).id
             /\ \A j \in DOMAIN Tail(s) : j # i /\ IsHeaders(Tail(s)[j]) => Tail(s)[j].id # Tail(s)[i].id
  <2>1. 1 \in DOMAIN s /\ Head(s) = s[1] /\ i + 1 \in DOMAIN s /\ i + 1 # 1 /\ Tail(s)[i] = s[i + 1]
    BY TailElements
  <2>2. ASSUME NEW j \in DOMAIN Tail(s), j # i, IsHeaders(Tail(s)[j]) PROVE Tail(s)[j].id # Tail(s)[i].id
    <3>1. j + 1 \in DOMAIN s /\ Tail(s)[j] = s[j + 1] /\ j \in Int /\ i \in Int
      BY TailElements
    <3>2. j + 1 # i + 1
      BY <2>2, <3>1
    <3> QED
      BY <1>1, <2>1, <2>2, <3>1, <3>2 DEF OnceEach
  <2>3. Tail(s)[i].id \notin E /\ (IsHeaders(Head(s)) => Tail(s)[i].id # Head(s).id)
    BY <1>1, <2>1 DEF OnceEach
  <2> QED
    BY <2>2, <2>3
<1>2. IsHeaders(Head(s)) => Head(s).id \notin E
  BY TailElements DEF OnceEach
<1> QED
  BY <1>1, <1>2 DEF OnceEach

LEMMA OnceAppend ==
  ASSUME NEW S, NEW s \in Seq(S), NEW E, OnceEach(s, E), NEW x,
         IsHeaders(x) => x.id \notin E /\ \A i \in DOMAIN s : IsHeaders(s[i]) => s[i].id # x.id
  PROVE  OnceEach(Append(s, x), E)
BY AppendElements DEF OnceEach

(* Taking the head of a queue. *)
LEMMA TakeOK ==
  ASSUME NEW e \in Endpoints, NEW q \in Queues(e), NEW c, NEW E, QueueOK(e, q, c, E)
  PROVE  /\ QueueOK(e, [q EXCEPT !.urg = Tail(q.urg)], c, E)
         /\ q.syn # << >> => /\ QueueOK(e, [q EXCEPT !.syn = Tail(q.syn)], c, E)
                             /\ Given(e, c, Head(q.syn).id)
         /\ q.reg # << >> => /\ QueueOK(e, [q EXCEPT !.reg = Tail(q.reg)], c, E)
                             /\ IsHeaders(Head(q.reg)) => Given(e, c, Head(q.reg).id)
<1>1. /\ [q EXCEPT !.urg = Tail(q.urg)].syn = q.syn /\ [q EXCEPT !.urg = Tail(q.urg)].reg = q.reg
      /\ [q EXCEPT !.syn = Tail(q.syn)].syn = Tail(q.syn) /\ [q EXCEPT !.syn = Tail(q.syn)].reg = q.reg
      /\ [q EXCEPT !.reg = Tail(q.reg)].syn = q.syn /\ [q EXCEPT !.reg = Tail(q.reg)].reg = Tail(q.reg)
  BY DEF Queues
<1>2. QueueOK(e, [q EXCEPT !.urg = Tail(q.urg)], c, E)
  BY <1>1 DEF QueueOK
<1>3. ASSUME q.syn # << >>
      PROVE  QueueOK(e, [q EXCEPT !.syn = Tail(q.syn)], c, E) /\ Given(e, c, Head(q.syn).id)
  <2>1. /\ 1 \in DOMAIN q.syn /\ Head(q.syn) = q.syn[1]
        /\ \A i \in DOMAIN Tail(q.syn) : i + 1 \in DOMAIN q.syn /\ Tail(q.syn)[i] = q.syn[i + 1]
    BY <1>3, QueuedIds, TailElements
  <2> QED
    BY <1>1, <2>1 DEF QueueOK
<1>4. ASSUME q.reg # << >>
      PROVE  /\ QueueOK(e, [q EXCEPT !.reg = Tail(q.reg)], c, E)
             /\ IsHeaders(Head(q.reg)) => Given(e, c, Head(q.reg).id)
  <2>1. /\ 1 \in DOMAIN q.reg /\ Head(q.reg) = q.reg[1]
        /\ \A i \in DOMAIN Tail(q.reg) : i + 1 \in DOMAIN q.reg /\ Tail(q.reg)[i] = q.reg[i + 1]
    BY <1>4, QueuedIds, TailElements
  <2>2. ~Srv(e) => OnceEach(Tail(q.reg), E)
    BY <1>4, QueuedIds, OnceTail DEF QueueOK
  <2> QED
    BY <1>1, <2>1, <2>2 DEF QueueOK
<1> QED
  BY <1>2, <1>3, <1>4

(* Adding to a queue. *)
LEMMA AddOK ==
  ASSUME NEW e \in Endpoints, NEW q \in Queues(e), NEW c, NEW E, QueueOK(e, q, c, E), NEW f
  PROVE  /\ QueueOK(e, [q EXCEPT !.urg = Append(q.urg, f)], c, E)
         /\ Given(e, c, f.id) => QueueOK(e, [q EXCEPT !.syn = Append(q.syn, f)], c, E)
         /\ (IsHeaders(f) => /\ Given(e, c, f.id)
                             /\ ~Srv(e) => /\ f.id \notin E
                                           /\ \A i \in DOMAIN q.reg : IsHeaders(q.reg[i]) => q.reg[i].id # f.id)
              => QueueOK(e, [q EXCEPT !.reg = Append(q.reg, f)], c, E)
<1>1. /\ [q EXCEPT !.urg = Append(q.urg, f)].syn = q.syn /\ [q EXCEPT !.urg = Append(q.urg, f)].reg = q.reg
      /\ [q EXCEPT !.syn = Append(q.syn, f)].syn = Append(q.syn, f) /\ [q EXCEPT !.syn = Append(q.syn, f)].reg = q.reg
      /\ [q EXCEPT !.reg = Append(q.reg, f)].syn = q.syn /\ [q EXCEPT !.reg = Append(q.reg, f)].reg = Append(q.reg, f)
  BY DEF Queues
<1>2. QueueOK(e, [q EXCEPT !.urg = Append(q.urg, f)], c, E)
  BY <1>1 DEF QueueOK
<1>3. ASSUME Given(e, c, f.id) PROVE QueueOK(e, [q EXCEPT !.syn = Append(q.syn, f)], c, E)
  <2>1. \A i \in DOMAIN Append(q.syn, f) : (i \in DOMAIN q.syn /\ Append(q.syn, f)[i] = q.syn[i])
                                           \/ Append(q.syn, f)[i] = f
    BY QueuedIds, AppendElements
  <2> QED
    BY <1>1, <1>3, <2>1 DEF QueueOK
<1>4. ASSUME IsHeaders(f) => /\ Given(e, c, f.id)
                             /\ ~Srv(e) => /\ f.id \notin E
                                           /\ \A i \in DOMAIN q.reg : IsHeaders(q.reg[i]) => q.reg[i].id # f.id
      PROVE  QueueOK(e, [q EXCEPT !.reg = Append(q.reg, f)], c, E)
  <2>1. \A i \in DOMAIN Append(q.reg, f) : (i \in DOMAIN q.reg /\ Append(q.reg, f)[i] = q.reg[i])
                                           \/ Append(q.reg, f)[i] = f
    BY QueuedIds, AppendElements
  <2>2. ~Srv(e) => OnceEach(Append(q.reg, f), E)
    BY <1>4, QueuedIds, OnceAppend DEF QueueOK
  <2> QED
    BY <1>1, <1>4, <2>1, <2>2 DEF QueueOK
<1> QED
  BY <1>2, <1>3, <1>4

LEMMA AddRstOK ==
  ASSUME NEW e \in Endpoints, NEW q \in Queues(e), NEW c, NEW E, QueueOK(e, q, c, E),
         NEW t, NEW id, Given(e, c, id), NEW code
  PROVE  QueueOK(e, AddRst(t, q, id, code), c, E)
<1>1. Rst(id, code).id = id
  BY DEF Rst, F
<1> QED
  BY <1>1, AddOK DEF AddRst

LEMMA AddGoawayOK ==
  ASSUME NEW e \in Endpoints, NEW q \in Queues(e), NEW c, NEW E, QueueOK(e, q, c, E),
         NEW d, NEW last, NEW term
  PROVE  QueueOK(e, AddGoaway(q, d, last, term), c, E)
<1>1. \A n : ~IsHeaders(Goaway(n, term))
  BY DEF Goaway, F, IsHeaders
<1> QED
  BY <1>1, AddOK DEF AddGoaway

(* More streams have ended. *)
LEMMA EndOK ==
  ASSUME NEW e \in Endpoints, NEW q, NEW c, NEW E, QueueOK(e, q, c, E), NEW fin,
         \A id \in fin : Given(e, c, id), ~Srv(e) => OnceEach(q.reg, E \cup fin)
  PROVE  QueueOK(e, q, c, E \cup fin)
BY DEF QueueOK

-----------------------------------------------------------------------------
(* One step                                                                *)

Ended(e) == log[e].ended

LEMMA EndParts ==
  ASSUME Inv, EndInv, NEW e \in Endpoints
  PROVE  /\ table[e] \in Table /\ Good(table[e], Srv(e)) /\ Srv(e) \in BOOLEAN
         /\ queue[e] \in Queues(e) /\ conn[e] \in Conn /\ Later(conn[e], conn[e])
         /\ Ended(e) \in SUBSET StreamIds
         /\ TableOK(table[e], Ended(e)) /\ QueueOK(e, queue[e], conn[e], Ended(e))
         /\ ~Srv(e) => conn[e].lastSent < conn[e].nextId
<1>1. Good(table[e], Srv(e)) /\ queue[e] \in Queues(e) /\ conn[e] \in Conn /\ log[e] \in Log
  BY Here
<1>2. TableOK(table[e], Ended(e)) /\ QueueOK(e, queue[e], conn[e], Ended(e))
  BY DEF EndInv, Ended
<1> QED
  BY <1>1, <1>2, Ends, ConnOps DEF Good, Log, QueueOK, Ended

LEMMA EndStep ==
  ASSUME Inv, EndInv, NEW e \in Endpoints, NEW t, NEW q, NEW c, NEW E,
         table' = [table EXCEPT ![e] = t], queue' = [queue EXCEPT ![e] = q],
         conn' = [conn EXCEPT ![e] = c],
         Ended(e)' = E, \A x \in Endpoints : x # e => Ended(x)' = Ended(x),
         TableOK(t, E), QueueOK(e, q, c, E)
  PROVE  EndInv'
<1>1. /\ table \in [Endpoints -> Table] /\ conn \in [Endpoints -> Conn]
      /\ queue \in [Endpoints -> Queues("client") \cup Queues("server")]
  BY DEF Inv, TypeOK
<1>2. table'[e] = t /\ queue'[e] = q /\ conn'[e] = c
  BY <1>1
<1>3. \A x \in Endpoints : x # e => table'[x] = table[x] /\ queue'[x] = queue[x] /\ conn'[x] = conn[x]
  BY <1>1
<1>4. ASSUME NEW x \in Endpoints PROVE TableOK(table'[x], Ended(x)') /\ QueueOK(x, queue'[x], conn'[x], Ended(x)')
  <2>1. CASE x = e
    BY <1>2, <2>1
  <2>2. CASE x # e
    <3>1. Ended(x)' = Ended(x) /\ table'[x] = table[x] /\ queue'[x] = queue[x] /\ conn'[x] = conn[x]
      BY <1>3, <2>2
    <3> QED
      BY <3>1, EndParts
  <2> QED
    BY <2>1, <2>2
<1> QED
  BY <1>4 DEF EndInv, Ended

(* A step that ends no stream on the way. *)
LEMMA PlainEnd ==
  ASSUME Inv, EndInv, NEW e \in Endpoints, NEW t, NEW q, NEW c,
         table' = [table EXCEPT ![e] = t], queue' = [queue EXCEPT ![e] = q],
         conn' = [conn EXCEPT ![e] = c],
         \A x \in Endpoints : Ended(x)' = Ended(x),
         TableOK(t, Ended(e)), QueueOK(e, q, c, Ended(e))
  PROVE  EndInv'
BY EndStep

(* What the log says of ended streams. *)
LEMMA EndedOf ==
  ASSUME Inv, NEW e \in Endpoints, NEW code
  PROVE  /\ log' = log => \A x \in Endpoints : Ended(x)' = Ended(x)
         /\ log' = ClosedWith(e, code) => \A x \in Endpoints : Ended(x)' = Ended(x)
         /\ \A fin : log' = SentLast(e, code, fin) =>
              /\ Ended(e)' = Ended(e) \cup fin
              /\ \A x \in Endpoints : x # e => Ended(x)' = Ended(x)
<1>1. log \in [Endpoints -> Log]
  BY DEF Inv, TypeOK
<1>2. \A x \in Endpoints : ClosedWith(e, code)[x].ended = log[x].ended
  BY <1>1 DEF ClosedWith, Log
<1>3. DOMAIN ClosedWith(e, code) = Endpoints /\ "ended" \in DOMAIN ClosedWith(e, code)[e]
  BY <1>1 DEF ClosedWith, Log
<1>4. ASSUME NEW fin
      PROVE  /\ SentLast(e, code, fin)[e].ended = log[e].ended \cup fin
             /\ \A x \in Endpoints : x # e => SentLast(e, code, fin)[x].ended = log[x].ended
  <2> DEFINE L == ClosedWith(e, code)
  <2>1. SentLast(e, code, fin) = [L EXCEPT ![e] = [L[e] EXCEPT !.ended = L[e].ended \cup fin]]
    BY DEF SentLast
  <2> HIDE DEF L
  <2>2. /\ SentLast(e, code, fin)[e].ended = L[e].ended \cup fin
        /\ \A x \in Endpoints : x # e => SentLast(e, code, fin)[x] = L[x]
    BY <1>3, <2>1 DEF L
  <2> QED
    BY <1>2, <2>2 DEF L
<1> QED
  BY <1>2, <1>4 DEF Ended

(* The application notes something in its log. *)
LEMMA NotedOf ==
  ASSUME Inv, NEW e \in Endpoints, NEW r, log' = [log EXCEPT ![e] = r], r.ended = log[e].ended
  PROVE  \A x \in Endpoints : Ended(x)' = Ended(x)
<1>1. log \in [Endpoints -> Log]
  BY DEF Inv, TypeOK
<1>2. log'[e] = r /\ \A x \in Endpoints : x # e => log'[x] = log[x]
  BY <1>1
<1> QED
  BY <1>2 DEF Ended

(* Sent identifiers stay below the next one. *)
LEMMA SentLater ==
  ASSUME NEW c \in Conn, NEW d \in Conn, Later(d, c), d.lastSent = c.lastSent, c.lastSent < c.nextId
  PROVE  d.lastSent < d.nextId
<1>1. c.lastSent \in Int /\ c.nextId \in Int /\ d.nextId \in Int
  BY DEF Conn
<1>2. c.nextId <= d.nextId
  BY <1>1 DEF Later
<1> QED
  BY <1>1, <1>2

(* A step that opens nothing and ends nothing. *)
LEMMA KeepEnd ==
  ASSUME Inv, EndInv, NEW e \in Endpoints, NEW t, NEW q, NEW c,
         table' = [table EXCEPT ![e] = t], Steady(t, table[e]),
         queue' = [queue EXCEPT ![e] = q], q \in Queues(e), QueueOK(e, q, conn[e], Ended(e)),
         conn' = [conn EXCEPT ![e] = c], c \in Conn, Later(c, conn[e]),
         ~Srv(e) => c.lastSent = conn[e].lastSent,
         \A x \in Endpoints : Ended(x)' = Ended(x)
  PROVE  EndInv'
<1>1. /\ conn[e] \in Conn /\ Ended(e) \in SUBSET StreamIds /\ TableOK(table[e], Ended(e))
      /\ ~Srv(e) => conn[e].lastSent < conn[e].nextId
  BY EndParts
<1>2. TableOK(t, Ended(e))
  BY <1>1, SteadyOK
<1>3. ~Srv(e) => c.lastSent < c.nextId
  BY <1>1, SentLater
<1>4. QueueOK(e, q, c, Ended(e))
  BY <1>1, <1>3, QueueLater
<1> QED
  BY <1>2, <1>4, PlainEnd

(* What a step puts on the wire. *)
NoneAfterEnd == \A e \in Endpoints :
  Transmits(e) /\ Transmitted(e).id \in log[e].ended => Transmitted(e).type = "RST_STREAM"

LEMMA Silent ==
  ASSUME Inv, NEW e \in Endpoints, UNCHANGED wire \/ (\E type : Arrives(e, type))
  PROVE  NoneAfterEnd
<1>1. WiresOK
  BY InvParts
<1>2. \A x \in Endpoints : ~(Len(wire'[x]) > Len(wire[x]))
  <2>1. CASE UNCHANGED wire
    <3>1. \A x \in Endpoints : Len(wire[x]) \in Int
      <4> TAKE x \in Endpoints
      <4>1. wire[x] \in Seq(FramesTo(x))
        BY <1>1 DEF WiresOK
      <4> QED
        BY <4>1
    <3> QED
      BY <2>1, <3>1
  <2>2. CASE \E type : Arrives(e, type)
    <3>1. wire[e] # << >> /\ wire' = [wire EXCEPT ![e] = Tail(wire[e])]
      BY <2>2 DEF Arrives
    <3>2. wire'[e] = Tail(wire[e]) /\ \A x \in Endpoints : x # e => wire'[x] = wire[x]
      BY <1>1, <3>1 DEF WiresOK
    <3>3. ASSUME NEW x \in Endpoints PROVE ~(Len(wire'[x]) > Len(wire[x]))
      <4>1. wire[x] \in Seq(FramesTo(x))
        BY <1>1 DEF WiresOK
      <4>2. CASE x = e
        BY <3>1, <3>2, <4>1, <4>2
      <4>3. CASE x # e
        <5>1. Len(wire[x]) \in Int /\ wire'[x] = wire[x]
          BY <3>2, <4>1, <4>3
        <5> QED
          BY <5>1
      <4> QED
        BY <4>2, <4>3
    <3> QED
      BY <3>3
  <2> QED
    BY <2>1, <2>2
<1> QED
  BY <1>2, Ends DEF NoneAfterEnd, Transmits

LEMMA Sends ==
  ASSUME Inv, NEW e \in Endpoints, NEW f, Transmit(e, f), f.id \in Ended(e) => f.type = "RST_STREAM"
  PROVE  NoneAfterEnd
<1>1. WiresOK
  BY InvParts
<1> DEFINE p == Peer(e)
<1>2. p \in Endpoints /\ \A x \in Endpoints : x # e => Peer(x) # p /\ Peer(x) \in Endpoints
  BY Ends
<1>3. wire' = [wire EXCEPT ![p] = Append(wire[p], f)]
  BY DEF Transmit
<1> HIDE DEF p
<1>4. wire'[p] = Append(wire[p], f) /\ \A x \in Endpoints : x # p => wire'[x] = wire[x]
  BY <1>1, <1>2, <1>3 DEF WiresOK
<1>5. Last(wire'[p]) = f
  <2>1. wire[p] \in Seq(FramesTo(p))
    BY <1>1, <1>2 DEF WiresOK
  <2> QED
    BY <1>4, <2>1 DEF Last
<1>6. ASSUME NEW x \in Endpoints, x # e PROVE ~Transmits(x)
  <2>1. Peer(x) \in Endpoints /\ wire'[Peer(x)] = wire[Peer(x)]
    BY <1>2, <1>4, <1>6
  <2>2. wire[Peer(x)] \in Seq(FramesTo(Peer(x)))
    BY <1>1, <2>1 DEF WiresOK
  <2>3. Len(wire[Peer(x)]) \in Int
    BY <2>2
  <2> QED
    BY <2>1, <2>3 DEF Transmits
<1>7. Transmitted(e) = f
  BY <1>5 DEF Transmitted, p
<1> QED
  BY <1>6, <1>7 DEF NoneAfterEnd, Ended

-----------------------------------------------------------------------------
(* The application's calls                                                 *)

(* The next identifier was not given out. *)
LEMMA FreshNext ==
  ASSUME NEW e \in Endpoints, NEW c \in Conn, c.nextId \in StreamIds, IsMine(Srv(e), c.nextId)
  PROVE  ~Given(e, c, c.nextId)
<1>1. c.nextId \in Int /\ ~(c.nextId < c.nextId)
  BY DEF Conn
<1>2. e = "client" \/ e = "server"
  BY Ends
<1> QED
  BY <1>1, <1>2, Ends DEF Given, Announced

LEMMA SubmitRequestEnd == ASSUME Inv, EndInv, SubmitRequest PROVE EndInv' /\ NoneAfterEnd
<1> DEFINE e == "client"
           c == conn[e]
           f == Headers(c.nextId, TRUE)
           q == [queue[e] EXCEPT !.reg = Append(queue[e].reg, f)]
<1>0. e \in Endpoints /\ Srv(e) = FALSE
  BY Ends
<1>1. /\ c.nextId <= 2 * Requests - 1 /\ UNCHANGED <<table, wire, log>>
      /\ conn' = [conn EXCEPT ![e] = [c EXCEPT !.nextId = c.nextId + 2]]
      /\ queue' = [queue EXCEPT ![e] = q]
  BY DEF SubmitRequest, SetConn, LastId
<1>2. c.nextId \in StreamIds /\ IsMine(FALSE, c.nextId)
  <2>1. c.nextId \in Nat /\ c.nextId % 2 = 1
    BY <1>0, Here DEF Conn
  <2> HIDE DEF c, f, q
  <2> QED
    BY <1>1, <2>1, SessionAssumption, MaxStreamIdAssumption DEF StreamIds, IsMine
<1>3. ~Given(e, c, c.nextId) /\ f.id = c.nextId
  <2>1. f.id = c.nextId
    BY DEF Headers, F
  <2>2. c \in Conn
    BY <1>0, EndParts
  <2> HIDE DEF f, c, e
  <2> QED
    BY <1>0, <1>2, <2>1, <2>2, FreshNext
<1> HIDE DEF f
<1>4. PICK d \in Conn : d = [c EXCEPT !.nextId = c.nextId + 2] /\ Later(d, c)
  BY <1>0, ConnOps, Here
<1>5. d.lastSent = c.lastSent /\ (c.lastSent < c.nextId => d.lastSent < d.nextId) /\ c.nextId < d.nextId
  <2>1. c \in Conn /\ c.nextId \in Int
    BY <1>0, EndParts DEF Conn
  <2>2. d.lastSent = c.lastSent /\ d.nextId = c.nextId + 2
    BY <1>4, <2>1 DEF Conn
  <2>3. c.nextId < d.nextId
    BY <2>1, <2>2
  <2> QED
    BY <1>4, <2>1, <2>2, <2>3, SentLater
<1> DEFINE E == Ended(e)
<1>6. QueueOK(e, queue[e], c, E) /\ c.lastSent < c.nextId /\ E \in SUBSET StreamIds /\ c \in Conn /\ queue[e] \in Queues(e)
  BY <1>0, EndParts
<1>7. QueueOK(e, queue[e], d, E)
  BY <1>0, <1>4, <1>5, <1>6, QueueLater
<1>8. /\ Given(e, d, f.id) /\ f.id \notin E
      /\ \A i \in DOMAIN queue[e].reg : IsHeaders(queue[e].reg[i]) => queue[e].reg[i].id # f.id
  <2>1. Given(e, d, f.id)
    BY <1>0, <1>3, <1>5 DEF Given
  <2> QED
    BY <1>3, <1>6, <2>1 DEF QueueOK
<1>9. QueueOK(e, q, d, E)
  BY <1>0, <1>6, <1>7, <1>8, AddOK
<1>10. \A x \in Endpoints : Ended(x)' = Ended(x)
  BY <1>1 DEF Ended
<1>11. NoneAfterEnd
  BY <1>0, <1>1, Silent
<1>12. TableOK(table[e], E) /\ table' = [table EXCEPT ![e] = table[e]]
  BY <1>0, <1>1, EndParts, Here
<1>13. conn' = [conn EXCEPT ![e] = d]
  BY <1>1, <1>4
<1> HIDE DEF e, c, q
<1> QED
  BY <1>0, <1>1, <1>9, <1>10, <1>11, <1>12, <1>13, PlainEnd

LEMMA SubmitPushEnd ==
  ASSUME Inv, EndInv, NEW parent \in StreamIds, SubmitPush(parent) PROVE EndInv' /\ NoneAfterEnd
<1> DEFINE e == "server"
           c == conn[e]
           f == PushPromise(parent, c.nextId)
           u == OpenStream(table[e], TRUE, c.nextId, "RESERVED")
           q == [queue[e] EXCEPT !.reg = Append(queue[e].reg, f)]
           E == Ended(e)
<1>0. e \in Endpoints /\ Srv(e) = TRUE
  BY Ends
<1>1. /\ c.nextId <= 2 * Pushes /\ UNCHANGED <<wire, log>>
      /\ conn' = [conn EXCEPT ![e] = [c EXCEPT !.nextId = c.nextId + 2]]
      /\ table' = [table EXCEPT ![e] = u]
      /\ queue' = [queue EXCEPT ![e] = q]
  BY DEF SubmitPush, SetConn, SetTable, LastId
<1>2. c.nextId \in StreamIds /\ IsMine(TRUE, c.nextId)
  <2>1. c.nextId \in Nat /\ c.nextId % 2 = 0 /\ c.nextId > 0
    BY <1>0, Here DEF Conn
  <2> QED
    BY <1>0, <1>1, <2>1, SessionAssumption, MaxStreamIdAssumption DEF StreamIds, IsMine
<1>3. /\ QueueOK(e, queue[e], c, E) /\ E \in SUBSET StreamIds /\ c \in Conn /\ queue[e] \in Queues(e)
      /\ table[e] \in Table /\ TableOK(table[e], E)
  BY <1>0, EndParts
<1>4. c.nextId \notin E
  <2>1. ~Given(e, c, c.nextId)
    <3> HIDE DEF c, e
    <3> QED
      BY <1>0, <1>2, <1>3, FreshNext
  <2> QED
    BY <1>3, <2>1 DEF QueueOK
<1>5. TableOK(u, E)
  <2> HIDE DEF e, c, E
  <2> QED
    BY <1>2, <1>3, <1>4, OpenOK
<1>6. PICK d \in Conn : d = [c EXCEPT !.nextId = c.nextId + 2] /\ Later(d, c)
  BY <1>0, ConnOps, Here
<1>7. QueueOK(e, queue[e], d, E)
  BY <1>0, <1>3, <1>6, QueueLater
<1>8. QueueOK(e, q, d, E)
  <2>1. ~IsHeaders(f)
    BY DEF PushPromise, F, IsHeaders
  <2> HIDE DEF f
  <2> QED
    BY <1>0, <1>3, <1>7, <2>1, AddOK
<1>9. NoneAfterEnd /\ \A x \in Endpoints : Ended(x)' = Ended(x)
  BY <1>0, <1>1, Silent DEF Ended
<1>10. conn' = [conn EXCEPT ![e] = d]
  BY <1>1, <1>6
<1>11. table' = [table EXCEPT ![e] = u] /\ queue' = [queue EXCEPT ![e] = q]
  BY <1>1
<1> HIDE DEF e, c, q, u, f
<1> QED
  BY <1>0, <1>5, <1>8, <1>9, <1>10, <1>11, PlainEnd

(* A live stream was given out. *)
LEMMA LiveGiven ==
  ASSUME Inv, EndInv, NEW e \in Endpoints, NEW id \in StreamIds, Live(table[e], id)
  PROVE  Given(e, conn[e], id)
<1>1. Announced(e, conn[e], id)
  BY Here DEF Known, Live
<1> QED
  BY <1>1, EndParts, AnnouncedGiven

LEMMA SubmitResponseEnd ==
  ASSUME Inv, EndInv, NEW id \in StreamIds, NEW end \in BOOLEAN, SubmitResponse(id, end)
  PROVE  EndInv' /\ NoneAfterEnd
<1> DEFINE e == "server"
           f == Headers(id, end)
           r == [log[e] EXCEPT !.responded = log[e].responded \cup {id}]
           q == [queue[e] EXCEPT !.reg = Append(queue[e].reg, f)]
<1>0. e \in Endpoints /\ Srv(e) = TRUE
  BY Ends
<1>1. /\ UNCHANGED <<table, conn, wire>> /\ Live(table[e], id)
      /\ queue' = [queue EXCEPT ![e] = q]
      /\ log' = [log EXCEPT ![e] = r]
  BY DEF SubmitResponse
<1>2. r.ended = log[e].ended
  BY <1>0, Here DEF Log
<1>3. \A x \in Endpoints : Ended(x)' = Ended(x)
  BY <1>0, <1>1, <1>2, NotedOf
<1>4. Given(e, conn[e], f.id) /\ f \in RegFrames(e)
  <2>1. f.id = id /\ Given(e, conn[e], id)
    BY <1>0, <1>1, LiveGiven DEF Headers, F
  <2> QED
    BY <2>1, FrameKinds
<1> HIDE DEF f
<1>5. QueueOK(e, q, conn[e], Ended(e)) /\ q \in Queues(e)
  BY <1>0, <1>4, EndParts, AddOK, QueueOps
<1>6. conn[e] \in Conn /\ Later(conn[e], conn[e]) /\ Steady(table[e], table[e]) /\ NoneAfterEnd
  BY <1>0, <1>1, EndParts, SteadySame, Silent
<1> HIDE DEF e, q
<1> QED
  BY <1>0, <1>1, <1>3, <1>5, <1>6, Here, KeepEnd

LEMMA SubmitRstEnd ==
  ASSUME Inv, EndInv, NEW e \in Endpoints, NEW id \in StreamIds, SubmitRst(e, id)
  PROVE  EndInv' /\ NoneAfterEnd
<1>1. NoneAfterEnd /\ \A x \in Endpoints : Ended(x)' = Ended(x)
  <2> DEFINE r == [log[e] EXCEPT !.resets = log[e].resets + 1]
  <2>1. log' = [log EXCEPT ![e] = r] /\ UNCHANGED wire
    BY DEF SubmitRst
  <2>2. r.ended = log[e].ended
    BY Here DEF Log
  <2> HIDE DEF r
  <2> QED
    BY <2>1, <2>2, Silent, NotedOf
<1>2. Given(e, conn[e], id)
  <2>1. Live(table[e], id) \/ (e = "client" /\ id < conn[e].nextId)
    BY DEF SubmitRst
  <2> QED
    BY <2>1, LiveGiven, Ends DEF Given
<1>3. /\ conn[e] \in Conn /\ Later(conn[e], conn[e]) /\ queue[e] \in Queues(e) /\ table[e] \in Table
      /\ QueueOK(e, queue[e], conn[e], Ended(e)) /\ Steady(table[e], table[e])
  BY EndParts, SteadySame
<1>4. CASE conn' = [conn EXCEPT ![e] = [conn[e] EXCEPT !.abort = "ob_syn holds HEADERS"]] /\ UNCHANGED <<table, queue>>
  <2> DEFINE d == [conn[e] EXCEPT !.abort = "ob_syn holds HEADERS"]
  <2>1. d \in Conn /\ Later(d, conn[e]) /\ d.lastSent = conn[e].lastSent
    <3>1. d \in Conn /\ Later(d, conn[e])
      BY <1>3, ConnOps DEF Asserts
    <3>2. d.lastSent = conn[e].lastSent
      BY <1>3 DEF Conn
    <3> QED
      BY <3>1, <3>2
  <2> HIDE DEF d
  <2>2. conn' = [conn EXCEPT ![e] = d]
    BY <1>4 DEF d
  <2> QED
    BY <1>1, <1>3, <1>4, <2>1, <2>2, Here, KeepEnd
<1>5. CASE /\ table' = [table EXCEPT ![e] = MarkClosing(table[e], id)]
           /\ queue' = [queue EXCEPT ![e] = AddRst(table[e], queue[e], id, "CANCEL")]
           /\ UNCHANGED conn
  <2>1. Steady(MarkClosing(table[e], id), table[e])
    BY <1>3, MovesSteady
  <2>2. AddRst(table[e], queue[e], id, "CANCEL") \in Queues(e)
    BY <1>3, AddOps DEF Codes
  <2>3. QueueOK(e, AddRst(table[e], queue[e], id, "CANCEL"), conn[e], Ended(e))
    BY <1>2, <1>3, AddRstOK
  <2> QED
    BY <1>1, <1>3, <1>5, <2>1, <2>2, <2>3, Here, KeepEnd
<1> QED
  BY <1>4, <1>5 DEF SubmitRst, SetConn, SetTable

(* session_terminate_session *)
LEMMA TerminateEnd ==
  ASSUME Inv, EndInv, NEW e \in Endpoints, NEW c \in Conn, Later(c, conn[e]), c.lastSent = conn[e].lastSent,
         NEW why \in ConnErrors, Terminate(e, c, why), UNCHANGED table,
         \A x \in Endpoints : Ended(x)' = Ended(x)
  PROVE  EndInv'
<1>1. queue[e] \in Queues(e) /\ QueueOK(e, queue[e], conn[e], Ended(e)) /\ Steady(table[e], table[e])
  BY EndParts, SteadySame
<1>2. CASE conn' = [conn EXCEPT ![e] = c] /\ UNCHANGED queue
  BY <1>1, <1>2, Here, KeepEnd
<1>3. CASE /\ conn' = [conn EXCEPT ![e] = [c EXCEPT !.goaway = c.goaway \cup {"TERM_ON_SEND"}, !.err = why]]
           /\ queue' = [queue EXCEPT ![e] = AddGoaway(queue[e], c, c.lastProc, TRUE)]
  <2>1. c.goaway \cup {"TERM_ON_SEND"} \in SUBSET GoawayFlags /\ c.lastProc \in 0 .. MaxStreamId
    BY DEF Conn, GoawayFlags
  <2>2. PICK d \in Conn : d = [c EXCEPT !.goaway = c.goaway \cup {"TERM_ON_SEND"}, !.err = why] /\ Later(d, c)
    BY <2>1, ConnOps
  <2>3. Later(d, conn[e]) /\ d.lastSent = conn[e].lastSent
    <3>1. d.lastRecv = c.lastRecv /\ d.lastSent = c.lastSent /\ d.nextId = c.nextId
      BY <2>2 DEF Conn
    <3> QED
      BY <3>1 DEF Later
  <2>4. AddGoaway(queue[e], c, c.lastProc, TRUE) \in Queues(e)
    BY <1>1, <2>1, AddOps
  <2>5. QueueOK(e, AddGoaway(queue[e], c, c.lastProc, TRUE), conn[e], Ended(e))
    BY <1>1, AddGoawayOK
  <2>6. conn' = [conn EXCEPT ![e] = d]
    BY <1>3, <2>2
  <2> QED
    BY <1>1, <1>3, <2>3, <2>4, <2>5, <2>6, Here, KeepEnd
<1> QED
  BY <1>2, <1>3 DEF Terminate, SetConn

LEMMA SubmitTerminateEnd ==
  ASSUME Inv, EndInv, NEW e \in Endpoints, SubmitTerminate(e) PROVE EndInv' /\ NoneAfterEnd
<1> DEFINE r == [log[e] EXCEPT !.closing = TRUE]
<1>1. /\ UNCHANGED <<table, wire>> /\ Terminate(e, conn[e], conn[e].err)
      /\ log' = [log EXCEPT ![e] = r]
  BY DEF SubmitTerminate
<1>2. r.ended = log[e].ended /\ conn[e] \in Conn /\ Later(conn[e], conn[e]) /\ conn[e].err \in ConnErrors
  <2>1. conn[e] \in Conn /\ Later(conn[e], conn[e])
    BY EndParts
  <2>2. r.ended = log[e].ended
    BY Here DEF Log
  <2> QED
    BY <2>1, <2>2 DEF Conn
<1> HIDE DEF r
<1>3. NoneAfterEnd /\ \A x \in Endpoints : Ended(x)' = Ended(x)
  BY <1>1, <1>2, Silent, NotedOf
<1> QED
  BY <1>1, <1>2, <1>3, TerminateEnd

LEMMA SubmitGoawayEnd ==
  ASSUME Inv, EndInv, NEW e \in Endpoints, SubmitGoaway(e) PROVE EndInv' /\ NoneAfterEnd
<1> DEFINE r == [log[e] EXCEPT !.closing = TRUE]
           q == AddGoaway(queue[e], conn[e], conn[e].lastProc, FALSE)
<1>1. /\ UNCHANGED <<table, conn, wire>> /\ queue' = [queue EXCEPT ![e] = q]
      /\ log' = [log EXCEPT ![e] = r]
  BY DEF SubmitGoaway
<1>2. r.ended = log[e].ended /\ conn[e] \in Conn /\ Later(conn[e], conn[e]) /\ conn[e].lastProc \in 0 .. MaxStreamId
  <2>1. conn[e] \in Conn /\ Later(conn[e], conn[e])
    BY EndParts
  <2>2. r.ended = log[e].ended
    BY Here DEF Log
  <2> QED
    BY <2>1, <2>2 DEF Conn
<1> HIDE DEF r
<1>3. NoneAfterEnd /\ \A x \in Endpoints : Ended(x)' = Ended(x)
  BY <1>1, <1>2, Silent, NotedOf
<1>4. q \in Queues(e) /\ QueueOK(e, q, conn[e], Ended(e)) /\ Steady(table[e], table[e])
  BY <1>2, EndParts, AddOps, AddGoawayOK, SteadySame
<1> HIDE DEF q
<1> QED
  BY <1>1, <1>2, <1>3, <1>4, Here, KeepEnd

-----------------------------------------------------------------------------
(* Sending                                                                 *)

(* The write side of an ended stream is shut, or the stream is gone. *)
LEMMA ShutOK ==
  ASSUME NEW t \in Table, NEW id \in StreamIds, NEW E \in SUBSET StreamIds, TableOK(t, E)
  PROVE  TableOK(ShutWr(t, id), E \cup {id})
<1>1. Steady(ShutWr(t, id), t) /\ id \in ShutWr(t, id).wr
  BY FlagsSteady
<1>2. TableOK(ShutWr(t, id), E)
  BY <1>1, SteadyOK
<1> QED
  BY <1>1, <1>2 DEF TableOK

LEMMA GoneOK ==
  ASSUME NEW t \in Table, NEW srv, NEW id \in StreamIds, NEW E \in SUBSET StreamIds, TableOK(t, E)
  PROVE  TableOK(CloseStream(t, srv, id), E \cup {id})
<1>1. Steady(CloseStream(t, srv, id), t) /\ ~Live(CloseStream(t, srv, id), id)
  BY CloseOneSteady
<1>2. TableOK(CloseStream(t, srv, id), E)
  BY <1>1, SteadyOK
<1> QED
  BY <1>1, <1>2 DEF TableOK

(* A stream that can be written to did not end. *)
LEMMA OpenNotEnded ==
  ASSUME NEW t, NEW E, TableOK(t, E), NEW id, Live(t, id), id \notin t.wr
  PROVE  id \notin E
BY DEF TableOK

LEMMA SendSettingsEnd ==
  ASSUME Inv, EndInv, NEW e \in Endpoints, SendSettings(e) PROVE EndInv' /\ NoneAfterEnd
<1> DEFINE f == Head(queue[e].urg)
           q == AfterUrg(e)
<1>1. /\ UrgReady(e) /\ queue' = [queue EXCEPT ![e] = q] /\ UNCHANGED <<table, conn, log>>
      /\ UNCHANGED wire \/ Transmit(e, f)
  BY DEF SendSettings, SetQueue
<1>2. q \in Queues(e) /\ f \in UrgFrames
  BY <1>1, TakeOps, QueueOps, Here DEF UrgReady
<1>3. QueueOK(e, q, conn[e], Ended(e))
  BY EndParts, TakeOK DEF AfterUrg
<1>4. f.id = 0 /\ 0 \notin StreamIds
  BY <1>2 DEF UrgFrames, StreamIds
<1> HIDE DEF f, q
<1>5. NoneAfterEnd
  BY <1>1, <1>4, EndParts, Silent, Sends
<1>6. /\ \A x \in Endpoints : Ended(x)' = Ended(x)
      /\ conn[e] \in Conn /\ Later(conn[e], conn[e]) /\ Steady(table[e], table[e])
  BY <1>1, EndParts, SteadySame DEF Ended
<1> QED
  BY <1>1, <1>2, <1>3, <1>5, <1>6, Here, KeepEnd

LEMMA SendRequestEnd == ASSUME Inv, EndInv, SendRequest PROVE EndInv' /\ NoneAfterEnd
<1> DEFINE e == "client"
           f == NextReg(e)
           c == conn[e]
           q == AfterReg(e)
           E == Ended(e)
           o == OpenStream(table[e], FALSE, f.id, "OPENING")
           u == ShutWr(o, f.id)
<1>0. e \in Endpoints /\ Srv(e) = FALSE
  BY Ends
<1>1. /\ RegReady(e) /\ IsHeaders(f) /\ queue' = [queue EXCEPT ![e] = q]
      /\ q \in Queues(e) /\ f.id \in StreamIds /\ IsMine(FALSE, f.id)
  <2>1. RegReady(e) /\ f.type = "HEADERS" /\ queue' = [queue EXCEPT ![e] = q]
    BY DEF SendRequest, SetQueue
  <2>2. f \in RegFrames(e) /\ q \in Queues(e)
    BY <1>0, <2>1, TakeOps
  <2> HIDE DEF e, f, q
  <2>3. f.id \in StreamIds /\ IsMine(FALSE, f.id)
    BY <1>0, <2>1, <2>2, FrameFacts DEF e
  <2> QED
    BY <2>1, <2>2, <2>3 DEF IsHeaders
<1>2. /\ QueueOK(e, queue[e], c, E) /\ c.lastSent < c.nextId /\ E \in SUBSET StreamIds /\ c \in Conn
      /\ Later(c, c) /\ queue[e] \in Queues(e) /\ TableOK(table[e], E) /\ table[e] \in Table
      /\ Good(table[e], FALSE) /\ Steady(table[e], table[e])
  BY <1>0, EndParts, SteadySame
<1>3. /\ QueueOK(e, q, c, E) /\ Given(e, c, f.id) /\ f.id \notin E /\ OnceEach(q.reg, E \cup {f.id})
  <2>1. queue[e].reg # << >> /\ f = Head(queue[e].reg) /\ q = [queue[e] EXCEPT !.reg = Tail(queue[e].reg)]
    BY <1>1 DEF RegReady, NextReg, AfterReg
  <2> HIDE DEF e, f, q, c, E
  <2>2. q.reg = Tail(queue[e].reg)
    BY <1>2, <2>1 DEF Queues
  <2>3. QueueOK(e, q, c, E) /\ Given(e, c, f.id)
    BY <1>0, <1>1, <1>2, <2>1, TakeOK
  <2>4. OnceEach(queue[e].reg, E) /\ queue[e].reg \in Seq(RegFrames(e))
    BY <1>0, <1>2, QueuedIds DEF QueueOK
  <2> QED
    BY <1>1, <2>1, <2>2, <2>3, <2>4, OnceTail
<1>4. CASE /\ log' = [log EXCEPT ![e] = [log[e] EXCEPT !.why = [log[e].why EXCEPT ![f.id] = "REFUSED_STREAM"]]]
           /\ UNCHANGED <<table, conn, wire>>
  <2>1. [log[e] EXCEPT !.why = [log[e].why EXCEPT ![f.id] = "REFUSED_STREAM"]].ended = log[e].ended
    BY <1>0, Here DEF Log
  <2>2. NoneAfterEnd /\ \A x \in Endpoints : Ended(x)' = Ended(x)
    BY <1>0, <1>4, <2>1, Silent, NotedOf
  <2> HIDE DEF e, f, q
  <2> QED
    BY <1>0, <1>1, <1>2, <1>3, <1>4, <2>2, Here, KeepEnd
<1>5. CASE /\ conn' = [conn EXCEPT ![e] = [c EXCEPT !.abort = "stream ids increase"]]
           /\ UNCHANGED <<table, wire, log>>
  <2> DEFINE d == [c EXCEPT !.abort = "stream ids increase"]
  <2>1. d \in Conn /\ Later(d, c)
    BY <1>2, ConnOps DEF Asserts
  <2>2. d.lastSent = c.lastSent /\ conn' = [conn EXCEPT ![e] = d]
    BY <1>2, <1>5 DEF Conn
  <2>3. NoneAfterEnd /\ \A x \in Endpoints : Ended(x)' = Ended(x)
    BY <1>0, <1>5, Silent DEF Ended
  <2> HIDE DEF e, f, q, d
  <2> QED
    BY <1>0, <1>1, <1>2, <1>3, <1>5, <2>1, <2>2, <2>3, Here, KeepEnd
<1>6. CASE /\ ~(c.lastSent >= f.id)
           /\ table' = [table EXCEPT ![e] = u]
           /\ conn' = [conn EXCEPT ![e] = [c EXCEPT !.lastSent = f.id]]
           /\ Transmit(e, f)
           /\ log' = SentLast(e, "NO_ERROR", {f.id})
  <2>1. c.lastSent < f.id /\ ~(f.id <= c.lastSent) /\ f.id < c.nextId
    <3>1. c.lastSent \in Int /\ f.id \in Int
      BY <1>1, <1>2 DEF Conn, StreamIds
    <3>2. f.id < c.nextId
      BY <1>0, <1>1, <1>3 DEF Given
    <3> QED
      BY <1>6, <3>1, <3>2
  <2> DEFINE d == [c EXCEPT !.lastSent = f.id]
  <2>2. d \in Conn /\ Later(d, c)
    BY <1>1, <1>2, <2>1, ConnOps
  <2>3. conn' = [conn EXCEPT ![e] = d] /\ d.lastSent < d.nextId
    <3>1. d.lastSent = f.id /\ d.nextId = c.nextId
      BY <1>2 DEF Conn
    <3> HIDE DEF d
    <3> QED
      BY <1>6, <2>1, <3>1 DEF d
  <2>4. TableOK(u, E \cup {f.id})
    <3>1. o \in Table
      <4>1. ~Announced(e, c, f.id)
        BY <1>0, <1>1, <2>1 DEF Announced
      <4> HIDE DEF e, f
      <4> QED
        BY <1>0, <1>1, <4>1, OpenFresh DEF Good
    <3>2. TableOK(o, E)
      <4> HIDE DEF e, f, c, E
      <4> QED
        BY <1>1, <1>2, <1>3, OpenOK
    <3> HIDE DEF o
    <3> QED
      BY <1>1, <1>2, <3>1, <3>2, ShutOK
  <2> HIDE DEF d
  <2>5. QueueOK(e, q, d, E \cup {f.id})
    <3>1. QueueOK(e, q, c, E \cup {f.id})
      BY <1>0, <1>3, EndOK
    <3>2. E \cup {f.id} \in SUBSET StreamIds
      BY <1>1, <1>2
    <3> HIDE DEF e, f, c, E, q
    <3> QED
      BY <1>0, <1>1, <1>2, <2>2, <2>3, <3>1, <3>2, QueueLater DEF e
  <2>6. NoneAfterEnd
    BY <1>0, <1>3, <1>6, Sends
  <2>7. Ended(e)' = E \cup {f.id} /\ \A x \in Endpoints : x # e => Ended(x)' = Ended(x)
    BY <1>0, <1>6, EndedOf
  <2>8. table' = [table EXCEPT ![e] = u]
    BY <1>6
  <2> HIDE DEF e, f, c, E, q, o, u
  <2> QED
    BY <1>0, <1>1, <2>3, <2>4, <2>5, <2>6, <2>7, <2>8, EndStep
<1> QED
  BY <1>4, <1>5, <1>6 DEF SendRequest, SetConn, SetTable

LEMMA SendResponseEnd == ASSUME Inv, EndInv, SendResponse PROVE EndInv' /\ NoneAfterEnd
<1> DEFINE e == "server"
           f == NextReg(e)
           t == table[e]
           c == conn[e]
           q == AfterReg(e)
           E == Ended(e)
<1>0. e \in Endpoints /\ Srv(e) = TRUE
  BY Ends
<1>1. /\ RegReady(e) /\ IsHeaders(f) /\ UNCHANGED conn
      /\ q \in Queues(e) /\ f.id \in StreamIds /\ f.end \in BOOLEAN
  <2>1. RegReady(e) /\ f.type = "HEADERS" /\ UNCHANGED conn
    BY DEF SendResponse
  <2>2. f \in RegFrames(e) /\ q \in Queues(e)
    BY <1>0, <2>1, TakeOps
  <2> HIDE DEF e, f, q
  <2>3. f.id \in StreamIds /\ f.end \in BOOLEAN
    BY <1>0, <2>1, <2>2, FrameFacts
  <2> QED
    BY <2>1, <2>2, <2>3 DEF IsHeaders
<1>2. /\ QueueOK(e, queue[e], c, E) /\ E \in SUBSET StreamIds /\ c \in Conn /\ Later(c, c)
      /\ queue[e] \in Queues(e) /\ TableOK(t, E) /\ t \in Table /\ Good(t, TRUE)
  BY <1>0, EndParts
<1>3. QueueOK(e, q, c, E) /\ Given(e, c, f.id)
  <2>1. queue[e].reg # << >> /\ f = Head(queue[e].reg) /\ q = [queue[e] EXCEPT !.reg = Tail(queue[e].reg)]
    BY <1>1 DEF RegReady, NextReg, AfterReg
  <2> HIDE DEF e, f, q, c, E
  <2> QED
    BY <1>0, <1>1, <1>2, <2>1, TakeOK
<1>4. CASE /\ MayRespond(t, q, c, f.id)
           /\ table' = [table EXCEPT ![e] = ResponseSent(t, f.id, f.end)]
           /\ queue' = [queue EXCEPT ![e] = q]
           /\ Transmit(e, f)
           /\ log' = SentLast(e, "NO_ERROR", IF f.end THEN {f.id} ELSE {})
  <2> DEFINE o == IF t.st[f.id] = "RESERVED" THEN PushResponseSent(t, f.id) ELSE SetState(t, f.id, "OPENED")
             u == ResponseSent(t, f.id, f.end)
             fin == IF f.end THEN {f.id} ELSE {}
  <2>1. Live(t, f.id) /\ f.id \notin E
    <3>1. Live(t, f.id) /\ f.id \notin t.wr
      BY <1>4 DEF MayRespond, Live
    <3> HIDE DEF t, f, E
    <3> QED
      BY <1>2, <3>1, OpenNotEnded
  <2>2. o \in Table /\ Steady(o, t) /\ Live(o, f.id)
    <3>1. CASE t.st[f.id] = "RESERVED"
      <4>1. o = PushResponseSent(t, f.id) /\ Good(o, TRUE) /\ Steady(o, t)
        BY <1>1, <1>2, <3>1, PushResponseSentGood, MovesSteady
      <4>2. o.st[f.id] = "OPENED"
        <5>1. o.st = [t.st EXCEPT ![f.id] = "OPENED"]
          BY <1>2, <4>1 DEF PushResponseSent, Table
        <5>2. t.st \in [StreamIds -> StreamStates]
          BY <1>2 DEF Table
        <5> HIDE DEF o, t, f
        <5> QED
          BY <1>1, <5>1, <5>2
      <4> QED
        BY <4>1, <4>2 DEF Good, Live
    <3>2. CASE t.st[f.id] # "RESERVED"
      <4>1. t.st[f.id] = "OPENING"
        BY <1>4, <3>2 DEF MayRespond
      <4>2. f.id \notin t.push
        BY <1>2, <4>1 DEF Good, TableShape
      <4>3. o = SetState(t, f.id, "OPENED") /\ Good(o, TRUE) /\ Steady(o, t)
        BY <1>1, <1>2, <2>1, <3>2, <4>2, SetStateGood, MovesSteady
      <4>4. o.st[f.id] = "OPENED"
        BY <1>1, <1>2, <4>3 DEF SetState, Table
      <4> QED
        BY <4>3, <4>4 DEF Good, Live
    <3> QED
      BY <3>1, <3>2
  <2>3. u = IF f.end THEN CloseIfShut(ShutWr(o, f.id), TRUE, f.id) ELSE Attach(o, f.id)
    BY DEF ResponseSent
  <2> HIDE DEF o, u
  <2>4. TableOK(u, E \cup fin)
    <3> HIDE DEF t, f, E
    <3>1. TableOK(o, E)
      BY <1>2, <2>2, SteadyOK
    <3>2. CASE f.end
      <4>1. TableOK(ShutWr(o, f.id), E \cup {f.id})
        BY <1>1, <1>2, <2>2, <3>1, ShutOK
      <4>2. ShutWr(o, f.id) \in Table
        BY <1>1, <2>2 DEF ShutWr, Table
      <4>3. Steady(CloseIfShut(ShutWr(o, f.id), TRUE, f.id), ShutWr(o, f.id))
        BY <1>1, <4>2, CloseOneSteady
      <4>4. E \cup {f.id} \in SUBSET StreamIds /\ fin = {f.id} /\ u = CloseIfShut(ShutWr(o, f.id), TRUE, f.id)
        BY <1>1, <1>2, <2>3, <3>2
      <4> HIDE DEF fin
      <4> QED
        BY <4>1, <4>3, <4>4, SteadyOK
    <3>3. CASE ~f.end
      <4>1. E \cup fin = E /\ u = Attach(o, f.id)
        BY <2>3, <3>3
      <4>2. Steady(u, o)
        BY <1>1, <2>2, <4>1, FlagsSteady
      <4> QED
        BY <1>2, <3>1, <4>1, <4>2, SteadyOK
    <3> QED
      BY <1>1, <3>2, <3>3
  <2>5. QueueOK(e, q, c, E \cup fin)
    <3> HIDE DEF e, f, q, c, E
    <3> QED
      BY <1>0, <1>3, EndOK
  <2>6. NoneAfterEnd
    <3> HIDE DEF f, e
    <3> QED
      BY <1>0, <1>4, <2>1, Sends
  <2>7. Ended(e)' = E \cup fin /\ \A x \in Endpoints : x # e => Ended(x)' = Ended(x)
    <3>1. log' = SentLast(e, "NO_ERROR", fin)
      BY <1>4
    <3> HIDE DEF fin, e
    <3> QED
      BY <1>0, <3>1, EndedOf
  <2>8. table' = [table EXCEPT ![e] = u] /\ queue' = [queue EXCEPT ![e] = q]
    BY <1>4 DEF u
  <2>9. conn' = [conn EXCEPT ![e] = c]
    BY <1>0, <1>1, Here
  <2> HIDE DEF e, f, c, E, q, fin
  <2> QED
    BY <1>0, <1>1, <2>4, <2>5, <2>6, <2>7, <2>8, <2>9, EndStep
<1>5. CASE /\ table' = [table EXCEPT ![e] = MarkClosing(t, f.id)]
           /\ queue' = [queue EXCEPT ![e] = AddRst(t, q, f.id, "INTERNAL_ERROR")]
           /\ UNCHANGED <<wire, log>>
  <2> DEFINE p == AddRst(t, q, f.id, "INTERNAL_ERROR")
  <2>1. Steady(MarkClosing(t, f.id), t)
    BY <1>1, <1>2, MovesSteady
  <2>2. p \in Queues(e) /\ QueueOK(e, p, c, E)
    BY <1>0, <1>1, <1>3, AddOps, AddRstOK DEF Codes
  <2>3. NoneAfterEnd /\ \A x \in Endpoints : Ended(x)' = Ended(x)
    BY <1>0, <1>5, Silent DEF Ended
  <2>4. conn' = [conn EXCEPT ![e] = c]
    BY <1>0, <1>1, Here
  <2> HIDE DEF e, f, q
  <2> QED
    BY <1>0, <1>1, <1>2, <1>5, <2>1, <2>2, <2>3, <2>4, KeepEnd
<1> QED
  BY <1>4, <1>5 DEF SendResponse, SetTable, SetQueue

LEMMA SendPromiseEnd == ASSUME Inv, EndInv, SendPromise PROVE EndInv' /\ NoneAfterEnd
<1> DEFINE e == "server"
           f == NextReg(e)
           t == table[e]
           c == conn[e]
           q == AfterReg(e)
           E == Ended(e)
<1>0. e \in Endpoints /\ Srv(e) = TRUE
  BY Ends
<1>1. /\ RegReady(e) /\ queue' = [queue EXCEPT ![e] = q]
      /\ q \in Queues(e) /\ f.id \in StreamIds /\ f.arg \in StreamIds
  <2>1. RegReady(e) /\ f.type = "PUSH_PROMISE" /\ queue' = [queue EXCEPT ![e] = q]
    BY DEF SendPromise, SetQueue
  <2>2. f \in RegFrames(e) /\ q \in Queues(e)
    BY <1>0, <2>1, TakeOps
  <2> HIDE DEF e, f, q
  <2>3. f.id \in StreamIds /\ f.arg \in StreamIds
    BY <1>0, <2>1, <2>2, FrameFacts
  <2> QED
    BY <2>1, <2>2, <2>3
<1>2. /\ QueueOK(e, queue[e], c, E) /\ c \in Conn /\ Later(c, c) /\ Steady(t, t)
      /\ queue[e] \in Queues(e) /\ TableOK(t, E) /\ t \in Table
  BY <1>0, EndParts, SteadySame
<1>3. QueueOK(e, q, c, E)
  <2>1. queue[e].reg # << >> /\ q = [queue[e] EXCEPT !.reg = Tail(queue[e].reg)]
    BY <1>1 DEF RegReady, AfterReg
  <2> HIDE DEF e, q, c, E
  <2> QED
    BY <1>0, <1>2, <2>1, TakeOK
<1>4. CASE /\ table' = [table EXCEPT ![e] = CloseStream(t, TRUE, f.arg)]
           /\ log' = ClosedWith(e, "INTERNAL_ERROR")
           /\ UNCHANGED <<conn, wire>>
  <2>1. Steady(CloseStream(t, TRUE, f.arg), t)
    BY <1>1, <1>2, CloseOneSteady
  <2>2. NoneAfterEnd /\ \A x \in Endpoints : Ended(x)' = Ended(x)
    BY <1>0, <1>4, Silent, EndedOf
  <2>3. conn' = [conn EXCEPT ![e] = c]
    BY <1>0, <1>4, Here
  <2> HIDE DEF e, f, q
  <2> QED
    BY <1>0, <1>1, <1>2, <1>3, <1>4, <2>1, <2>2, <2>3, KeepEnd
<1>5. CASE /\ conn' = [conn EXCEPT ![e] = [c EXCEPT !.abort = "stream ids increase"]]
           /\ UNCHANGED <<table, wire, log>>
  <2> DEFINE d == [c EXCEPT !.abort = "stream ids increase"]
  <2>1. d \in Conn /\ Later(d, c)
    BY <1>2, ConnOps DEF Asserts
  <2>2. conn' = [conn EXCEPT ![e] = d]
    BY <1>5
  <2>3. NoneAfterEnd /\ \A x \in Endpoints : Ended(x)' = Ended(x)
    BY <1>0, <1>5, Silent DEF Ended
  <2> HIDE DEF e, f, q, d
  <2> QED
    BY <1>0, <1>1, <1>2, <1>3, <1>5, <2>1, <2>2, <2>3, Here, KeepEnd
<1>6. CASE /\ MayPromise(t, q, c, f.id) /\ ~(c.lastSent + 2 > f.arg)
           /\ conn' = [conn EXCEPT ![e] = [c EXCEPT !.lastSent = f.arg]]
           /\ Transmit(e, f) /\ UNCHANGED <<table, log>>
  <2> DEFINE d == [c EXCEPT !.lastSent = f.arg]
  <2>1. d \in Conn /\ Later(d, c)
    <3>1. c.lastSent \in Int /\ f.arg \in Int
      BY <1>1, <1>2 DEF Conn, StreamIds
    <3>2. c.lastSent < f.arg
      BY <1>6, <3>1
    <3> QED
      BY <1>1, <1>2, <3>2, ConnOps
  <2>2. conn' = [conn EXCEPT ![e] = d]
    BY <1>6
  <2>3. f.id \notin E
    <3>1. Live(t, f.id) /\ f.id \notin t.wr
      BY <1>6 DEF MayPromise
    <3> HIDE DEF t, f, E
    <3> QED
      BY <1>2, <3>1, OpenNotEnded
  <2>4. NoneAfterEnd /\ \A x \in Endpoints : Ended(x)' = Ended(x)
    <3> HIDE DEF f, e
    <3> QED
      BY <1>0, <1>6, <2>3, Sends DEF Ended
  <2> HIDE DEF e, f, q, d
  <2> QED
    BY <1>0, <1>1, <1>2, <1>3, <1>6, <2>1, <2>2, <2>4, Here, KeepEnd
<1> QED
  BY <1>4, <1>5, <1>6 DEF SendPromise, SetConn, SetTable

LEMMA CloseOnGoawaySteady ==
  ASSUME Inv, NEW e \in Endpoints, NEW last, NEW mine
  PROVE  Steady(CloseOnGoaway(e, last, mine), table[e])
<1> DEFINE S == {id \in LiveStreams(table[e]) : IsMine(Srv(e), id) = mine /\ id > last}
<1>1. S \in SUBSET StreamIds /\ table[e] \in Table
  BY Here DEF LiveStreams, Good
<1> HIDE DEF S
<1>2. Steady(CloseStreams(table[e], Srv(e), S), table[e])
  BY <1>1, CloseSteady
<1> QED
  BY <1>2 DEF CloseOnGoaway, S

LEMMA SendGoawayEnd ==
  ASSUME Inv, EndInv, NEW e \in Endpoints, SendGoaway(e) PROVE EndInv' /\ NoneAfterEnd
<1> DEFINE f == NextReg(e)
           q == AfterReg(e)
           u == CloseOnGoaway(e, f.arg, FALSE)
           g == conn[e].goaway \cup {"SENT"} \cup (IF f.end THEN {"TERM_SENT"} ELSE {})
           d == [conn[e] EXCEPT !.localLast = f.arg, !.goaway = g]
           code == IF Srv(e) THEN "REFUSED_STREAM" ELSE "CANCEL"
<1>1. /\ RegReady(e) /\ f.type = "GOAWAY"
      /\ queue' = [queue EXCEPT ![e] = q]
      /\ conn' = [conn EXCEPT ![e] = d]
      /\ table' = [table EXCEPT ![e] = u]
      /\ log' = ClosedWith(e, code)
      /\ Transmit(e, f)
  BY DEF SendGoaway, SetQueue, SetConn, SetTable
<1>2. q \in Queues(e) /\ f \in RegFrames(e)
  BY <1>1, TakeOps
<1>3. QueueOK(e, q, conn[e], Ended(e))
  BY <1>1, EndParts, TakeOK DEF RegReady, AfterReg
<1> HIDE DEF f, q
<1>4. f.id = 0 /\ 0 \notin StreamIds
  <2>1. f.id = 0
    BY <1>1, <1>2 DEF RegFrames
  <2>2. 0 \notin StreamIds
    BY DEF StreamIds
  <2> QED
    BY <2>1, <2>2
<1>5. f.arg \in 0 .. MaxStreamId
  BY <1>1, <1>2, FrameFacts
<1>6. g \in SUBSET GoawayFlags /\ conn[e] \in Conn
  BY Here DEF Conn, GoawayFlags
<1> HIDE DEF g
<1>7. d \in Conn /\ Later(d, conn[e])
  BY <1>5, <1>6, ConnOps
<1>8. d.lastSent = conn[e].lastSent
  BY <1>6 DEF Conn
<1>9. Steady(u, table[e])
  BY CloseOnGoawaySteady
<1> HIDE DEF d, u, code
<1>10. NoneAfterEnd /\ \A x \in Endpoints : Ended(x)' = Ended(x)
  BY <1>1, <1>4, EndParts, Sends, EndedOf
<1> QED
  BY <1>1, <1>2, <1>3, <1>7, <1>8, <1>9, <1>10, KeepEnd

(* RST_STREAM leaves when no HEADERS wait any more. *)
LEMMA SendRstEnd ==
  ASSUME Inv, EndInv, NEW e \in Endpoints, SendRst(e) PROVE EndInv' /\ NoneAfterEnd
<1> DEFINE f == Head(queue[e].syn)
           q == AfterSyn(e)
           c == conn[e]
           E == Ended(e)
           u == CloseStream(table[e], Srv(e), f.id)
<1>1. SynReady(e) /\ queue' = [queue EXCEPT ![e] = q] /\ UNCHANGED conn
  BY DEF SendRst, SetQueue
<1>2. q \in Queues(e) /\ f \in SynFrames
  BY <1>1, TakeOps
<1>3. f.id \in StreamIds /\ f.type = "RST_STREAM"
  BY <1>2 DEF SynFrames
<1>4. /\ QueueOK(e, queue[e], c, E) /\ c \in Conn /\ Later(c, c) /\ Steady(table[e], table[e])
      /\ queue[e] \in Queues(e) /\ TableOK(table[e], E) /\ table[e] \in Table /\ E \in SUBSET StreamIds
  BY EndParts, SteadySame
<1>5. queue[e].syn # << >> /\ queue[e].reg = << >> /\ q = [queue[e] EXCEPT !.syn = Tail(queue[e].syn)]
  BY <1>1 DEF SynReady, AfterSyn
<1> HIDE DEF q, c, E
<1>6. QueueOK(e, q, c, E) /\ Given(e, c, f.id)
  BY <1>4, <1>5, TakeOK
<1>7. conn' = [conn EXCEPT ![e] = c]
  BY <1>1, Here DEF c
<1>8. CASE UNCHANGED <<table, wire, log>>
  <2>1. NoneAfterEnd /\ \A x \in Endpoints : Ended(x)' = Ended(x)
    BY <1>8, Silent DEF Ended
  <2> QED
    BY <1>1, <1>2, <1>4, <1>6, <1>7, <1>8, <2>1, Here, KeepEnd DEF c, E
<1>9. CASE table' = [table EXCEPT ![e] = u] /\ Transmit(e, f) /\ log' = SentLast(e, f.code, {f.id})
  <2>1. NoneAfterEnd
    BY <1>3, <1>9, Sends
  <2>2. Ended(e)' = E \cup {f.id} /\ \A x \in Endpoints : x # e => Ended(x)' = Ended(x)
    BY <1>9, EndedOf DEF E
  <2> HIDE DEF f
  <2>3. TableOK(u, E \cup {f.id})
    BY <1>3, <1>4, GoneOK
  <2>4. QueueOK(e, q, c, E \cup {f.id})
    <3>1. q.reg = << >>
      BY <1>4, <1>5 DEF Queues
    <3>2. OnceEach(q.reg, E \cup {f.id})
      BY <3>1 DEF OnceEach
    <3> QED
      BY <1>6, <3>2, EndOK
  <2> HIDE DEF u
  <2> QED
    BY <1>1, <1>7, <1>9, <2>1, <2>2, <2>3, <2>4, EndStep
<1> QED
  BY <1>8, <1>9 DEF SendRst, SetTable

LEMMA SendDataEnd ==
  ASSUME Inv, EndInv, NEW e \in Endpoints, NEW id \in StreamIds, SendData(e, id)
  PROVE  EndInv' /\ NoneAfterEnd
<1> DEFINE t == table[e]
           c == conn[e]
           E == Ended(e)
           d == Detach(t, id)
           w == ShutWr(d, id)
           u == CloseIfShut(w, Srv(e), id)
<1>1. DataReady(e) /\ id \in t.item /\ UNCHANGED <<queue, conn>>
  BY DEF SendData
<1>2. /\ QueueOK(e, queue[e], c, E) /\ c \in Conn /\ Later(c, c) /\ Srv(e) \in BOOLEAN
      /\ queue[e] \in Queues(e) /\ TableOK(t, E) /\ t \in Table /\ E \in SUBSET StreamIds
      /\ Good(t, Srv(e))
  BY EndParts
<1>3. Live(t, id) /\ Given(e, c, id)
  <2>1. Live(t, id)
    BY <1>1, <1>2 DEF TableOK, LiveStreams
  <2> QED
    BY <2>1, LiveGiven
<1>4. Steady(d, t) /\ d \in Table
  BY <1>2, FlagsSteady, FlagsGood DEF Good
<1>5. queue' = [queue EXCEPT ![e] = queue[e]] /\ conn' = [conn EXCEPT ![e] = c]
  BY <1>1, Here
<1>6. CASE table' = [table EXCEPT ![e] = d] /\ UNCHANGED <<wire, log>>
  <2>1. NoneAfterEnd /\ \A x \in Endpoints : Ended(x)' = Ended(x)
    BY <1>6, Silent DEF Ended
  <2> HIDE DEF d
  <2> QED
    BY <1>2, <1>4, <1>5, <1>6, <2>1, KeepEnd
<1>7. CASE /\ MaySendData(t, queue[e], c, Srv(e), id)
           /\ table' = [table EXCEPT ![e] = u] /\ Transmit(e, Data(id))
           /\ log' = SentLast(e, "NO_ERROR", {id})
  <2>1. id \notin E
    BY <1>2, <1>3, <1>7, OpenNotEnded DEF MaySendData
  <2>2. NoneAfterEnd
    <3>1. Data(id).id = id
      BY DEF Data, F
    <3> QED
      BY <1>7, <2>1, <3>1, Sends
  <2>3. Ended(e)' = E \cup {id} /\ \A x \in Endpoints : x # e => Ended(x)' = Ended(x)
    BY <1>7, EndedOf
  <2> HIDE DEF d, E
  <2>4. TableOK(w, E \cup {id}) /\ w \in Table
    <3>1. TableOK(d, E)
      BY <1>2, <1>4, SteadyOK
    <3>2. w \in Table
      BY <1>4 DEF ShutWr, Table
    <3> QED
      BY <1>2, <1>4, <3>1, <3>2, ShutOK
  <2> HIDE DEF w
  <2>5. TableOK(u, E \cup {id})
    <3>1. Steady(u, w) /\ E \cup {id} \in SUBSET StreamIds
      BY <1>2, <2>4, CloseOneSteady
    <3> QED
      BY <2>4, <3>1, SteadyOK
  <2>6. QueueOK(e, queue[e], c, E \cup {id})
    <3>1. OnceEach(queue[e].reg, E \cup {id})
      BY <1>1 DEF OnceEach, DataReady
    <3> QED
      BY <1>2, <1>3, <3>1, EndOK
  <2>7. table' = [table EXCEPT ![e] = u]
    BY <1>7
  <2> HIDE DEF u, c
  <2> QED
    BY <1>5, <2>2, <2>3, <2>5, <2>6, <2>7, EndStep
<1> QED
  BY <1>6, <1>7 DEF SendData, SetTable

-----------------------------------------------------------------------------
(* Receiving: nothing is sent, and no stream ends.                         *)

LEMMA ShutRdTable == ASSUME NEW t \in Table, NEW id \in StreamIds PROVE ShutRd(t, id) \in Table
BY DEF ShutRd, Table

(* session_end_stream_headers_received and its like, after a steady step *)
LEMMA EndedByPeer ==
  ASSUME NEW t \in Table, NEW u \in Table, NEW srv, NEW id \in StreamIds, NEW end \in BOOLEAN, Steady(u, t)
  PROVE  Steady(PeerEnded(u, srv, id, end), t)
<1>1. ShutRd(u, id) \in Table
  BY ShutRdTable
<1>2. Steady(PeerEnded(u, srv, id, end), u)
  BY <1>1, PeerEndedSteady
<1> QED
  BY <1>2, SteadyTwice

(* What a handler finds when it runs. *)
LEMMA Arrived ==
  ASSUME Inv, EndInv, NEW e \in Endpoints, NEW type \in {"HEADERS", "DATA", "RST_STREAM", "PUSH_PROMISE"},
         Accepted(e, type)
  PROVE  /\ Head(wire[e]).id \in StreamIds /\ Head(wire[e]).end \in BOOLEAN /\ Head(wire[e]).type = type
         /\ NoneAfterEnd
         /\ type = "PUSH_PROMISE" => Head(wire[e]).arg \in StreamIds
<1>1. Arrives(e, type)
  BY DEF Accepted
<1>2. Head(wire[e]) \in FramesTo(e) /\ Head(wire[e]).type = type
  BY <1>1, WireOps, Here
<1>3. Head(wire[e]).id \in StreamIds /\ Head(wire[e]).end \in BOOLEAN
      /\ (type = "PUSH_PROMISE" => Head(wire[e]).arg \in StreamIds)
  BY <1>2, FrameFacts
<1> QED
  BY <1>1, <1>2, <1>3, Silent

LEMMA RecvInvalidEnd ==
  ASSUME Inv, EndInv, NEW e \in Endpoints, RecvInvalid(e) PROVE EndInv' /\ NoneAfterEnd
<1> DEFINE f == Head(wire[e])
           c == IF ErrorOf(e, f) = "max concurrent streams exceeded" /\ NewPeerId(e, f.id)
                THEN [conn[e] EXCEPT !.lastRecv = f.id] ELSE conn[e]
<1>1. /\ Arrives(e, f.type) /\ Terminate(e, c, ErrorOf(e, f)) /\ UNCHANGED <<table, log>>
  BY DEF RecvInvalid
<1>2. f \in FramesTo(e)
  BY <1>1, WireOps, Here
<1> HIDE DEF f
<1>3. c \in Conn /\ Later(c, conn[e])
  <2>1. CASE ErrorOf(e, f) = "max concurrent streams exceeded" /\ NewPeerId(e, f.id)
    <3>1. f.id \in StreamIds
      BY <1>2, <2>1, ErrorKinds, FrameFacts
    <3> QED
      BY <2>1, <3>1, ConnOps, Here DEF NewPeerId
  <2>2. CASE ~(ErrorOf(e, f) = "max concurrent streams exceeded" /\ NewPeerId(e, f.id))
    BY <2>2, ConnOps, Here
  <2> QED
    BY <2>1, <2>2
<1>4. c.lastSent = conn[e].lastSent
  BY Here DEF Conn
<1> HIDE DEF c
<1>5. NoneAfterEnd /\ \A x \in Endpoints : Ended(x)' = Ended(x)
  BY <1>1, Silent DEF Ended
<1> QED
  BY <1>1, <1>3, <1>4, <1>5, ErrorKinds, TerminateEnd

(* A request opens a stream above every one received before, so above      *)
(* every one the server ended.                                             *)
LEMMA RecvRequestEnd == ASSUME Inv, EndInv, RecvRequest PROVE EndInv' /\ NoneAfterEnd
<1> DEFINE e == "server"
           f == Head(wire[e])
           t == table[e]
           c == [conn[e] EXCEPT !.lastRecv = f.id]
           d == [c EXCEPT !.lastProc = f.id]
           o == OpenStream(t, TRUE, f.id, "OPENING")
           max == IF c.localMax = NoLimit THEN c.pendingMax ELSE c.localMax
           a == AdjustClosed(o, max)
           u == PeerEnded(a, TRUE, f.id, f.end)
           E == Ended(e)
<1>0. e \in Endpoints /\ Srv(e) = TRUE
  BY Ends
<1>1. Accepted(e, "HEADERS") /\ NewPeerId(e, f.id)
  BY DEF RecvRequest
<1>2. f.id \in StreamIds /\ f.end \in BOOLEAN /\ ~IsMine(TRUE, f.id) /\ conn[e].lastRecv < f.id /\ NoneAfterEnd
  <2>1. f.id \in StreamIds /\ f.end \in BOOLEAN /\ NoneAfterEnd
    BY <1>0, <1>1, Arrived
  <2> HIDE DEF e, f
  <2> QED
    BY <1>0, <1>1, <2>1 DEF NewPeerId
<1>3. /\ c \in Conn /\ Later(c, conn[e]) /\ d \in Conn /\ Later(d, conn[e]) /\ c.lastRecv = f.id
      /\ max \in Int
  <2>1. c \in Conn /\ Later(c, conn[e])
    BY <1>0, <1>2, ConnOps, Here
  <2>2. d = [conn[e] EXCEPT !.lastRecv = f.id, !.lastProc = f.id]
    OBVIOUS
  <2>3. d \in Conn /\ Later(d, conn[e])
    <3> HIDE DEF d
    <3> QED
      BY <1>0, <1>2, <2>2, ConnOps, Here
  <2>4. c.lastRecv = f.id
    BY <1>0, Here DEF Conn
  <2> HIDE DEF c, d
  <2>5. max \in Int
    BY <2>1 DEF Conn
  <2> QED
    BY <2>1, <2>3, <2>4, <2>5
<1>4. /\ QueueOK(e, queue[e], conn[e], E) /\ conn[e] \in Conn /\ Steady(t, t)
      /\ queue[e] \in Queues(e) /\ TableOK(t, E) /\ t \in Table /\ E \in SUBSET StreamIds
  BY <1>0, EndParts, SteadySame
<1>5. CASE conn' = [conn EXCEPT ![e] = c] /\ UNCHANGED <<table, queue, log>>
  <2>1. \A x \in Endpoints : Ended(x)' = Ended(x)
    BY <1>5 DEF Ended
  <2> HIDE DEF e, c, f
  <2> QED
    BY <1>0, <1>2, <1>3, <1>4, <1>5, <2>1, Here, KeepEnd
<1>6. CASE /\ conn' = [conn EXCEPT ![e] = c]
           /\ queue' = [queue EXCEPT ![e] = AddRst(t, queue[e], f.id, "REFUSED_STREAM")]
           /\ UNCHANGED <<table, log>>
  <2>1. \A x \in Endpoints : Ended(x)' = Ended(x)
    BY <1>6 DEF Ended
  <2>2. QueueOK(e, queue[e], c, E)
    <3> HIDE DEF c
    <3> QED
      BY <1>0, <1>3, <1>4, QueueLater
  <2>3. Given(e, c, f.id)
    <3>1. f.id <= c.lastRecv
      BY <1>2, <1>3 DEF StreamIds
    <3> QED
      BY <1>0, <1>2, <3>1 DEF Given, Announced
  <2>4. QueueOK(e, AddRst(t, queue[e], f.id, "REFUSED_STREAM"), c, E)
    <3> HIDE DEF c, f
    <3> QED
      BY <1>0, <1>4, <2>2, <2>3, AddRstOK
  <2>5. table' = [table EXCEPT ![e] = t]
    BY <1>0, <1>6, Here
  <2> HIDE DEF e, c, f, t
  <2> QED
    BY <1>0, <1>2, <1>4, <1>6, <2>1, <2>4, <2>5, PlainEnd
<1>7. CASE /\ conn' = [conn EXCEPT ![e] = d]
           /\ table' = [table EXCEPT ![e] = u]
           /\ log' = [log EXCEPT ![e] = [log[e] EXCEPT !.seen = log[e].seen \cup {f.id}]]
           /\ UNCHANGED queue
  <2>1. \A x \in Endpoints : Ended(x)' = Ended(x)
    <3> DEFINE r == [log[e] EXCEPT !.seen = log[e].seen \cup {f.id}]
    <3>1. r.ended = log[e].ended /\ log' = [log EXCEPT ![e] = r]
      BY <1>0, <1>7, Here DEF Log
    <3> HIDE DEF r, e
    <3> QED
      BY <1>0, <3>1, NotedOf
  <2>2. ~Announced(e, conn[e], f.id)
    <3>1. conn[e].lastRecv \in Int /\ f.id \in Int
      BY <1>2, <1>4 DEF Conn, StreamIds
    <3>2. ~(f.id <= conn[e].lastRecv)
      BY <1>2, <3>1
    <3> QED
      BY <1>0, <1>2, <3>2 DEF Announced
  <2>3. Good(o, TRUE)
    BY <1>0, <1>2, <2>2, OpenFresh
  <2>4. TableOK(o, E)
    <3>1. f.id \notin E
      BY <1>0, <1>4, <2>2 DEF QueueOK, Given
    <3> HIDE DEF f, t, E
    <3> QED
      BY <1>2, <1>4, <3>1, OpenOK
  <2> HIDE DEF max, o
  <2>5. Steady(a, o) /\ Good(a, TRUE)
    BY <1>3, <2>3, AdjustSteady, AdjustClosedGood
  <2> HIDE DEF a
  <2>6. Steady(u, o) /\ o \in Table
    BY <1>2, <2>3, <2>5, EndedByPeer DEF Good
  <2> HIDE DEF u
  <2>7. TableOK(u, E)
    BY <1>4, <2>4, <2>6, SteadyOK
  <2>8. QueueOK(e, queue[e], d, E)
    <3> HIDE DEF d
    <3> QED
      BY <1>0, <1>3, <1>4, QueueLater
  <2>9. /\ conn' = [conn EXCEPT ![e] = d] /\ queue' = [queue EXCEPT ![e] = queue[e]]
        /\ table' = [table EXCEPT ![e] = u]
    BY <1>0, <1>7, Here DEF u
  <2> HIDE DEF e, d, f
  <2> QED
    BY <1>0, <1>2, <2>1, <2>7, <2>8, <2>9, PlainEnd
<1> QED
  BY <1>5, <1>6, <1>7 DEF RecvRequest, SetConn, SetTable, SetQueue

LEMMA RecvResponseEnd == ASSUME Inv, EndInv, RecvResponse PROVE EndInv' /\ NoneAfterEnd
<1> DEFINE e == "client"
           f == Head(wire[e])
           t == table[e]
           c == conn[e]
           E == Ended(e)
           S(u) == table' = [table EXCEPT ![e] = PeerEnded(u, FALSE, f.id, f.end)]
           L == log' = [ClosedWith(e, "NO_ERROR") EXCEPT ![e] =
                          [ClosedWith(e, "NO_ERROR")[e] EXCEPT !.seen = ClosedWith(e, "NO_ERROR")[e].seen \cup {f.id}]]
<1>0. e \in Endpoints /\ Srv(e) = FALSE
  BY Ends
<1>1. /\ f.id \in StreamIds /\ f.end \in BOOLEAN /\ NoneAfterEnd /\ conn' = [conn EXCEPT ![e] = c]
      /\ UNCHANGED log \/ L
  <2>1. Accepted(e, "HEADERS") /\ UNCHANGED conn /\ (UNCHANGED log \/ L)
    BY DEF RecvResponse
  <2> HIDE DEF L, e
  <2> QED
    BY <1>0, <2>1, Arrived, Here
<1>2. \A x \in Endpoints : Ended(x)' = Ended(x)
  <2>1. CASE UNCHANGED log
    BY <2>1 DEF Ended
  <2>2. CASE L
    <3> DEFINE C == ClosedWith(e, "NO_ERROR")
    <3>1. C \in [Endpoints -> Log]
      BY <1>0, LogOps, Here DEF Codes
    <3>2. \A x \in Endpoints : C[x].ended = log[x].ended
      BY <1>0, Here DEF ClosedWith, Log, LogsOK
    <3>3. log' = [C EXCEPT ![e] = [C[e] EXCEPT !.seen = C[e].seen \cup {f.id}]]
      BY <2>2
    <3> HIDE DEF C, e
    <3>4. \A x \in Endpoints : log'[x].ended = C[x].ended
      BY <1>0, <3>1, <3>3 DEF Log
    <3> QED
      BY <3>2, <3>4 DEF Ended
  <2> QED
    BY <1>1, <2>1, <2>2
<1>3. /\ QueueOK(e, queue[e], c, E) /\ c \in Conn /\ Later(c, c) /\ Steady(t, t)
      /\ queue[e] \in Queues(e) /\ TableOK(t, E) /\ t \in Table /\ Good(t, FALSE)
  BY <1>0, EndParts, SteadySame
<1>4. CASE UNCHANGED <<table, queue>>
  <2> HIDE DEF e
  <2> QED
    BY <1>0, <1>1, <1>2, <1>3, <1>4, Here, KeepEnd
<1>5. CASE /\ t.st[f.id] = "RESERVED"
           /\ table' = [table EXCEPT ![e] = MarkClosing(t, f.id)]
           /\ queue' = [queue EXCEPT ![e] = AddRst(t, queue[e], f.id, "REFUSED_STREAM")]
  <2> DEFINE p == AddRst(t, queue[e], f.id, "REFUSED_STREAM")
  <2>1. Given(e, c, f.id)
    <3>1. Live(t, f.id)
      BY <1>5 DEF Live
    <3> HIDE DEF f, e
    <3> QED
      BY <1>0, <1>1, <3>1, LiveGiven
  <2>2. p \in Queues(e) /\ QueueOK(e, p, c, E)
    BY <1>0, <1>1, <1>3, <2>1, AddOps, AddRstOK DEF Codes
  <2>3. Steady(MarkClosing(t, f.id), t)
    BY <1>1, <1>3, MovesSteady
  <2> HIDE DEF e, f
  <2> QED
    BY <1>0, <1>1, <1>2, <1>3, <1>5, <2>2, <2>3, KeepEnd
<1>6. ASSUME NEW u \in Table, Steady(u, t), S(u), UNCHANGED queue PROVE EndInv'
  <2>1. Steady(PeerEnded(u, FALSE, f.id, f.end), t)
    BY <1>1, <1>3, <1>6, EndedByPeer
  <2> HIDE DEF f, e
  <2> QED
    BY <1>0, <1>1, <1>2, <1>3, <1>6, <2>1, Here, KeepEnd
<1>7. ASSUME t.st[f.id] = "RESERVED", S(PromiseFulfilled(t, f.id)), UNCHANGED queue PROVE EndInv'
  <2>1. Steady(PromiseFulfilled(t, f.id), t) /\ PromiseFulfilled(t, f.id) \in Table
    BY <1>1, <1>3, <1>7, MovesSteady, PromiseFulfilledGood DEF Good
  <2> HIDE DEF S, t, f
  <2> QED
    BY <1>6, <1>7, <2>1
<1>8. ASSUME t.st[f.id] \in {"OPENING", "OPENED"}, S(SetState(t, f.id, "OPENED")), UNCHANGED queue PROVE EndInv'
  <2>1. Live(t, f.id) /\ f.id \notin t.push
    BY <1>3, <1>8 DEF Live, Good, TableShape
  <2>2. Steady(SetState(t, f.id, "OPENED"), t) /\ SetState(t, f.id, "OPENED") \in Table
    BY <1>1, <1>3, <2>1, MovesSteady, SetStateGood DEF Good
  <2> HIDE DEF S, t, f
  <2> QED
    BY <1>6, <1>8, <2>2
<1>9. \/ UNCHANGED <<table, queue>>
      \/ /\ t.st[f.id] = "RESERVED"
         /\ table' = [table EXCEPT ![e] = MarkClosing(t, f.id)]
         /\ queue' = [queue EXCEPT ![e] = AddRst(t, queue[e], f.id, "REFUSED_STREAM")]
      \/ t.st[f.id] = "RESERVED" /\ S(PromiseFulfilled(t, f.id)) /\ UNCHANGED queue
      \/ t.st[f.id] \in {"OPENING", "OPENED"} /\ S(SetState(t, f.id, "OPENED")) /\ UNCHANGED queue
  BY DEF RecvResponse, SetTable, SetQueue
<1> HIDE DEF S
<1> QED
  BY <1>1, <1>4, <1>5, <1>7, <1>8, <1>9

(* A step of e that only reads a frame and moves its table or its state. *)
LEMMA ReadEnd ==
  ASSUME Inv, EndInv, NEW e \in Endpoints, NEW u, NEW c,
         table' = [table EXCEPT ![e] = u], Steady(u, table[e]), UNCHANGED queue,
         conn' = [conn EXCEPT ![e] = c], c \in Conn, Later(c, conn[e]), c.lastSent = conn[e].lastSent,
         \A x \in Endpoints : Ended(x)' = Ended(x)
  PROVE  EndInv'
BY Here, EndParts, KeepEnd

LEMMA RecvDataEnd ==
  ASSUME Inv, EndInv, NEW e \in Endpoints, RecvData(e) PROVE EndInv' /\ NoneAfterEnd
<1> DEFINE f == Head(wire[e])
           u == PeerEnded(table[e], Srv(e), f.id, f.end)
<1>1. /\ Accepted(e, "DATA") /\ UNCHANGED <<queue, conn>>
      /\ \/ table' = [table EXCEPT ![e] = u] /\ log' = ClosedWith(e, "NO_ERROR")
         \/ UNCHANGED <<table, log>>
  BY DEF RecvData, SetTable
<1>2. f.id \in StreamIds /\ f.end \in BOOLEAN /\ NoneAfterEnd
  BY <1>1, Arrived
<1>3. /\ table[e] \in Table /\ Steady(table[e], table[e])
      /\ conn[e] \in Conn /\ Later(conn[e], conn[e]) /\ conn' = [conn EXCEPT ![e] = conn[e]]
  BY <1>1, EndParts, SteadySame, Here
<1>4. Steady(u, table[e])
  BY <1>2, <1>3, EndedByPeer
<1>5. \A x \in Endpoints : Ended(x)' = Ended(x)
  BY <1>1, EndedOf
<1> HIDE DEF u, f
<1> QED
  BY <1>1, <1>2, <1>3, <1>4, <1>5, Here, ReadEnd

LEMMA RecvPromiseEnd == ASSUME Inv, EndInv, RecvPromise PROVE EndInv' /\ NoneAfterEnd
<1> DEFINE e == "client"
           f == Head(wire[e])
           t == table[e]
           c == conn[e]
           d == [c EXCEPT !.lastRecv = f.arg]
           g == [c EXCEPT !.lastRecv = f.arg, !.lastProc = f.arg]
           u == OpenStream(t, FALSE, f.arg, "RESERVED")
           E == Ended(e)
<1>0. e \in Endpoints /\ Srv(e) = FALSE
  BY Ends
<1>1. /\ Accepted(e, "PUSH_PROMISE") /\ UNCHANGED log
      /\ \/ UNCHANGED <<table, queue, conn>>
         \/ /\ AllowIncoming(c) /\ conn' = [conn EXCEPT ![e] = d]
            /\ queue' = [queue EXCEPT ![e] = AddRst(t, queue[e], f.arg, "CANCEL")]
            /\ UNCHANGED table
         \/ /\ AllowIncoming(c) /\ conn' = [conn EXCEPT ![e] = g]
            /\ table' = [table EXCEPT ![e] = u]
            /\ UNCHANGED queue
  BY DEF RecvPromise, SetConn, SetTable, SetQueue
<1>2. f.id \in StreamIds /\ f.arg \in StreamIds /\ f.type = "PUSH_PROMISE" /\ NoneAfterEnd
  BY <1>0, <1>1, Arrived
<1>3. AllowIncoming(c) => ~IsMine(FALSE, f.arg) /\ c.lastRecv < f.arg
  <2>1. ErrorOf(e, f) = "none"
    BY <1>1 DEF Accepted
  <2> HIDE DEF e, f
  <2>2. PromiseError(e, f.id, f.arg) = "none"
    BY <1>2, <2>1 DEF ErrorOf
  <2> QED
    BY <1>0, <2>2 DEF PromiseError, NewPeerId
<1>4. /\ QueueOK(e, queue[e], c, E) /\ c \in Conn /\ Later(c, c) /\ Steady(t, t) /\ c.lastSent < c.nextId
      /\ queue[e] \in Queues(e) /\ TableOK(t, E) /\ t \in Table /\ E \in SUBSET StreamIds
  BY <1>0, EndParts, SteadySame
<1>5. \A x \in Endpoints : Ended(x)' = Ended(x)
  BY <1>1 DEF Ended
<1>6. AllowIncoming(c) => d \in Conn /\ Later(d, c) /\ g \in Conn /\ Later(g, c)
  BY <1>2, <1>3, <1>4, ConnOps
<1>7. d.lastSent = c.lastSent /\ g.lastSent = c.lastSent
  BY <1>4 DEF Conn
<1> HIDE DEF d, g
<1>8. CASE UNCHANGED <<table, queue, conn>>
  <2> HIDE DEF e
  <2> QED
    BY <1>0, <1>2, <1>4, <1>5, <1>8, Here, ReadEnd
<1>9. CASE /\ AllowIncoming(c) /\ conn' = [conn EXCEPT ![e] = d]
           /\ queue' = [queue EXCEPT ![e] = AddRst(t, queue[e], f.arg, "CANCEL")]
           /\ UNCHANGED table
  <2> DEFINE p == AddRst(t, queue[e], f.arg, "CANCEL")
  <2>1. Given(e, c, f.arg)
    BY <1>0, <1>3, <1>9 DEF Given
  <2>2. p \in Queues(e) /\ QueueOK(e, p, c, E)
    <3> HIDE DEF e, f, c, E, t
    <3> QED
      BY <1>0, <1>2, <1>4, <2>1, AddOps, AddRstOK DEF Codes
  <2> HIDE DEF e, f
  <2> QED
    BY <1>0, <1>2, <1>4, <1>5, <1>6, <1>7, <1>9, <2>2, Here, KeepEnd
<1>10. CASE /\ AllowIncoming(c) /\ conn' = [conn EXCEPT ![e] = g]
            /\ table' = [table EXCEPT ![e] = u]
            /\ UNCHANGED queue
  <2>1. TableOK(u, E)
    <3> HIDE DEF e, f, c, E, t
    <3> QED
      BY <1>2, <1>3, <1>4, <1>10, OpenOK
  <2>2. QueueOK(e, queue[e], g, E)
    <3>1. g.lastSent < g.nextId
      BY <1>4, <1>6, <1>7, <1>10, SentLater
    <3> HIDE DEF e, f, c, E, t
    <3> QED
      BY <1>0, <1>4, <1>6, <1>10, <3>1, QueueLater
  <2>3. queue' = [queue EXCEPT ![e] = queue[e]]
    BY <1>0, <1>10, Here
  <2> HIDE DEF e, f, u
  <2> QED
    BY <1>0, <1>2, <1>5, <1>10, <2>1, <2>2, <2>3, PlainEnd
<1> QED
  BY <1>1, <1>8, <1>9, <1>10

LEMMA RecvRstEnd ==
  ASSUME Inv, EndInv, NEW e \in Endpoints, RecvRst(e) PROVE EndInv' /\ NoneAfterEnd
<1> DEFINE f == Head(wire[e])
           t == IF Live(table[e], f.id) THEN ShutRd(table[e], f.id) ELSE table[e]
           u == CloseStream(t, Srv(e), f.id)
<1>1. /\ Accepted(e, "RST_STREAM") /\ table' = [table EXCEPT ![e] = u]
      /\ log' = ClosedWith(e, f.code) /\ UNCHANGED <<queue, conn>>
  BY DEF RecvRst, SetTable
<1>2. f.id \in StreamIds /\ NoneAfterEnd
  BY <1>1, Arrived
<1>3. /\ table[e] \in Table /\ Steady(table[e], table[e])
      /\ conn[e] \in Conn /\ Later(conn[e], conn[e]) /\ conn' = [conn EXCEPT ![e] = conn[e]]
  BY <1>1, EndParts, SteadySame, Here
<1>4. t \in Table /\ Steady(t, table[e])
  <2>1. ShutRd(table[e], f.id) \in Table
    BY <1>2, <1>3, ShutRdTable
  <2> QED
    BY <1>2, <1>3, <2>1, FlagsSteady
<1> HIDE DEF t
<1>5. Steady(u, table[e])
  BY <1>2, <1>4, CloseOneSteady, SteadyTwice
<1>6. \A x \in Endpoints : Ended(x)' = Ended(x)
  BY <1>1, EndedOf
<1> HIDE DEF u, f
<1> QED
  BY <1>1, <1>2, <1>3, <1>5, <1>6, ReadEnd

LEMMA RecvSettingsEnd ==
  ASSUME Inv, EndInv, NEW e \in Endpoints, RecvSettings(e) PROVE EndInv' /\ NoneAfterEnd
<1> DEFINE n == Head(wire[e]).arg
           d == [conn[e] EXCEPT !.remoteMax = n]
           p == [queue[e] EXCEPT !.urg = Append(queue[e].urg, SettingsAck)]
<1>1. /\ Accepted(e, "SETTINGS") /\ conn' = [conn EXCEPT ![e] = d] /\ UNCHANGED <<table, log>>
      /\ queue' = [queue EXCEPT ![e] = queue[e]] \/ queue' = [queue EXCEPT ![e] = p]
  BY DEF RecvSettings, SetConn, SetQueue
<1>2. Arrives(e, "SETTINGS") /\ Head(wire[e]) \in FramesTo(e)
  BY <1>1, WireOps, Here DEF Accepted
<1>3. n \in Nat
  BY <1>2, FrameFacts
<1> HIDE DEF n
<1>4. d \in Conn /\ Later(d, conn[e])
  BY <1>3, ConnOps, Here
<1>5. d.lastSent = conn[e].lastSent
  BY Here DEF Conn
<1>6. NoneAfterEnd /\ \A x \in Endpoints : Ended(x)' = Ended(x)
  BY <1>1, <1>2, Silent DEF Ended
<1>7. /\ QueueOK(e, queue[e], conn[e], Ended(e)) /\ queue[e] \in Queues(e) /\ Steady(table[e], table[e])
      /\ table' = [table EXCEPT ![e] = table[e]]
  BY <1>1, EndParts, SteadySame, Here
<1>8. p \in Queues(e) /\ QueueOK(e, p, conn[e], Ended(e))
  BY <1>7, QueueOps, FrameKinds, AddOK
<1> HIDE DEF d, p
<1> QED
  BY <1>1, <1>4, <1>5, <1>6, <1>7, <1>8, KeepEnd

LEMMA RecvSettingsAckEnd ==
  ASSUME Inv, EndInv, NEW e \in Endpoints, RecvSettingsAck(e) PROVE EndInv' /\ NoneAfterEnd
<1> DEFINE d == [conn[e] EXCEPT !.localMax = MaxOf(e), !.pendingMax = MaxOf(e)]
<1>1. /\ Arrives(e, "SETTINGS_ACK") /\ conn' = [conn EXCEPT ![e] = d] /\ UNCHANGED <<table, queue, log>>
  BY DEF RecvSettingsAck, Accepted, SetConn
<1>2. MaxOf(e) \in Nat
  BY SessionAssumption DEF MaxOf
<1>3. d \in Conn /\ Later(d, conn[e])
  BY <1>2, ConnOps, Here
<1>4. d.lastSent = conn[e].lastSent
  BY Here DEF Conn
<1>5. NoneAfterEnd /\ \A x \in Endpoints : Ended(x)' = Ended(x)
  BY <1>1, Silent DEF Ended
<1>6. Steady(table[e], table[e]) /\ table' = [table EXCEPT ![e] = table[e]]
  BY <1>1, SteadySame, Here
<1> HIDE DEF d
<1> QED
  BY <1>1, <1>3, <1>4, <1>5, <1>6, ReadEnd

LEMMA RecvGoawayEnd ==
  ASSUME Inv, EndInv, NEW e \in Endpoints, RecvGoaway(e) PROVE EndInv' /\ NoneAfterEnd
<1> DEFINE last == Head(wire[e]).arg
           g == conn[e].goaway \cup {"RECV"}
           d == [conn[e] EXCEPT !.goaway = g, !.remoteLast = last]
           u == CloseOnGoaway(e, last, TRUE)
<1>1. /\ Accepted(e, "GOAWAY") /\ conn' = [conn EXCEPT ![e] = d] /\ table' = [table EXCEPT ![e] = u]
      /\ log' = ClosedWith(e, "CANCEL") /\ UNCHANGED queue
  BY DEF RecvGoaway, SetConn, SetTable
<1>2. Arrives(e, "GOAWAY") /\ Head(wire[e]) \in FramesTo(e) /\ Head(wire[e]).type = "GOAWAY"
  BY <1>1, WireOps, Here DEF Accepted
<1>3. last \in 0 .. MaxStreamId
  BY <1>2, FrameFacts
<1> HIDE DEF last
<1>4. g \in SUBSET GoawayFlags
  BY Here DEF Conn, GoawayFlags
<1> HIDE DEF g
<1>5. d \in Conn /\ Later(d, conn[e])
  BY <1>3, <1>4, ConnOps, Here
<1>6. d.lastSent = conn[e].lastSent
  BY Here DEF Conn
<1>7. Steady(u, table[e])
  BY CloseOnGoawaySteady
<1>8. NoneAfterEnd /\ \A x \in Endpoints : Ended(x)' = Ended(x)
  BY <1>1, <1>2, Silent, EndedOf
<1> HIDE DEF d, u
<1> QED
  BY <1>1, <1>5, <1>6, <1>7, <1>8, ReadEnd

LEMMA DropEnd ==
  ASSUME Inv, EndInv, NEW e \in Endpoints, Drop(e) PROVE EndInv' /\ NoneAfterEnd
<1> DEFINE d == [conn[e] EXCEPT !.up = FALSE]
<1>1. conn' = [conn EXCEPT ![e] = d] /\ UNCHANGED <<table, queue, wire, log>>
  BY DEF Drop, SetConn
<1>2. d \in Conn /\ Later(d, conn[e])
  BY ConnOps, Here
<1>3. d.lastSent = conn[e].lastSent
  BY Here DEF Conn
<1>4. NoneAfterEnd /\ \A x \in Endpoints : Ended(x)' = Ended(x)
  BY <1>1, Silent DEF Ended
<1>5. Steady(table[e], table[e]) /\ table' = [table EXCEPT ![e] = table[e]]
  BY <1>1, SteadySame, Here
<1> HIDE DEF d
<1> QED
  BY <1>1, <1>2, <1>3, <1>4, <1>5, ReadEnd

-----------------------------------------------------------------------------
(* The theorem                                                             *)

LEMMA EndNext == ASSUME Inv, EndInv, [Next]_vars PROVE EndInv' /\ NoneAfterEnd
<1>1. ASSUME NEW e \in Endpoints, Submit(e) PROVE EndInv' /\ NoneAfterEnd
  BY <1>1, SubmitRequestEnd, SubmitPushEnd, SubmitResponseEnd, SubmitRstEnd, SubmitTerminateEnd,
     SubmitGoawayEnd DEF Submit
<1>2. ASSUME NEW e \in Endpoints, Send(e) PROVE EndInv' /\ NoneAfterEnd
  BY <1>2, SendSettingsEnd, SendRequestEnd, SendResponseEnd, SendPromiseEnd, SendGoawayEnd,
     SendRstEnd, SendDataEnd DEF Send
<1>3. ASSUME NEW e \in Endpoints, Recv(e) PROVE EndInv' /\ NoneAfterEnd
  BY <1>3, RecvInvalidEnd, RecvRequestEnd, RecvResponseEnd, RecvDataEnd, RecvPromiseEnd, RecvRstEnd,
     RecvSettingsEnd, RecvSettingsAckEnd, RecvGoawayEnd DEF Recv
<1>4. ASSUME NEW e \in Endpoints, Drop(e) PROVE EndInv' /\ NoneAfterEnd
  BY <1>4, DropEnd
<1>5. CASE UNCHANGED vars
  <2>1. EndInv'
    BY <1>5 DEF vars, EndInv
  <2>2. NoneAfterEnd
    BY <1>5, Silent, Ends DEF vars
  <2> QED
    BY <2>1, <2>2
<1> QED
  BY <1>1, <1>2, <1>3, <1>4, <1>5 DEF Next

LEMMA InitEnd == Init => EndInv
<1> SUFFICES ASSUME Init PROVE EndInv
  OBVIOUS
<1>1. \A e \in Endpoints : table[e] = EmptyTable /\ log[e].ended = {}
  BY DEF Init
<1>2. \A e \in Endpoints : queue[e].reg = << >> /\ queue[e].syn = << >>
  BY DEF Init
<1>3. \A e \in Endpoints : ~Srv(e) => conn[e].lastSent = 0 /\ conn[e].nextId = 1
  BY Ends DEF Init
<1>4. EmptyTable.item = {}
  BY DEF EmptyTable
<1>5. ASSUME NEW e \in Endpoints
      PROVE  TableOK(table[e], log[e].ended) /\ QueueOK(e, queue[e], conn[e], log[e].ended)
  <2>1. TableOK(table[e], log[e].ended)
    BY <1>1, <1>4 DEF TableOK
  <2>2. ~Srv(e) => conn[e].lastSent < conn[e].nextId
    BY <1>3
  <2>3. QueueOK(e, queue[e], conn[e], log[e].ended)
    BY <1>1, <1>2, <2>2 DEF QueueOK, OnceEach
  <2> QED
    BY <2>1, <2>3
<1> QED
  BY <1>5 DEF EndInv

(* After END_STREAM or RST_STREAM went out on a stream, no step of either  *)
(* end sends HEADERS, DATA or PUSH_PROMISE on it any more, for every       *)
(* number of requests, pushes and resets: session_prep_frame turns down    *)
(* what still waits for it.                                                *)
THEOREM NothingSentAfterEnd == Spec => NothingAfterEnd
<1>1. Inv /\ EndInv /\ [Next]_vars => (Inv /\ EndInv)'
  BY NextInv, EndNext
<1>2. Inv /\ EndInv /\ [Next]_vars
        => [\A e \in Endpoints : Transmits(e) /\ Transmitted(e).id \in log[e].ended
                                   => Transmitted(e).type = "RST_STREAM"]_vars
  BY EndNext DEF NoneAfterEnd
<1>3. Init => Inv /\ EndInv
  BY InitInv, InitEnd
<1> QED
  BY <1>1, <1>2, <1>3, PTL DEF Spec, NothingAfterEnd
=============================================================================
