----------------------------- MODULE QuietProofs -----------------------------
(***************************************************************************)
(* QuietAgreement for every number of requests, pushes and resets and      *)
(* every limit: when nothing waits and nothing is under way, the two ends  *)
(* have the same streams open, and none of them is left closing.           *)
(*                                                                         *)
(* While the ends differ about a stream, something that will settle it is  *)
(* under way: the frame that opens it, the frame that ends it, or the      *)
(* RST_STREAM that waits for a stream marked closing.  The invariant says  *)
(* so of every stream, and which frames cannot be under way together.      *)
(***************************************************************************)
EXTENDS VerdictProofs

-----------------------------------------------------------------------------
(* What waits and what is under way                                        *)

LiveC(id) == Live(table["client"], id)
LiveS(id) == Live(table["server"], id)

Closing(e, id) == table[e].st[id] = "CLOSING"

(* The last frame a server sends on a stream; the frame that promises one. *)
LastFrame(f, id) == f.id = id /\ (f.type = "RST_STREAM" \/ (f.type \in {"HEADERS", "DATA"} /\ f.end))
Promise(f, id)   == f.type = "PUSH_PROMISE" /\ f.arg = id
Opener(f, id)    == f.type = "HEADERS" /\ f.id = id
Reset(f, id)     == f.type = "RST_STREAM" /\ f.id = id

RequestComes(id)  == \E f \in ToServer : Opener(f, id)
ResetComes(id)    == \E f \in ToServer : Reset(f, id)
EndComes(id)      == \E f \in ToClient : LastFrame(f, id)
PromiseComes(id)  == \E f \in ToClient : Promise(f, id)
RequestWaits(id)  == \E f \in Waiting : Opener(f, id)
ResponseWaits(id) == \E f \in ToSet(queue["server"].reg) : Opener(f, id)
PromiseWaits(id)  == \E f \in ToSet(queue["server"].reg) : Promise(f, id)
ResetWaits(e, id) == \E f \in ToSet(queue[e].syn) : f.id = id

(* A promise of id with no last frame of id behind it.                     *)
Unended(w, id) ==
  \E i \in DOMAIN w : Promise(w[i], id) /\ \A j \in DOMAIN w : j > i => ~LastFrame(w[j], id)

(* The promises of s name streams above from, in ascending order.          *)
PromisesRise(s, from, to) ==
  \A i \in DOMAIN s : s[i].type = "PUSH_PROMISE" =>
    /\ from < s[i].arg /\ s[i].arg < to
    /\ \A j \in DOMAIN s : j > i /\ s[j].type = "PUSH_PROMISE" => s[i].arg < s[j].arg

-----------------------------------------------------------------------------
(* The invariant                                                           *)

AtWork == \A e \in Endpoints : Running(e) /\ conn[e].goaway = {}

(* A stream the ends differ about is settled by something under way.       *)
Settled(id) ==
  /\ \A e \in Endpoints : Closing(e, id) => ResetWaits(e, id)
  /\ IsMine(FALSE, id) =>
       /\ LiveC(id) => \/ Closing("client", id) \/ LiveS(id) \/ RequestComes(id)
                       \/ EndComes(id) \/ ResetWaits("server", id)
       /\ LiveS(id) \/ (RequestComes(id) /\ conn["server"].lastRecv < id) => LiveC(id) \/ ResetComes(id)
  /\ IsMine(TRUE, id) =>
       /\ LiveC(id) => Closing("client", id) \/ LiveS(id) \/ EndComes(id)
       /\ LiveS(id) => \/ LiveC(id) \/ PromiseWaits(id) \/ PromiseComes(id)
                       \/ ResetComes(id) \/ ResetWaits("client", id)
  /\ PromiseWaits(id) => LiveS(id)
  /\ Unended(wire["client"], id) /\ conn["client"].lastRecv < id => LiveS(id)

(* What ends a stream is the last its sender says of it.                   *)
Final(id) ==
  /\ EndComes(id) => ~LiveS(id) /\ Given("server", conn["server"], id)
  /\ ResetComes(id) => ~LiveC(id) /\ Announced("client", conn["client"], id)

(* Identifiers are announced in order and streams half closed from birth.  *)
Orderly(id) ==
  /\ ResetWaits("client", id) /\ IsMine(TRUE, id) => id <= conn["client"].lastRecv
  /\ IsMine(FALSE, id) /\ id < conn["client"].nextId => id <= conn["client"].lastSent \/ RequestWaits(id)
  /\ PromiseComes(id) \/ (ResponseWaits(id) /\ IsMine(TRUE, id)) => id <= conn["server"].lastSent
  /\ LiveC(id) => id \in table["client"].wr
  /\ LiveS(id) => id \in table["server"].rd
  /\ id \in table["server"].wr => Given("server", conn["server"], id)

PromisesQueued == /\ PromisesRise(queue["server"].reg, conn["server"].lastSent, conn["server"].nextId)
                  /\ conn["server"].lastSent < conn["server"].nextId

RequestsWhole == \A f \in ToServer \cup Waiting : f.type # "DATA" /\ (IsHeaders(f) => f.end)

StreamsQuiet == \A id \in StreamIds : Settled(id) /\ Final(id) /\ Orderly(id)

QuietInv == AtWork => /\ StreamsQuiet /\ PromisesQueued /\ RequestsWhole
                      /\ conn["client"].lastRecv <= conn["server"].lastSent

-----------------------------------------------------------------------------
(* Sequences                                                               *)

LEMMA HeadAndTail ==
  ASSUME NEW S, NEW s \in Seq(S), s # << >>
  PROVE  ToSet(s) = ToSet(Tail(s)) \cup {Head(s)}
<1>1. PICK n \in Nat : n = Len(s) /\ DOMAIN s = 1 .. n /\ n > 0 OBVIOUS
<1>2. Tail(s) \in Seq(S) /\ Len(Tail(s)) = n - 1 /\ DOMAIN Tail(s) = 1 .. (n - 1) BY <1>1
<1>3. \A i \in 1 .. (n - 1) : Tail(s)[i] = s[i + 1] BY <1>1
<1>4. Head(s) = s[1] OBVIOUS
<1>5. ASSUME NEW i \in 1 .. n PROVE s[i] \in ToSet(Tail(s)) \cup {Head(s)}
  <2>1. CASE i = 1 BY <1>4, <2>1
  <2>2. CASE i # 1
    <3>1. i - 1 \in 1 .. (n - 1) /\ (i - 1) + 1 = i BY <1>1, <2>2
    <3>2. Tail(s)[i - 1] = s[i] BY <1>3, <3>1
    <3>3. QED BY <1>2, <3>1, <3>2 DEF ToSet
  <2>3. QED BY <2>1, <2>2
<1>6. ToSet(s) \subseteq ToSet(Tail(s)) \cup {Head(s)} BY <1>1, <1>5 DEF ToSet
<1>7. QED BY <1>6, Elements

LEMMA RiseTail ==
  ASSUME NEW S, NEW s \in Seq(S), s # << >>, NEW from, NEW to, PromisesRise(s, from, to)
  PROVE  /\ PromisesRise(Tail(s), from, to)
         /\ Head(s).type = "PUSH_PROMISE" => PromisesRise(Tail(s), Head(s).arg, to)
         /\ Head(s).type = "PUSH_PROMISE" => from < Head(s).arg /\ Head(s).arg < to
<1>1. /\ 1 \in DOMAIN s /\ Head(s) = s[1]
      /\ \A i \in DOMAIN Tail(s) : i \in Int /\ i + 1 \in DOMAIN s /\ i + 1 # 1 /\ Tail(s)[i] = s[i + 1]
  BY TailElements
<1>2. \A i \in DOMAIN Tail(s) : i > 0
  <2>1. PICK n \in Nat : DOMAIN Tail(s) = 1 .. n
    <3>1. Tail(s) \in Seq(S) OBVIOUS
    <3>2. QED BY <3>1
  <2>2. QED BY <2>1
<1>3. ASSUME NEW i \in DOMAIN Tail(s), Tail(s)[i].type = "PUSH_PROMISE"
      PROVE  /\ from < Tail(s)[i].arg /\ Tail(s)[i].arg < to
             /\ Head(s).type = "PUSH_PROMISE" => Head(s).arg < Tail(s)[i].arg
             /\ \A j \in DOMAIN Tail(s) : j > i /\ Tail(s)[j].type = "PUSH_PROMISE" => Tail(s)[i].arg < Tail(s)[j].arg
  <2>1. i + 1 \in DOMAIN s /\ Tail(s)[i] = s[i + 1] /\ i + 1 > 1 BY <1>1, <1>2
  <2>2. ASSUME NEW j \in DOMAIN Tail(s), j > i, Tail(s)[j].type = "PUSH_PROMISE"
        PROVE  Tail(s)[i].arg < Tail(s)[j].arg
    <3>1. j + 1 \in DOMAIN s /\ Tail(s)[j] = s[j + 1] /\ j + 1 > i + 1 BY <1>1, <2>2
    <3>2. QED BY <1>3, <2>1, <2>2, <3>1 DEF PromisesRise
  <2>3. QED BY <1>1, <1>3, <2>1, <2>2 DEF PromisesRise
<1>4. QED BY <1>1, <1>3 DEF PromisesRise

LEMMA RiseAppend ==
  ASSUME NEW S, NEW s \in Seq(S), NEW f, NEW from \in Int, NEW to \in Int, NEW past \in Int,
         PromisesRise(s, from, to), to <= past, \A i \in DOMAIN s : s[i].arg \in Int,
         f.type = "PUSH_PROMISE" => f.arg \in Int /\ from < f.arg /\ to <= f.arg /\ f.arg < past
  PROVE  PromisesRise(Append(s, f), from, past)
<1> DEFINE a == Append(s, f)
<1>1. PICK n \in Nat : n = Len(s) /\ DOMAIN s = 1 .. n OBVIOUS
<1>2. DOMAIN a = 1 .. (n + 1) /\ a[n + 1] = f /\ \A i \in 1 .. n : a[i] = s[i] BY <1>1
<1> HIDE DEF a
<1>3. ASSUME NEW i \in 1 .. (n + 1), a[i].type = "PUSH_PROMISE"
      PROVE  /\ from < a[i].arg /\ a[i].arg < past
             /\ \A j \in 1 .. (n + 1) : j > i /\ a[j].type = "PUSH_PROMISE" => a[i].arg < a[j].arg
  <2>1. CASE i = n + 1
    <3>1. \A j \in 1 .. (n + 1) : ~(j > i) BY <2>1
    <3>2. QED BY <1>2, <1>3, <2>1, <3>1
  <2>2. CASE i # n + 1
    <3>1. i \in 1 .. n /\ a[i] = s[i] BY <1>2, <2>2
    <3>2. s[i].arg \in Int /\ from < s[i].arg /\ s[i].arg < to BY <1>1, <1>3, <3>1 DEF PromisesRise
    <3>3. ASSUME NEW j \in 1 .. (n + 1), j > i, a[j].type = "PUSH_PROMISE" PROVE a[i].arg < a[j].arg
      <4>1. CASE j = n + 1 BY <1>2, <3>1, <3>2, <3>3, <4>1
      <4>2. CASE j # n + 1
        <5>1. j \in 1 .. n /\ a[j] = s[j] BY <1>2, <4>2
        <5>2. QED BY <1>1, <1>3, <3>1, <3>3, <5>1 DEF PromisesRise
      <4>3. QED BY <4>1, <4>2
    <3>4. QED BY <3>1, <3>2, <3>3
  <2>3. QED BY <2>1, <2>2
<1>4. QED BY <1>2, <1>3 DEF PromisesRise, a

LEMMA UnendedAppend ==
  ASSUME NEW S, NEW s \in Seq(S), NEW f, NEW id, Unended(Append(s, f), id)
  PROVE  Promise(f, id) \/ (Unended(s, id) /\ ~LastFrame(f, id))
<1> DEFINE a == Append(s, f)
<1>1. PICK n \in Nat : n = Len(s) /\ DOMAIN s = 1 .. n OBVIOUS
<1>2. DOMAIN a = 1 .. (n + 1) /\ a[n + 1] = f /\ \A i \in 1 .. n : a[i] = s[i] BY <1>1
<1> HIDE DEF a
<1>3. PICK i \in 1 .. (n + 1) : Promise(a[i], id) /\ \A j \in 1 .. (n + 1) : j > i => ~LastFrame(a[j], id)
  BY <1>2 DEF Unended, a
<1>4. CASE i = n + 1 BY <1>2, <1>3, <1>4
<1>5. CASE i # n + 1
  <2>1. i \in 1 .. n /\ n + 1 > i /\ \A j \in 1 .. n : j \in 1 .. (n + 1) BY <1>5
  <2>2. ~LastFrame(f, id) BY <1>2, <1>3, <2>1
  <2>3. Promise(s[i], id) /\ \A j \in 1 .. n : j > i => ~LastFrame(s[j], id) BY <1>2, <1>3, <2>1
  <2>4. QED BY <1>1, <2>1, <2>2, <2>3 DEF Unended
<1>6. QED BY <1>4, <1>5

LEMMA UnendedTail ==
  ASSUME NEW S, NEW s \in Seq(S), s # << >>, NEW id
  PROVE  /\ Unended(Tail(s), id) => Unended(s, id)
         /\ Promise(Head(s), id) => Unended(s, id) \/ \E f \in ToSet(Tail(s)) : LastFrame(f, id)
<1>1. PICK n \in Nat : n = Len(s) /\ DOMAIN s = 1 .. n /\ n > 0 OBVIOUS
<1>2. Tail(s) \in Seq(S) /\ DOMAIN Tail(s) = 1 .. (n - 1) /\ Head(s) = s[1] BY <1>1
<1>3. \A i \in 1 .. (n - 1) : Tail(s)[i] = s[i + 1] BY <1>1
<1>4. \A j \in 1 .. n : j > 1 => j - 1 \in 1 .. (n - 1) /\ Tail(s)[j - 1] = s[j] BY <1>1, <1>3
<1>5. ASSUME Unended(Tail(s), id) PROVE Unended(s, id)
  <2>1. PICK i \in 1 .. (n - 1) : Promise(Tail(s)[i], id) /\ \A j \in 1 .. (n - 1) : j > i => ~LastFrame(Tail(s)[j], id)
    BY <1>2, <1>5 DEF Unended
  <2>0. i + 1 \in 1 .. n BY <1>1
  <2>2. i + 1 \in 1 .. n /\ Promise(s[i + 1], id)
    <3>1. Tail(s)[i] = s[i + 1] BY <1>3
    <3>2. QED BY <2>0, <2>1, <3>1
  <2>3. ASSUME NEW j \in 1 .. n, j > i + 1 PROVE ~LastFrame(s[j], id)
    <3>1. j > 1 /\ j - 1 > i BY <2>3
    <3>2. QED BY <1>4, <2>1, <3>1
  <2>4. QED BY <1>1, <2>2, <2>3 DEF Unended
<1>6. ASSUME Promise(Head(s), id), ~Unended(s, id) PROVE \E f \in ToSet(Tail(s)) : LastFrame(f, id)
  <2>1. 1 \in DOMAIN s /\ Promise(s[1], id) BY <1>1, <1>2, <1>6
  <2>2. PICK j \in 1 .. n : j > 1 /\ LastFrame(s[j], id) BY <1>1, <1>6, <2>1 DEF Unended
  <2>3. j - 1 \in DOMAIN Tail(s) /\ LastFrame(Tail(s)[j - 1], id) BY <1>2, <1>4, <2>2
  <2>4. Tail(s)[j - 1] \in ToSet(Tail(s)) BY <2>3 DEF ToSet
  <2>5. QED BY <2>3, <2>4
<1>7. QED BY <1>5, <1>6

-----------------------------------------------------------------------------
(* Steps of one end                                                        *)

(* What a step of the server may change.                                   *)
ServerStepOn(id) ==
  /\ LiveS(id)' => \/ LiveS(id)
                   \/ IsMine(FALSE, id) /\ RequestComes(id) /\ conn["server"].lastRecv < id
                   \/ IsMine(TRUE, id) /\ conn["server"].nextId <= id /\ PromiseWaits(id)'
  /\ LiveS(id) /\ ~LiveS(id)' => \/ EndComes(id)' /\ ~Unended(wire["client"], id)' /\ ~PromiseWaits(id)'
                                 \/ ResetComes(id)
                                 \/ PromiseWaits(id) /\ ~PromiseWaits(id)'
  /\ EndComes(id) => EndComes(id)'
  /\ EndComes(id)' => EndComes(id) \/ (~LiveS(id)' /\ Given("server", conn'["server"], id))
  /\ RequestComes(id) => \/ RequestComes(id)' \/ LiveS(id)' \/ EndComes(id)' \/ ResetWaits("server", id)'
  /\ ResetComes(id) => \/ ResetComes(id)'
                       \/ ~LiveS(id)' /\ (IsMine(FALSE, id) => id <= conn'["server"].lastRecv)
  /\ ResetWaits("server", id) => ResetWaits("server", id)' \/ EndComes(id)'
  /\ Closing("server", id)' => ResetWaits("server", id)'
  /\ PromiseWaits(id)' => PromiseWaits(id) \/ LiveS(id)'
  /\ PromiseWaits(id) => PromiseWaits(id)' \/ PromiseComes(id)' \/ ~LiveS(id)'
  /\ PromiseComes(id) => PromiseComes(id)'
  /\ PromiseComes(id)' => PromiseComes(id) \/ id <= conn'["server"].lastSent
  /\ Unended(wire["client"], id)' => Unended(wire["client"], id) \/ LiveS(id)'
  /\ ResponseWaits(id)' /\ IsMine(TRUE, id) => id <= conn'["server"].lastSent
  /\ LiveS(id)' => id \in table'["server"].rd
  /\ id \in table'["server"].wr => id \in table["server"].wr \/ LiveS(id)

ServerStepQuiet ==
  /\ Apart("server") /\ Later(conn'["server"], conn["server"])
  /\ ToServer' \subseteq ToServer
  /\ PromisesQueued'
  /\ \A id \in StreamIds : ServerStepOn(id)

(* What a step of the client may change.                                   *)
ClientStepOn(id) ==
  /\ LiveC(id)' => \/ LiveC(id)
                   \/ IsMine(FALSE, id) /\ conn["client"].lastSent < id /\ RequestComes(id)'
                   \/ /\ IsMine(TRUE, id) /\ conn["client"].lastRecv < id
                      /\ EndComes(id)' \/ Unended(wire["client"], id)
  /\ LiveC(id) /\ ~LiveC(id)' => EndComes(id) \/ ResetComes(id)'
  /\ LiveC(id) /\ Closing("client", id) => ~LiveC(id)' \/ Closing("client", id)'
  /\ EndComes(id)' => EndComes(id)
  /\ EndComes(id) => EndComes(id)' \/ ~LiveC(id)' \/ Closing("client", id)'
  /\ RequestComes(id) => RequestComes(id)'
  /\ RequestComes(id)' => RequestComes(id) \/ LiveC(id)'
  /\ ResetComes(id) => ResetComes(id)'
  /\ ResetComes(id)' => ResetComes(id) \/ (~LiveC(id)' /\ Announced("client", conn'["client"], id))
  /\ ResetWaits("client", id) => ResetWaits("client", id)' \/ ResetComes(id)'
  /\ Closing("client", id)' => ResetWaits("client", id)'
  /\ ResetWaits("client", id)' /\ IsMine(TRUE, id) => id <= conn'["client"].lastRecv
  /\ PromiseComes(id)' => PromiseComes(id)
  /\ PromiseComes(id) => PromiseComes(id)' \/ LiveC(id)' \/ ResetWaits("client", id)'
  /\ Unended(wire["client"], id)' => Unended(wire["client"], id)
  /\ IsMine(FALSE, id) /\ id < conn'["client"].nextId => id <= conn'["client"].lastSent \/ RequestWaits(id)'
  /\ LiveC(id)' => id \in table'["client"].wr

ClientStepQuiet ==
  /\ Apart("client") /\ Later(conn'["client"], conn["client"])
  /\ RequestsWhole'
  /\ conn'["client"].lastRecv <= conn["server"].lastSent
  /\ \A id \in StreamIds : ClientStepOn(id)

LEMMA Counters ==
  ASSUME Inv, NEW e \in Endpoints
  PROVE  /\ conn[e].lastRecv \in Int /\ conn[e].lastSent \in Int /\ conn[e].nextId \in Int
         /\ \A id \in StreamIds : id \in Int
<1>1. conn[e] \in Conn BY Place
<1>2. QED BY <1>1 DEF Conn, StreamIds

LEMMA PromisedEven ==
  ASSUME Inv, NEW id
  PROVE  (PromiseWaits(id) => IsMine(TRUE, id)) /\ (PromiseComes(id) => IsMine(TRUE, id))
<1>1. queue["server"] \in Queues("server") /\ wire["client"] \in Seq(FramesTo("client"))
  BY Ends, Place, Here DEF WiresOK
<1>2. /\ \A f \in ToSet(queue["server"].reg) : f \in RegFrames("server")
      /\ \A f \in ToClient : f \in FramesTo("client")
  BY <1>1 DEF ToClient, ToSet, Queues
<1>3. QED BY <1>2, Ends, FrameFacts DEF PromiseWaits, PromiseComes, Promise

LEMMA ServerQuiet ==
  ASSUME Inv, Inv', QuietInv, AtWork, ServerStepQuiet
  PROVE  QuietInv'
<1>0. /\ StreamsQuiet /\ PromisesQueued /\ RequestsWhole /\ conn["client"].lastRecv <= conn["server"].lastSent
  BY DEF QuietInv
<1> DEFINE s == conn["server"]
           c == conn["client"]
<1>1. /\ table'["client"] = table["client"] /\ queue'["client"] = queue["client"] /\ c' = c
      /\ Later(s', s)
  BY Ends DEF ServerStepQuiet, Apart
<1>2. /\ s.lastRecv \in Int /\ s.lastSent \in Int /\ s.nextId \in Int
      /\ s'.lastRecv \in Int /\ s'.lastSent \in Int /\ s'.nextId \in Int
      /\ c.lastRecv \in Int /\ c.lastSent \in Int /\ c.nextId \in Int
  <2>1. s' \in Conn BY Ends DEF Inv, TypeOK
  <2>2. QED BY <2>1, Ends, Counters DEF Conn
<1>3. s.lastRecv <= s'.lastRecv /\ s.lastSent <= s'.lastSent /\ s.nextId <= s'.nextId
  BY <1>1, <1>2 DEF Later
<1> HIDE DEF s, c
<1>4. ASSUME NEW id \in StreamIds PROVE Settled(id)' /\ Final(id)' /\ Orderly(id)'
  <2>1. ServerStepOn(id) /\ Settled(id) /\ Final(id) /\ Orderly(id) /\ id \in Int
    BY <1>0, Ends, Counters DEF ServerStepQuiet, StreamsQuiet
  <2>2. IsMine(TRUE, id) <=> ~IsMine(FALSE, id) BY Parity DEF IsMine
  <2>3. /\ LiveC(id)' = LiveC(id) /\ Closing("client", id)' = Closing("client", id)
        /\ ResetWaits("client", id)' = ResetWaits("client", id) /\ RequestWaits(id)' = RequestWaits(id)
    BY <1>1 DEF LiveC, Closing, ResetWaits, RequestWaits, Waiting
  <2>4. (RequestComes(id)' => RequestComes(id)) /\ (ResetComes(id)' => ResetComes(id))
    BY DEF ServerStepQuiet, RequestComes, ResetComes
  <2>5. PromiseWaits(id) => s.lastSent < id
    BY <1>0 DEF PromisesQueued, PromisesRise, PromiseWaits, Promise, ToSet, s
  <2>6. Given("server", s, id) <=> IF IsMine(FALSE, id) THEN id <= s.lastRecv ELSE id < s.nextId
    BY <2>2, Ends DEF Given, Announced
  <2>7. Given("server", s', id) <=> IF IsMine(FALSE, id) THEN id <= s'.lastRecv ELSE id < s'.nextId
    BY <2>2, Ends DEF Given, Announced
  <2>8. Announced("client", c, id) <=> IF IsMine(FALSE, id) THEN id <= c.lastSent ELSE id <= c.lastRecv
    BY <2>2, Ends DEF Announced
  <2>9. LiveC(id) => Announced("client", c, id)
    BY Ends, Here DEF LiveC, Live, Known, c
  <2>14. (PromiseWaits(id) => IsMine(TRUE, id)) /\ (PromiseComes(id) => IsMine(TRUE, id))
    BY PromisedEven
  <2>15. Unended(wire["client"], id) => PromiseComes(id)
    BY DEF Unended, PromiseComes, ToClient, ToSet
  <2>10. /\ Given("server", s, id) => Given("server", s', id)
         /\ Given("server", s, id) /\ IsMine(FALSE, id) => ~(s.lastRecv < id)
         /\ Given("server", s, id) /\ IsMine(TRUE, id) => ~(s.nextId <= id)
         /\ id <= s.lastRecv => id <= s'.lastRecv
         /\ id <= s.lastSent => id <= s'.lastSent
         /\ PromiseWaits(id) => c.lastRecv < id /\ ~(id <= s.lastSent)
         /\ Announced("client", c, id) /\ IsMine(TRUE, id) => ~(c.lastRecv < id) /\ id <= s.lastSent
         /\ s'.lastRecv < id => s.lastRecv < id
         /\ id <= s'.lastRecv => ~(s'.lastRecv < id)
    <3>1. c.lastRecv <= s.lastSent BY <1>0 DEF c, s
    <3>2. /\ id <= s.lastRecv => ~(s.lastRecv < id) /\ id <= s'.lastRecv
          /\ id < s.nextId => ~(s.nextId <= id) /\ id < s'.nextId
          /\ id <= s.lastSent => id <= s'.lastSent
          /\ s.lastSent < id => c.lastRecv < id /\ ~(id <= s.lastSent)
          /\ id <= c.lastRecv => ~(c.lastRecv < id) /\ id <= s.lastSent
          /\ s'.lastRecv < id => s.lastRecv < id
          /\ id <= s'.lastRecv => ~(s'.lastRecv < id)
      BY <1>2, <1>3, <2>1, <3>1
    <3>3. QED BY <2>2, <2>5, <2>6, <2>7, <2>8, <3>2
  <2>11. Final(id)'
    <3>1. EndComes(id)' => ~LiveS(id)'
      BY <2>1, <2>2, <2>10 DEF Final, ServerStepOn, s
    <3>2. EndComes(id)' => Given("server", s', id)
      BY <2>1, <2>10 DEF Final, ServerStepOn, s
    <3>3. ResetComes(id)' => ~LiveC(id)' /\ Announced("client", c', id)
      BY <1>1, <2>1, <2>3, <2>4 DEF Final, c
    <3>4. QED BY <3>1, <3>2, <3>3 DEF Final, s, c
  <2>12. Orderly(id)'
    <3>1. PromiseComes(id)' => id <= s'.lastSent BY <2>1, <2>10 DEF Orderly, ServerStepOn, s
    <3>2. ResponseWaits(id)' /\ IsMine(TRUE, id) => id <= s'.lastSent BY <2>1 DEF ServerStepOn, s
    <3>3. LiveC(id)' => id \in table'["client"].wr BY <1>1, <2>1, <2>3 DEF Orderly
    <3>4. LiveS(id)' => id \in table'["server"].rd BY <2>1 DEF ServerStepOn
    <3>5. /\ ResetWaits("client", id)' /\ IsMine(TRUE, id) => id <= c'.lastRecv
          /\ IsMine(FALSE, id) /\ id < c'.nextId => id <= c'.lastSent \/ RequestWaits(id)'
      BY <1>1, <2>1, <2>3 DEF Orderly, c
    <3>6. id \in table'["server"].wr => Given("server", s', id)
      <4>1. LiveS(id) => Given("server", s, id)
        BY Ends, Here DEF LiveS, Live, Known, Given, s
      <4>2. QED BY <2>1, <2>10, <4>1 DEF Orderly, ServerStepOn, s
    <3>7. QED BY <3>1, <3>2, <3>3, <3>4, <3>5, <3>6 DEF Orderly, s, c
  <2>13. Settled(id)'
    <3>1. ASSUME NEW e \in Endpoints, Closing(e, id)' PROVE ResetWaits(e, id)'
      <4>1. CASE e = "server" BY <2>1, <3>1, <4>1 DEF ServerStepOn
      <4>2. CASE e = "client" BY <2>1, <2>3, <3>1, <4>2 DEF Settled
      <4>3. QED BY <4>1, <4>2 DEF Endpoints
    <3>2. ASSUME IsMine(FALSE, id), LiveC(id)'
          PROVE  \/ Closing("client", id)' \/ LiveS(id)' \/ RequestComes(id)'
                 \/ EndComes(id)' \/ ResetWaits("server", id)'
      BY <2>1, <2>2, <2>3, <2>10, <2>14, <3>2 DEF Settled, ServerStepOn, Final
    <3>3. ASSUME IsMine(FALSE, id), LiveS(id)' \/ (RequestComes(id)' /\ s'.lastRecv < id)
          PROVE  LiveC(id)' \/ ResetComes(id)'
      BY <2>1, <2>2, <2>3, <2>4, <2>10, <3>3 DEF Settled, ServerStepOn, s
    <3>4. ASSUME IsMine(TRUE, id), LiveC(id)'
          PROVE  Closing("client", id)' \/ LiveS(id)' \/ EndComes(id)'
      BY <2>1, <2>2, <2>3, <2>9, <2>10, <2>14, <3>4 DEF Settled, ServerStepOn, Final
    <3>5. ASSUME IsMine(TRUE, id), LiveS(id)'
          PROVE  \/ LiveC(id)' \/ PromiseWaits(id)' \/ PromiseComes(id)'
                 \/ ResetComes(id)' \/ ResetWaits("client", id)'
      BY <2>1, <2>2, <2>3, <2>10, <3>5 DEF Settled, ServerStepOn
    <3>6. PromiseWaits(id)' => LiveS(id)'
      BY <2>1, <2>2, <2>10, <2>14 DEF Settled, ServerStepOn, Final, c
    <3>7. Unended(wire["client"], id)' /\ c'.lastRecv < id => LiveS(id)'
      BY <1>1, <2>1, <2>2, <2>10, <2>14, <2>15 DEF Settled, ServerStepOn, Final, Orderly, c, s
    <3>8. QED BY <3>1, <3>2, <3>3, <3>4, <3>5, <3>6, <3>7 DEF Settled, s, c
  <2>16. QED BY <2>11, <2>12, <2>13
<1>5. RequestsWhole'
  <2>1. Waiting' = Waiting BY <1>1 DEF Waiting
  <2>2. QED BY <1>0, <2>1 DEF ServerStepQuiet, RequestsWhole
<1>6. c'.lastRecv <= s'.lastSent BY <1>0, <1>1, <1>2, <1>3 DEF c, s
<1>7. QED BY <1>4, <1>5, <1>6 DEF QuietInv, StreamsQuiet, ServerStepQuiet, c, s

LEMMA ClientQuiet ==
  ASSUME Inv, Inv', QuietInv, AtWork, ClientStepQuiet
  PROVE  QuietInv'
<1>0. /\ StreamsQuiet /\ PromisesQueued /\ RequestsWhole /\ conn["client"].lastRecv <= conn["server"].lastSent
  BY DEF QuietInv
<1> DEFINE s == conn["server"]
           c == conn["client"]
<1>1. /\ table'["server"] = table["server"] /\ queue'["server"] = queue["server"] /\ s' = s
      /\ Later(c', c)
  BY Ends DEF ClientStepQuiet, Apart
<1>2. /\ s.lastRecv \in Int /\ s.lastSent \in Int /\ s.nextId \in Int
      /\ c'.lastRecv \in Int /\ c'.lastSent \in Int /\ c'.nextId \in Int
      /\ c.lastRecv \in Int /\ c.lastSent \in Int /\ c.nextId \in Int
  <2>1. c' \in Conn BY Ends DEF Inv, TypeOK
  <2>2. QED BY <2>1, Ends, Counters DEF Conn
<1>3. c.lastRecv <= c'.lastRecv /\ c.lastSent <= c'.lastSent BY <1>1, <1>2 DEF Later
<1> HIDE DEF s, c
<1>4. ASSUME NEW id \in StreamIds PROVE Settled(id)' /\ Final(id)' /\ Orderly(id)'
  <2>1. ClientStepOn(id) /\ Settled(id) /\ Final(id) /\ Orderly(id) /\ id \in Int
    BY <1>0, Ends, Counters DEF ClientStepQuiet, StreamsQuiet
  <2>2. IsMine(TRUE, id) <=> ~IsMine(FALSE, id) BY Parity DEF IsMine
  <2>3. /\ LiveS(id)' = LiveS(id) /\ Closing("server", id)' = Closing("server", id)
        /\ ResetWaits("server", id)' = ResetWaits("server", id)
        /\ PromiseWaits(id)' = PromiseWaits(id) /\ ResponseWaits(id)' = ResponseWaits(id)
    BY <1>1 DEF LiveS, Closing, ResetWaits, PromiseWaits, ResponseWaits
  <2>4. Given("server", s, id) <=> IF IsMine(FALSE, id) THEN id <= s.lastRecv ELSE id < s.nextId
    BY <2>2, Ends DEF Given, Announced
  <2>5. Announced("client", c, id) <=> IF IsMine(FALSE, id) THEN id <= c.lastSent ELSE id <= c.lastRecv
    BY <2>2, Ends DEF Announced
  <2>6. Announced("client", c', id) <=> IF IsMine(FALSE, id) THEN id <= c'.lastSent ELSE id <= c'.lastRecv
    BY <2>2, Ends DEF Announced
  <2>7. /\ Announced("client", c, id) => Announced("client", c', id)
        /\ Announced("client", c, id) /\ IsMine(FALSE, id) => ~(c.lastSent < id)
        /\ Announced("client", c, id) /\ IsMine(TRUE, id) => ~(c.lastRecv < id)
        /\ Given("server", s, id) /\ IsMine(FALSE, id) => ~(s.lastRecv < id)
        /\ c'.lastRecv < id => c.lastRecv < id
    <3>1. /\ id <= c.lastSent => id <= c'.lastSent /\ ~(c.lastSent < id)
          /\ id <= c.lastRecv => id <= c'.lastRecv /\ ~(c.lastRecv < id)
          /\ id <= s.lastRecv => ~(s.lastRecv < id)
          /\ c'.lastRecv < id => c.lastRecv < id
      BY <1>2, <1>3, <2>1
    <3>2. QED BY <2>2, <2>4, <2>5, <2>6, <3>1
  <2>8. Final(id)'
    <3>1. EndComes(id)' => ~LiveS(id)' /\ Given("server", s', id)
      BY <1>1, <2>1, <2>3 DEF Final, ClientStepOn, s
    <3>2. ResetComes(id)' => ~LiveC(id)' /\ Announced("client", c', id)
      BY <2>1, <2>2, <2>7 DEF Final, ClientStepOn, c
    <3>3. QED BY <3>1, <3>2 DEF Final, s, c
  <2>9. Orderly(id)'
    <3>1. /\ PromiseComes(id)' \/ (ResponseWaits(id)' /\ IsMine(TRUE, id)) => id <= s'.lastSent
          /\ LiveS(id)' => id \in table'["server"].rd
          /\ id \in table'["server"].wr => Given("server", s', id)
      BY <1>1, <2>1, <2>3 DEF Orderly, ClientStepOn, s
    <3>2. QED BY <2>1, <3>1 DEF Orderly, ClientStepOn, s, c
  <2>10. Settled(id)'
    <3>1. ASSUME NEW e \in Endpoints, Closing(e, id)' PROVE ResetWaits(e, id)'
      <4>1. CASE e = "client" BY <2>1, <3>1, <4>1 DEF ClientStepOn
      <4>2. CASE e = "server" BY <2>1, <2>3, <3>1, <4>2 DEF Settled
      <4>3. QED BY <4>1, <4>2 DEF Endpoints
    <3>2. ASSUME IsMine(FALSE, id), LiveC(id)'
          PROVE  \/ Closing("client", id)' \/ LiveS(id)' \/ RequestComes(id)'
                 \/ EndComes(id)' \/ ResetWaits("server", id)'
      BY <2>1, <2>2, <2>3, <3>2 DEF Settled, ClientStepOn
    <3>3. ASSUME IsMine(FALSE, id), LiveS(id)' \/ (RequestComes(id)' /\ s'.lastRecv < id)
          PROVE  LiveC(id)' \/ ResetComes(id)'
      BY <1>1, <2>1, <2>2, <2>3, <2>7, <3>3 DEF Settled, ClientStepOn, Final, s
    <3>4. ASSUME IsMine(TRUE, id), LiveC(id)'
          PROVE  Closing("client", id)' \/ LiveS(id)' \/ EndComes(id)'
      BY <2>1, <2>2, <2>3, <3>4 DEF Settled, ClientStepOn
    <3>5. ASSUME IsMine(TRUE, id), LiveS(id)'
          PROVE  \/ LiveC(id)' \/ PromiseWaits(id)' \/ PromiseComes(id)'
                 \/ ResetComes(id)' \/ ResetWaits("client", id)'
      BY <2>1, <2>2, <2>3, <3>5 DEF Settled, ClientStepOn, Final
    <3>6. PromiseWaits(id)' => LiveS(id)' BY <2>1, <2>3 DEF Settled
    <3>7. Unended(wire["client"], id)' /\ c'.lastRecv < id => LiveS(id)'
      BY <2>1, <2>3, <2>7 DEF Settled, ClientStepOn, c
    <3>8. QED BY <3>1, <3>2, <3>3, <3>4, <3>5, <3>6, <3>7 DEF Settled, s, c
  <2>11. QED BY <2>8, <2>9, <2>10
<1>5. PromisesQueued' BY <1>0, <1>1 DEF PromisesQueued, s
<1>6. c'.lastRecv <= s'.lastSent BY <1>1 DEF ClientStepQuiet, c, s
<1>7. QED BY <1>4, <1>5, <1>6 DEF QuietInv, StreamsQuiet, ClientStepQuiet, c, s

-----------------------------------------------------------------------------
(* What sending and receiving a frame does to what is under way            *)

LEMMA WireStill ==
  ASSUME UNCHANGED wire, NEW id
  PROVE  /\ EndComes(id)' <=> EndComes(id)
         /\ PromiseComes(id)' <=> PromiseComes(id)
         /\ RequestComes(id)' <=> RequestComes(id)
         /\ ResetComes(id)' <=> ResetComes(id)
         /\ Unended(wire["client"], id)' <=> Unended(wire["client"], id)
         /\ ToServer' = ToServer /\ ToClient' = ToClient
<1>1. ToServer' = ToServer /\ ToClient' = ToClient /\ wire'["client"] = wire["client"] BY DEF ToServer, ToClient
<1>2. QED BY <1>1 DEF EndComes, PromiseComes, RequestComes, ResetComes, Unended

LEMMA ServerSends ==
  ASSUME Inv, NEW f, Transmit("server", f), NEW id
  PROVE  /\ EndComes(id)' <=> EndComes(id) \/ LastFrame(f, id)
         /\ PromiseComes(id)' <=> PromiseComes(id) \/ Promise(f, id)
         /\ Unended(wire["client"], id)' => \/ Promise(f, id)
                                            \/ Unended(wire["client"], id) /\ ~LastFrame(f, id)
         /\ RequestComes(id)' <=> RequestComes(id)
         /\ ResetComes(id)' <=> ResetComes(id)
         /\ ToServer' = ToServer
<1>1. ToClient' = ToClient \cup {f} /\ ToServer' = ToServer
  BY WireMoves, Ends DEF ToClient, ToServer
<1>2. wire["client"] \in Seq(FramesTo("client")) /\ wire'["client"] = Append(wire["client"], f)
  BY Ends DEF Inv, TypeOK, Transmit
<1>3. Unended(wire["client"], id)' => \/ Promise(f, id)
                                      \/ Unended(wire["client"], id) /\ ~LastFrame(f, id)
  <2>1. Unended(Append(wire["client"], f), id) => \/ Promise(f, id)
                                                  \/ Unended(wire["client"], id) /\ ~LastFrame(f, id)
    BY <1>2, UnendedAppend, Zenon
  <2>2. Unended(wire["client"], id)' => Unended(Append(wire["client"], f), id) BY <1>2 DEF Unended
  <2>3. QED BY <2>1, <2>2
<1>4. /\ EndComes(id)' <=> EndComes(id) \/ LastFrame(f, id)
      /\ PromiseComes(id)' <=> PromiseComes(id) \/ Promise(f, id)
      /\ RequestComes(id)' <=> RequestComes(id)
      /\ ResetComes(id)' <=> ResetComes(id)
  BY <1>1 DEF EndComes, PromiseComes, RequestComes, ResetComes
<1>5. QED BY <1>1, <1>3, <1>4

LEMMA ClientSends ==
  ASSUME Inv, NEW f, Transmit("client", f), NEW id
  PROVE  /\ EndComes(id)' <=> EndComes(id)
         /\ PromiseComes(id)' <=> PromiseComes(id)
         /\ Unended(wire["client"], id)' <=> Unended(wire["client"], id)
         /\ RequestComes(id)' <=> RequestComes(id) \/ Opener(f, id)
         /\ ResetComes(id)' <=> ResetComes(id) \/ Reset(f, id)
         /\ ToServer' = ToServer \cup {f}
<1>1. ToServer' = ToServer \cup {f} /\ ToClient' = ToClient /\ wire'["client"] = wire["client"]
  BY WireMoves, Ends DEF ToClient, ToServer
<1>2. /\ EndComes(id)' <=> EndComes(id)
      /\ PromiseComes(id)' <=> PromiseComes(id)
      /\ RequestComes(id)' <=> RequestComes(id) \/ Opener(f, id)
      /\ ResetComes(id)' <=> ResetComes(id) \/ Reset(f, id)
  BY <1>1 DEF EndComes, PromiseComes, RequestComes, ResetComes
<1>3. QED BY <1>1, <1>2 DEF Unended

LEMMA Hears ==
  ASSUME Inv, NEW e \in Endpoints, NEW type, Arrives(e, type)
  PROVE  /\ ToSet(wire[e]) = ToSet(wire'[e]) \cup {Head(wire[e])}
         /\ wire[e] \in Seq(FramesTo(e)) /\ wire[e] # << >> /\ wire'[e] = Tail(wire[e])
         /\ wire'[Peer(e)] = wire[Peer(e)]
<1>1. wire[e] \in Seq(FramesTo(e)) /\ wire[e] # << >> /\ wire'[e] = Tail(wire[e]) BY DEF Arrives, Inv, TypeOK
<1>2. ToSet(wire[e]) = ToSet(Tail(wire[e])) \cup {Head(wire[e])} BY <1>1, HeadAndTail, Zenon
<1>3. QED BY <1>1, <1>2, Received

LEMMA ServerHears ==
  ASSUME Inv, NEW type, Arrives("server", type), NEW id
  PROVE  /\ EndComes(id)' <=> EndComes(id)
         /\ PromiseComes(id)' <=> PromiseComes(id)
         /\ Unended(wire["client"], id)' <=> Unended(wire["client"], id)
         /\ RequestComes(id) <=> RequestComes(id)' \/ Opener(Head(wire["server"]), id)
         /\ ResetComes(id) <=> ResetComes(id)' \/ Reset(Head(wire["server"]), id)
         /\ ToServer' \subseteq ToServer /\ Head(wire["server"]) \in ToServer
<1>1. ToServer = ToServer' \cup {Head(wire["server"])} /\ wire'["client"] = wire["client"]
  BY Hears, Ends DEF ToServer
<1>2. ToClient' = ToClient BY <1>1 DEF ToClient
<1>3. QED BY <1>1, <1>2 DEF EndComes, PromiseComes, RequestComes, ResetComes, Unended

LEMMA ClientHears ==
  ASSUME Inv, NEW type, Arrives("client", type), NEW id
  PROVE  /\ EndComes(id) <=> EndComes(id)' \/ LastFrame(Head(wire["client"]), id)
         /\ PromiseComes(id) <=> PromiseComes(id)' \/ Promise(Head(wire["client"]), id)
         /\ Unended(wire["client"], id)' => Unended(wire["client"], id)
         /\ Promise(Head(wire["client"]), id) => Unended(wire["client"], id) \/ EndComes(id)'
         /\ RequestComes(id)' <=> RequestComes(id)
         /\ ResetComes(id)' <=> ResetComes(id)
         /\ ToServer' = ToServer
<1> DEFINE f == Head(wire["client"])
<1>1. /\ ToClient = ToClient' \cup {f} /\ wire'["server"] = wire["server"]
      /\ wire["client"] \in Seq(FramesTo("client")) /\ wire["client"] # << >>
      /\ wire'["client"] = Tail(wire["client"])
  BY Hears, Ends DEF ToClient
<1>2. ToServer' = ToServer BY <1>1 DEF ToServer
<1>3. /\ Unended(Tail(wire["client"]), id) => Unended(wire["client"], id)
      /\ Promise(f, id) => Unended(wire["client"], id) \/ \E g \in ToSet(Tail(wire["client"])) : LastFrame(g, id)
  BY <1>1, UnendedTail, Zenon
<1>4. Unended(wire["client"], id)' => Unended(Tail(wire["client"]), id) BY <1>1 DEF Unended
<1>5. (\E g \in ToSet(Tail(wire["client"])) : LastFrame(g, id)) => EndComes(id)' BY <1>1 DEF EndComes, ToClient
<1> HIDE DEF f
<1>6. /\ EndComes(id) <=> EndComes(id)' \/ LastFrame(f, id)
      /\ PromiseComes(id) <=> PromiseComes(id)' \/ Promise(f, id)
  BY <1>1 DEF EndComes, PromiseComes
<1>7. RequestComes(id)' <=> RequestComes(id) BY <1>2 DEF RequestComes
<1>8. ResetComes(id)' <=> ResetComes(id) BY <1>2 DEF ResetComes
<1>9. QED BY <1>2, <1>3, <1>4, <1>5, <1>6, <1>7, <1>8 DEF f

-----------------------------------------------------------------------------
(* What taking and adding a frame does to what waits                       *)

LEMMA Taken ==
  ASSUME Inv, NEW e \in Endpoints
  PROVE  /\ RegReady(e) => /\ ToSet(queue[e].reg) = ToSet(AfterReg(e).reg) \cup {NextReg(e)}
                           /\ AfterReg(e).syn = queue[e].syn /\ AfterReg(e).reg = Tail(queue[e].reg)
                           /\ queue[e].reg # << >> /\ AfterReg(e) \in Queues(e)
         /\ SynReady(e) => /\ ToSet(queue[e].syn) = ToSet(AfterSyn(e).syn) \cup {Head(queue[e].syn)}
                           /\ AfterSyn(e).reg = queue[e].reg
                           /\ queue[e].syn # << >> /\ AfterSyn(e) \in Queues(e)
         /\ UrgReady(e) => AfterUrg(e).reg = queue[e].reg /\ AfterUrg(e).syn = queue[e].syn
<1>1. queue[e] \in Queues(e) BY Place
<1>2. queue[e].reg \in Seq(RegFrames(e)) /\ queue[e].syn \in Seq(SynFrames) BY <1>1 DEF Queues
<1>3. /\ AfterReg(e).reg = Tail(queue[e].reg) /\ AfterReg(e).syn = queue[e].syn
      /\ AfterSyn(e).syn = Tail(queue[e].syn) /\ AfterSyn(e).reg = queue[e].reg
      /\ AfterUrg(e).reg = queue[e].reg /\ AfterUrg(e).syn = queue[e].syn
  BY <1>1 DEF AfterReg, AfterSyn, AfterUrg, Queues
<1>4. queue[e].reg # << >> => ToSet(queue[e].reg) = ToSet(Tail(queue[e].reg)) \cup {Head(queue[e].reg)}
  BY <1>2, HeadAndTail
<1>5. queue[e].syn # << >> => ToSet(queue[e].syn) = ToSet(Tail(queue[e].syn)) \cup {Head(queue[e].syn)}
  BY <1>2, HeadAndTail
<1>6. (RegReady(e) => AfterReg(e) \in Queues(e)) /\ (SynReady(e) => AfterSyn(e) \in Queues(e)) BY TakeOps
<1>7. QED BY <1>3, <1>4, <1>5, <1>6 DEF RegReady, SynReady, NextReg

LEMMA ResetAdded ==
  ASSUME NEW e \in Endpoints, NEW q \in Queues(e), NEW t, NEW id, NEW code
  PROVE  /\ AddRst(t, q, id, code).reg = q.reg
         /\ ToSet(q.syn) \subseteq ToSet(AddRst(t, q, id, code).syn)
         /\ \A f \in ToSet(AddRst(t, q, id, code).syn) : f \in ToSet(q.syn) \/ f.id = id
         /\ t.st[id] = "CLOSING" \/ \E f \in ToSet(AddRst(t, q, id, code).syn) : f.id = id
<1>1. q.syn \in Seq(SynFrames) /\ q.reg \in Seq(RegFrames(e)) BY DEF Queues
<1>2. CASE t.st[id] = "CLOSING" BY <1>2 DEF AddRst
<1>3. CASE t.st[id] # "CLOSING"
  <2>1. AddRst(t, q, id, code) = [q EXCEPT !.syn = Append(q.syn, Rst(id, code))] BY <1>3 DEF AddRst
  <2>2. AddRst(t, q, id, code).syn = Append(q.syn, Rst(id, code)) /\ AddRst(t, q, id, code).reg = q.reg
    BY <2>1 DEF Queues
  <2>3. ToSet(AddRst(t, q, id, code).syn) = ToSet(q.syn) \cup {Rst(id, code)} BY <1>1, <2>2, Elements
  <2>4. Rst(id, code).id = id BY PlainFrames
  <2>5. QED BY <2>2, <2>3, <2>4
<1>4. QED BY <1>2, <1>3

-----------------------------------------------------------------------------
(* What a step leaves alone in the table of its end                        *)

Elsewhere(u, t, S) ==
  \A x \in StreamIds : x \notin S =>
    /\ Live(u, x) <=> Live(t, x)
    /\ x \in u.wr => x \in t.wr
    /\ Live(t, x) => u.st[x] = t.st[x] /\ (x \in t.rd => x \in u.rd) /\ (x \in t.wr => x \in u.wr)

LEMMA ElsewhereTwice ==
  ASSUME NEW t, NEW u, NEW w, NEW R, NEW S, Elsewhere(u, t, R), Elsewhere(w, u, S)
  PROVE  Elsewhere(w, t, R \cup S)
BY DEF Elsewhere

LEMMA SameStates ==
  ASSUME NEW t, NEW u, NEW S, \A x \in StreamIds : x \notin S => u.st[x] = t.st[x],
         t.rd \subseteq u.rd, t.wr \subseteq u.wr, u.wr \subseteq t.wr \cup S
  PROVE  Elsewhere(u, t, S)
BY DEF Elsewhere, Live

LEMMA FlagsElsewhere ==
  ASSUME NEW t \in Table, NEW id \in StreamIds
  PROVE  /\ Elsewhere(t, t, {})
         /\ Elsewhere(ShutRd(t, id), t, {}) /\ ShutRd(t, id).st = t.st /\ id \in ShutRd(t, id).rd
         /\ Elsewhere(ShutWr(t, id), t, {id}) /\ ShutWr(t, id).st = t.st /\ id \in ShutWr(t, id).wr
         /\ Elsewhere(Attach(t, id), t, {}) /\ Attach(t, id).st = t.st
         /\ Elsewhere(Detach(t, id), t, {}) /\ Detach(t, id).st = t.st
         /\ ShutRd(t, id).wr = t.wr /\ ShutWr(t, id).rd = t.rd
         /\ Detach(t, id).rd = t.rd /\ Detach(t, id).wr = t.wr
<1>1. /\ ShutRd(t, id).st = t.st /\ ShutRd(t, id).rd = t.rd \cup {id} /\ ShutRd(t, id).wr = t.wr
      /\ ShutWr(t, id).st = t.st /\ ShutWr(t, id).rd = t.rd /\ ShutWr(t, id).wr = t.wr \cup {id}
      /\ Attach(t, id).st = t.st /\ Attach(t, id).rd = t.rd /\ Attach(t, id).wr = t.wr
      /\ Detach(t, id).st = t.st /\ Detach(t, id).rd = t.rd /\ Detach(t, id).wr = t.wr
  BY DEF Table, ShutRd, ShutWr, Attach, Detach
<1>2. QED BY <1>1, SameStates

LEMMA OpenElsewhere ==
  ASSUME NEW t \in Table, NEW srv \in BOOLEAN, NEW id \in StreamIds, NEW initial \in {"OPENING", "RESERVED"}
  PROVE  /\ Elsewhere(OpenStream(t, srv, id, initial), t, {id})
         /\ OpenStream(t, srv, id, initial).st[id] = initial
         /\ initial = "RESERVED" => IF IsMine(srv, id) THEN id \in OpenStream(t, srv, id, initial).rd
                                                       ELSE id \in OpenStream(t, srv, id, initial).wr
         /\ initial = "OPENING" \/ IsMine(srv, id) => OpenStream(t, srv, id, initial).wr = t.wr
<1> DEFINE u == OpenStream(t, srv, id, initial)
<1>1. /\ u.st = [t.st EXCEPT ![id] = initial]
      /\ u.rd = IF initial = "RESERVED" /\ IsMine(srv, id) THEN t.rd \cup {id} ELSE t.rd
      /\ u.wr = IF initial = "RESERVED" /\ ~IsMine(srv, id) THEN t.wr \cup {id} ELSE t.wr
  BY DEF Table, OpenStream
<1>2. \A x \in StreamIds : u.st[x] = IF x = id THEN initial ELSE t.st[x] BY <1>1 DEF Table
<1> HIDE DEF u
<1>3. Elsewhere(u, t, {id}) BY <1>1, <1>2, SameStates
<1>4. QED BY <1>1, <1>2, <1>3 DEF u

LEMMA StateElsewhere ==
  ASSUME NEW t \in Table, NEW id \in StreamIds, NEW s
  PROVE  /\ Elsewhere(SetState(t, id, s), t, {id}) /\ SetState(t, id, s).st[id] = s
         /\ SetState(t, id, s).rd = t.rd /\ SetState(t, id, s).wr = t.wr
         /\ Elsewhere(MarkClosing(t, id), t, {id})
         /\ Live(MarkClosing(t, id), id) <=> Live(t, id)
         /\ Live(t, id) => MarkClosing(t, id).st[id] = "CLOSING"
         /\ MarkClosing(t, id).rd = t.rd /\ MarkClosing(t, id).wr = t.wr
<1>1. ASSUME NEW z
      PROVE  /\ Elsewhere(SetState(t, id, z), t, {id}) /\ SetState(t, id, z).st[id] = z
             /\ SetState(t, id, z).rd = t.rd /\ SetState(t, id, z).wr = t.wr
  <2> DEFINE u == SetState(t, id, z)
  <2>1. u.st = [t.st EXCEPT ![id] = z] /\ u.rd = t.rd /\ u.wr = t.wr BY DEF Table, SetState
  <2>2. \A x \in StreamIds : u.st[x] = IF x = id THEN z ELSE t.st[x] BY <2>1 DEF Table
  <2> HIDE DEF u
  <2>3. Elsewhere(u, t, {id}) BY <2>1, <2>2, SameStates
  <2>4. QED BY <2>1, <2>2, <2>3 DEF u
<1>2. CASE Live(t, id)
  <2>1. MarkClosing(t, id) = SetState(t, id, "CLOSING") BY <1>2 DEF MarkClosing
  <2>2. QED BY <1>1, <1>2, <2>1 DEF Live
<1>3. CASE ~Live(t, id)
  <2>1. MarkClosing(t, id) = t BY <1>3 DEF MarkClosing
  <2>2. Elsewhere(t, t, {id}) BY SameStates
  <2>3. QED BY <1>1, <1>3, <2>1, <2>2
<1>4. QED BY <1>2, <1>3

LEMMA MovesElsewhere ==
  ASSUME NEW t \in Table, NEW id \in StreamIds
  PROVE  /\ Elsewhere(PushResponseSent(t, id), t, {id}) /\ PushResponseSent(t, id).st[id] = "OPENED"
         /\ PushResponseSent(t, id).rd = t.rd /\ PushResponseSent(t, id).wr = t.wr
         /\ Elsewhere(PromiseFulfilled(t, id), t, {id}) /\ PromiseFulfilled(t, id).st[id] = "OPENED"
         /\ PromiseFulfilled(t, id).rd = t.rd /\ PromiseFulfilled(t, id).wr = t.wr
<1>1. ASSUME NEW u, u \in {PushResponseSent(t, id), PromiseFulfilled(t, id)}
      PROVE  Elsewhere(u, t, {id}) /\ u.st[id] = "OPENED" /\ u.rd = t.rd /\ u.wr = t.wr
  <2>1. u.st = [t.st EXCEPT ![id] = "OPENED"] /\ u.rd = t.rd /\ u.wr = t.wr
    BY <1>1 DEF Table, PushResponseSent, PromiseFulfilled
  <2>2. \A x \in StreamIds : u.st[x] = IF x = id THEN "OPENED" ELSE t.st[x] BY <2>1 DEF Table
  <2>3. Elsewhere(u, t, {id}) BY <2>1, <2>2, SameStates
  <2>4. QED BY <2>1, <2>2, <2>3
<1>2. QED BY <1>1

LEMMA CloseElsewhere ==
  ASSUME NEW t \in Table, NEW srv \in BOOLEAN, NEW id \in StreamIds
  PROVE  /\ Elsewhere(CloseStream(t, srv, id), t, {id}) /\ ~Live(CloseStream(t, srv, id), id)
         /\ CloseStream(t, srv, id).wr \subseteq t.wr /\ CloseIfShut(t, srv, id).wr \subseteq t.wr
         /\ Elsewhere(CloseIfShut(t, srv, id), t, {id})
         /\ IF ShutRdWr(t, id) THEN ~Live(CloseIfShut(t, srv, id), id) ELSE CloseIfShut(t, srv, id) = t
<1>1. Elsewhere(t, t, {id}) BY SameStates
<1>2. ASSUME Live(t, id) PROVE Elsewhere(CloseStreams(t, srv, {id}), t, {id})
  <2> DEFINE u    == CloseStreams(t, srv, {id})
             keep == {x \in {id} : srv /\ ~IsMine(srv, x)}
             gone == {id} \ keep
  <2>1. /\ u.st = [x \in StreamIds |-> IF x \in keep THEN "CLOSED" ELSE IF x \in gone THEN "NONE" ELSE t.st[x]]
        /\ u.rd = t.rd \ gone /\ u.wr = t.wr \ gone
    BY DEF CloseStreams
  <2>2. keep \subseteq {id} /\ gone \subseteq {id} OBVIOUS
  <2> HIDE DEF u, keep, gone
  <2>3. \A x \in StreamIds : x # id => u.st[x] = t.st[x] BY <2>1, <2>2
  <2>4. QED BY <2>1, <2>2, <2>3 DEF Elsewhere, Live, u
<1>3. Elsewhere(CloseStream(t, srv, id), t, {id}) BY <1>1, <1>2 DEF CloseStream
<1>4. ~Live(CloseStream(t, srv, id), id) BY CloseOneSteady
<1>5. CloseStream(t, srv, id).wr \subseteq t.wr
  <2>1. CloseStreams(t, srv, {id}).wr \subseteq t.wr BY DEF CloseStreams
  <2>2. QED BY <2>1 DEF CloseStream
<1>6. QED BY <1>1, <1>3, <1>4, <1>5 DEF CloseIfShut

LEMMA PeerEndedElsewhere ==
  ASSUME NEW t \in Table, NEW srv \in BOOLEAN, NEW id \in StreamIds, NEW end \in BOOLEAN
  PROVE  /\ Elsewhere(PeerEnded(t, srv, id, end), t, {id})
         /\ ~end => PeerEnded(t, srv, id, end) = t
         /\ end /\ id \in t.wr => ~Live(PeerEnded(t, srv, id, end), id)
         /\ end /\ Live(PeerEnded(t, srv, id, end), id) => id \in PeerEnded(t, srv, id, end).rd
         /\ Live(PeerEnded(t, srv, id, end), id) => /\ PeerEnded(t, srv, id, end).st[id] = t.st[id]
                                                    /\ id \in t.wr => id \in PeerEnded(t, srv, id, end).wr
         /\ PeerEnded(t, srv, id, end).wr \subseteq t.wr
<1> DEFINE u == ShutRd(t, id)
<1>1. u \in Table BY ShutRdTable
<1>2. Elsewhere(u, t, {}) /\ u.st = t.st /\ id \in u.rd /\ u.wr = t.wr BY FlagsElsewhere
<1> HIDE DEF u
<1>3. CASE end
  <2>1. PeerEnded(t, srv, id, end) = CloseIfShut(u, srv, id) BY <1>3 DEF PeerEnded, u
  <2>2. /\ Elsewhere(CloseIfShut(u, srv, id), u, {id})
        /\ IF ShutRdWr(u, id) THEN ~Live(CloseIfShut(u, srv, id), id) ELSE CloseIfShut(u, srv, id) = u
        /\ CloseIfShut(u, srv, id).wr \subseteq u.wr
    BY <1>1, CloseElsewhere
  <2>3. Elsewhere(CloseIfShut(u, srv, id), t, {} \cup {id}) BY <1>2, <2>2, ElsewhereTwice
  <2>4. {} \cup {id} = {id} OBVIOUS
  <2>5. QED BY <1>2, <1>3, <2>1, <2>2, <2>3, <2>4 DEF ShutRdWr
<1>4. CASE ~end
  <2>1. PeerEnded(t, srv, id, end) = t /\ Elsewhere(t, t, {id}) BY <1>4, SameStates DEF PeerEnded
  <2>2. QED BY <1>4, <2>1
<1>5. QED BY <1>3, <1>4

LEMMA AdjustElsewhere ==
  ASSUME NEW t, NEW srv \in BOOLEAN, Good(t, srv), NEW max \in Int
  PROVE  Elsewhere(AdjustClosed(t, max), t, {})
<1> DEFINE u == AdjustClosed(t, max)
<1>1. \A x \in StreamIds : Live(t, x) => Live(u, x) BY AdjustClosedGood
<1>2. t \in Table BY DEF Good
<1>3. PICK gone : /\ u.st = [id \in StreamIds |-> IF id \in gone THEN "NONE" ELSE t.st[id]]
                  /\ u.rd = t.rd \ gone /\ u.wr = t.wr \ gone
  BY <1>2 DEF Table, AdjustClosed
<1>4. \A x \in StreamIds : u.st[x] = IF x \in gone THEN "NONE" ELSE t.st[x] BY <1>3
<1> HIDE DEF u
<1>5. \A x \in StreamIds : Live(u, x) => Live(t, x) /\ x \notin gone BY <1>4 DEF Live
<1>6. QED BY <1>1, <1>3, <1>4, <1>5 DEF Elsewhere, u

-----------------------------------------------------------------------------
(* A step between two states in which both ends are at work                *)

Working == /\ Inv /\ Inv' /\ EndInv /\ VerdictInv /\ QuietInv /\ AtWork /\ AtWork'
           /\ StreamsQuiet /\ PromisesQueued /\ RequestsWhole

LEMMA Open ==
  ASSUME AtWork, NEW e \in Endpoints
  PROVE  /\ Running(e) /\ conn[e].goaway = {} /\ AllowIncoming(conn[e])
         /\ \A t, q : ~IsClosing(t, q, conn[e])
<1>1. Running(e) /\ conn[e].goaway = {} BY DEF AtWork
<1>2. QED BY <1>1 DEF AllowIncoming, IsClosing, WantRead

LEMMA Acts ==
  ASSUME NEW e \in Endpoints, Submit(e) \/ Send(e) \/ Recv(e) \/ Drop(e)
  PROVE  Running(e)
<1>1. ASSUME Submit(e) PROVE Running(e)
  BY <1>1 DEF Submit, SubmitRequest, SubmitPush, SubmitResponse, SubmitRst, SubmitTerminate, SubmitGoaway
<1>2. ASSUME Send(e) PROVE Running(e)
  BY <1>2 DEF Send, SendSettings, SendRequest, SendResponse, SendPromise, SendGoaway, SendRst, SendData,
              UrgReady, RegReady, SynReady, DataReady
<1>3. ASSUME Recv(e) PROVE Running(e)
  BY <1>3 DEF Recv, RecvInvalid, RecvRequest, RecvResponse, RecvData, RecvPromise, RecvRst, RecvSettings,
              RecvSettingsAck, RecvGoaway, Accepted, Arrives
<1>4. QED BY <1>1, <1>2, <1>3 DEF Drop

(* The counters of a connection that a step leaves alone.                  *)
SameIds(d, c) == /\ Later(d, c) /\ d.nextId = c.nextId
                 /\ d.lastRecv = c.lastRecv /\ d.lastSent = c.lastSent
CountersKept(e) == SameIds(conn'[e], conn[e])

TableKept(e, id) ==
  /\ Live(table'[e], id) <=> Live(table[e], id)
  /\ Live(table[e], id) => /\ table'[e].st[id] = table[e].st[id]
                           /\ id \in table[e].rd => id \in table'[e].rd
                           /\ id \in table[e].wr => id \in table'[e].wr
  /\ id \in table'[e].wr => id \in table[e].wr
ToClientKept(id) == /\ EndComes(id)' <=> EndComes(id)
                    /\ PromiseComes(id)' <=> PromiseComes(id)
                    /\ Unended(wire["client"], id)' => Unended(wire["client"], id)
ToServerKept(id) == /\ RequestComes(id)' <=> RequestComes(id)
                    /\ ResetComes(id)' <=> ResetComes(id)
ServerQueueKept(id) == /\ PromiseWaits(id)' <=> PromiseWaits(id)
                       /\ ResponseWaits(id)' => ResponseWaits(id)
                       /\ ResetWaits("server", id) => ResetWaits("server", id)'
ClientQueueKept(id) == /\ ResetWaits("client", id)' <=> ResetWaits("client", id)
                       /\ RequestWaits(id) => RequestWaits(id)'

LEMMA LaterCounters ==
  ASSUME Working, NEW e \in Endpoints, Later(conn'[e], conn[e]), NEW id \in StreamIds
  PROVE  /\ id <= conn[e].lastSent => id <= conn'[e].lastSent
         /\ id <= conn[e].lastRecv => id <= conn'[e].lastRecv
         /\ id < conn[e].nextId => id < conn'[e].nextId
<1>1. conn[e] \in Conn /\ conn'[e] \in Conn BY DEF Working, Inv, TypeOK
<1>2. QED BY <1>1 DEF Later, Conn, StreamIds

LEMMA ClosingLive ==
  ASSUME NEW t, NEW id
  PROVE  t.st[id] = "CLOSING" => Live(t, id)
BY DEF Live

LEMMA ServerKeeps ==
  ASSUME Working, Later(conn'["server"], conn["server"]), NEW id \in StreamIds,
         TableKept("server", id), ToClientKept(id), ToServerKept(id), ServerQueueKept(id)
  PROVE  ServerStepOn(id)
<1>1. Settled(id) /\ Orderly(id) BY DEF Working, StreamsQuiet
<1>2. LiveS(id)' <=> LiveS(id) BY DEF TableKept, LiveS
<1>3. Closing("server", id)' => ResetWaits("server", id)'
  <2>1. Closing("server", id)' => LiveS(id) BY <1>2, ClosingLive DEF Closing, LiveS
  <2>2. Closing("server", id)' => Closing("server", id) BY <2>1 DEF Closing, LiveS, TableKept
  <2>3. QED BY <1>1, <2>2, Ends DEF Settled, ServerQueueKept
<1>4. LiveS(id)' => id \in table'["server"].rd BY <1>1, <1>2 DEF Orderly, TableKept, LiveS
<1>5. ResponseWaits(id)' /\ IsMine(TRUE, id) => id <= conn'["server"].lastSent
  BY <1>1, LaterCounters, Ends DEF Orderly, ServerQueueKept
<1>6. id \in table'["server"].wr => id \in table["server"].wr BY DEF TableKept
<1>7. QED BY <1>2, <1>3, <1>4, <1>5, <1>6 DEF ToClientKept, ToServerKept, ServerQueueKept, ServerStepOn

LEMMA ClientKeeps ==
  ASSUME Working, Later(conn'["client"], conn["client"]), NEW id \in StreamIds,
         TableKept("client", id), ToClientKept(id), ToServerKept(id), ClientQueueKept(id),
         IsMine(FALSE, id) /\ id < conn'["client"].nextId =>
           id < conn["client"].nextId \/ id <= conn'["client"].lastSent \/ RequestWaits(id)'
  PROVE  ClientStepOn(id)
<1>1. Settled(id) /\ Orderly(id) BY DEF Working, StreamsQuiet
<1>2. LiveC(id)' <=> LiveC(id) BY DEF TableKept, LiveC
<1>3. LiveC(id) => (Closing("client", id)' <=> Closing("client", id)) BY DEF Closing, LiveC, TableKept
<1>4. Closing("client", id)' => ResetWaits("client", id)'
  <2>1. Closing("client", id)' => LiveC(id) BY <1>2, ClosingLive DEF Closing, LiveC
  <2>2. QED BY <1>1, <1>3, <2>1, Ends DEF Settled, ClientQueueKept
<1>5. LiveC(id)' => id \in table'["client"].wr BY <1>1, <1>2 DEF Orderly, TableKept, LiveC
<1>6. ResetWaits("client", id)' /\ IsMine(TRUE, id) => id <= conn'["client"].lastRecv
  BY <1>1, LaterCounters, Ends DEF Orderly, ClientQueueKept
<1>7. IsMine(FALSE, id) /\ id < conn'["client"].nextId => id <= conn'["client"].lastSent \/ RequestWaits(id)'
  BY <1>1, LaterCounters, Ends DEF Orderly, ClientQueueKept
<1>8. QED BY <1>2, <1>3, <1>4, <1>5, <1>6, <1>7 DEF ToClientKept, ToServerKept, ClientQueueKept, ClientStepOn

-----------------------------------------------------------------------------
(* Steps that touch no stream: SETTINGS, and a GOAWAY that is only queued  *)

Plainly(f) == f.type \in {"SETTINGS", "SETTINGS_ACK", "GOAWAY"}

MildQueue(e) ==
  /\ queue'[e].syn = queue[e].syn
  /\ \/ queue'[e].reg = queue[e].reg
     \/ \E f : queue'[e].reg = Append(queue[e].reg, f) /\ Plainly(f)

MildWire(e) == \/ UNCHANGED wire
               \/ \E f : Transmit(e, f) /\ Plainly(f)
               \/ \E type : Arrives(e, type) /\ type \in {"SETTINGS", "SETTINGS_ACK", "GOAWAY"}

Mild(e) == Apart(e) /\ table'[e] = table[e] /\ CountersKept(e) /\ MildQueue(e) /\ MildWire(e)

LEMMA PlainlyNot ==
  ASSUME NEW f, Plainly(f), NEW id
  PROVE  ~LastFrame(f, id) /\ ~Promise(f, id) /\ ~Opener(f, id) /\ ~Reset(f, id) /\ ~IsHeaders(f) /\ f.type # "DATA"
BY DEF Plainly, LastFrame, Promise, Opener, Reset, IsHeaders

LEMMA MildOnWire ==
  ASSUME Inv, NEW e \in Endpoints, MildWire(e), NEW id
  PROVE  /\ ToClientKept(id) /\ ToServerKept(id)
         /\ \A f \in ToServer' : f \in ToServer \/ (e = "client" /\ Plainly(f))
<1>1. CASE UNCHANGED wire BY <1>1, WireStill DEF ToClientKept, ToServerKept
<1>2. CASE \E f : Transmit(e, f) /\ Plainly(f)
  <2>1. PICK f : Transmit(e, f) /\ Plainly(f) BY <1>2
  <2>2. ~LastFrame(f, id) /\ ~Promise(f, id) /\ ~Opener(f, id) /\ ~Reset(f, id) BY <2>1, PlainlyNot
  <2>3. CASE e = "server"
    <3>1. Transmit("server", f) BY <2>1, <2>3
    <3>2. /\ EndComes(id)' <=> EndComes(id) \/ LastFrame(f, id)
          /\ PromiseComes(id)' <=> PromiseComes(id) \/ Promise(f, id)
          /\ Unended(wire["client"], id)' => \/ Promise(f, id)
                                             \/ Unended(wire["client"], id) /\ ~LastFrame(f, id)
          /\ RequestComes(id)' <=> RequestComes(id)
          /\ ResetComes(id)' <=> ResetComes(id)
          /\ ToServer' = ToServer
      BY <3>1, ServerSends
    <3>3. QED BY <2>2, <3>2 DEF ToClientKept, ToServerKept
  <2>4. CASE e = "client"
    <3>1. Transmit("client", f) BY <2>1, <2>4
    <3>2. /\ EndComes(id)' <=> EndComes(id)
          /\ PromiseComes(id)' <=> PromiseComes(id)
          /\ Unended(wire["client"], id)' <=> Unended(wire["client"], id)
          /\ RequestComes(id)' <=> RequestComes(id) \/ Opener(f, id)
          /\ ResetComes(id)' <=> ResetComes(id) \/ Reset(f, id)
          /\ ToServer' = ToServer \cup {f}
      BY <3>1, ClientSends
    <3>3. QED BY <2>1, <2>2, <2>4, <3>2 DEF ToClientKept, ToServerKept
  <2>5. QED BY <2>3, <2>4, Ends
<1>3. CASE \E type : Arrives(e, type) /\ type \in {"SETTINGS", "SETTINGS_ACK", "GOAWAY"}
  <2>1. PICK type : Arrives(e, type) /\ type \in {"SETTINGS", "SETTINGS_ACK", "GOAWAY"} BY <1>3
  <2>0. Plainly(Head(wire[e])) BY <2>1 DEF Arrives, Plainly
  <2>2. /\ ~LastFrame(Head(wire[e]), id) /\ ~Promise(Head(wire[e]), id)
        /\ ~Opener(Head(wire[e]), id) /\ ~Reset(Head(wire[e]), id)
    BY <2>0, PlainlyNot
  <2>3. CASE e = "server"
    <3>1. Arrives("server", type) BY <2>1, <2>3
    <3>2. QED BY <2>2, <2>3, <3>1, ServerHears DEF ToClientKept, ToServerKept
  <2>4. CASE e = "client"
    <3>1. Arrives("client", type) BY <2>1, <2>4
    <3>2. QED BY <2>2, <2>4, <3>1, ClientHears DEF ToClientKept, ToServerKept
  <2>5. QED BY <2>3, <2>4, Ends
<1>4. QED BY <1>1, <1>2, <1>3 DEF MildWire

LEMMA MildOnQueue ==
  ASSUME Inv, NEW e \in Endpoints, MildQueue(e), NEW id
  PROVE  /\ \A f : f \in ToSet(queue'[e].reg) <=> f \in ToSet(queue[e].reg) \/ (f \in ToSet(queue'[e].reg) /\ Plainly(f))
         /\ e = "server" => ServerQueueKept(id)
         /\ e = "client" => ClientQueueKept(id)
<1>0. queue[e].reg \in Seq(RegFrames(e)) BY Place DEF Queues
<1>1. \A f : f \in ToSet(queue'[e].reg) <=> f \in ToSet(queue[e].reg) \/ (f \in ToSet(queue'[e].reg) /\ Plainly(f))
  <2>1. CASE queue'[e].reg = queue[e].reg BY <2>1
  <2>2. CASE \E f : queue'[e].reg = Append(queue[e].reg, f) /\ Plainly(f)
    <3>1. PICK f : queue'[e].reg = Append(queue[e].reg, f) /\ Plainly(f) BY <2>2
    <3>2. ToSet(queue'[e].reg) = ToSet(queue[e].reg) \cup {f} BY <1>0, <3>1, Elements
    <3>3. QED BY <3>1, <3>2
  <2>3. QED BY <2>1, <2>2 DEF MildQueue
<1>2. \A f \in ToSet(queue'[e].reg) : Plainly(f) => ~Promise(f, id) /\ ~Opener(f, id) BY PlainlyNot
<1>3. ASSUME e = "server" PROVE ServerQueueKept(id)
  <2>1. (PromiseWaits(id)' <=> PromiseWaits(id)) /\ (ResponseWaits(id)' <=> ResponseWaits(id))
    BY <1>1, <1>2, <1>3 DEF PromiseWaits, ResponseWaits
  <2>2. ResetWaits("server", id)' <=> ResetWaits("server", id) BY <1>3 DEF MildQueue, ResetWaits
  <2>3. QED BY <2>1, <2>2 DEF ServerQueueKept
<1>4. ASSUME e = "client" PROVE ClientQueueKept(id)
  <2>1. RequestWaits(id)' <=> RequestWaits(id) BY <1>1, <1>2, <1>4 DEF RequestWaits, Waiting
  <2>2. ResetWaits("client", id)' <=> ResetWaits("client", id) BY <1>4 DEF MildQueue, ResetWaits
  <2>3. QED BY <2>1, <2>2 DEF ClientQueueKept
<1>5. QED BY <1>1, <1>3, <1>4

(* The promises a server has queued, with one more frame at the end.       *)
LEMMA PromisesAppend ==
  ASSUME Working, NEW f, queue'["server"].reg = Append(queue["server"].reg, f),
         Later(conn'["server"], conn["server"]), conn'["server"].lastSent = conn["server"].lastSent,
         f.type = "PUSH_PROMISE" =>
           /\ f.arg \in StreamIds /\ conn["server"].lastSent < f.arg
           /\ conn["server"].nextId <= f.arg /\ f.arg < conn'["server"].nextId
  PROVE  PromisesQueued'
<1> DEFINE s == queue["server"].reg
<1>1. s \in Seq(RegFrames("server")) BY Place, Ends DEF Working, Queues
<1>2. \A i \in DOMAIN s : s[i].arg \in Int
  <2>1. \A i \in DOMAIN s : s[i] \in RegFrames("server") BY <1>1
  <2>2. \A g \in RegFrames("server") : g.arg \in Nat BY FrameFacts, Ends
  <2>3. QED BY <2>1, <2>2
<1>3. /\ conn["server"].lastSent \in Int /\ conn["server"].nextId \in Int /\ conn'["server"].nextId \in Int
      /\ conn["server"].nextId <= conn'["server"].nextId
  <2>1. conn["server"] \in Conn /\ conn'["server"] \in Conn BY Ends DEF Working, Inv, TypeOK
  <2>2. \A c \in Conn : c.lastSent \in Int /\ c.nextId \in Int BY DEF Conn
  <2>3. conn["server"].lastSent \in Int /\ conn["server"].nextId \in Int /\ conn'["server"].nextId \in Int BY <2>1, <2>2
  <2>4. conn'["server"].nextId = conn["server"].nextId \/ conn'["server"].nextId = conn["server"].nextId + 2
    BY DEF Later
  <2>5. QED BY <2>3, <2>4
<1>4. PromisesRise(s, conn["server"].lastSent, conn["server"].nextId) BY DEF Working, PromisesQueued
<1>5. f.type = "PUSH_PROMISE" => /\ f.arg \in Int /\ conn["server"].lastSent < f.arg
                                 /\ conn["server"].nextId <= f.arg /\ f.arg < conn'["server"].nextId
  BY DEF StreamIds
<1> HIDE DEF s
<1>6. PromisesRise(Append(s, f), conn["server"].lastSent, conn'["server"].nextId)
  BY <1>1, <1>2, <1>3, <1>4, <1>5, RiseAppend, Zenon
<1>7. conn["server"].lastSent < conn'["server"].nextId BY <1>3 DEF Working, PromisesQueued
<1>8. QED BY <1>6, <1>7 DEF PromisesQueued, s

LEMMA PromisesStay ==
  ASSUME Working, queue'["server"].reg = queue["server"].reg, CountersKept("server")
  PROVE  PromisesQueued'
BY DEF Working, PromisesQueued, CountersKept, SameIds

LEMMA MildQuiet ==
  ASSUME Working, NEW e \in Endpoints, Mild(e)
  PROVE  QuietInv'
<1>0. Inv /\ Inv' /\ QuietInv /\ AtWork BY DEF Working
<1>1. \A id \in StreamIds : TableKept(e, id) BY DEF Mild, TableKept
<1>2. \A id \in StreamIds : ToClientKept(id) /\ ToServerKept(id) BY <1>0, MildOnWire DEF Mild
<1>3. CASE e = "server"
  <2>1. Apart("server") /\ Later(conn'["server"], conn["server"]) BY <1>3 DEF Mild, CountersKept, SameIds
  <2>2. \A id \in StreamIds : ServerQueueKept(id) BY <1>0, <1>3, MildOnQueue DEF Mild
  <2>3. \A id \in StreamIds : ServerStepOn(id) BY <1>1, <1>2, <1>3, <2>1, <2>2, ServerKeeps
  <2>4. ToServer' \subseteq ToServer BY <1>0, <1>3, MildOnWire, Ends DEF Mild
  <2>5. PromisesQueued'
    <3>1. CASE queue'["server"].reg = queue["server"].reg BY <1>3, <3>1, PromisesStay DEF Mild
    <3>2. CASE \E f : queue'["server"].reg = Append(queue["server"].reg, f) /\ Plainly(f)
      <4>1. PICK f : queue'["server"].reg = Append(queue["server"].reg, f) /\ Plainly(f) BY <3>2
      <4>2. f.type # "PUSH_PROMISE" BY <4>1 DEF Plainly
      <4>3. QED BY <1>3, <2>1, <4>1, <4>2, PromisesAppend DEF Mild, CountersKept, SameIds
    <3>3. QED BY <1>3, <3>1, <3>2 DEF Mild, MildQueue
  <2>6. QED BY <1>0, <2>1, <2>3, <2>4, <2>5, ServerQuiet DEF ServerStepQuiet
<1>4. CASE e = "client"
  <2>1. Apart("client") /\ Later(conn'["client"], conn["client"]) /\ CountersKept("client") BY <1>4 DEF Mild, CountersKept, SameIds
  <2>2. \A id \in StreamIds : ClientQueueKept(id) BY <1>0, <1>4, MildOnQueue DEF Mild
  <2>3. \A id \in StreamIds : ClientStepOn(id) BY <1>1, <1>2, <1>4, <2>1, <2>2, ClientKeeps DEF CountersKept, SameIds
  <2>4. RequestsWhole'
    <3>1. \A f \in ToServer' : f \in ToServer \/ Plainly(f) BY <1>0, <1>4, MildOnWire DEF Mild
    <3>2. \A f \in Waiting' : f \in Waiting \/ Plainly(f) BY <1>0, <1>4, MildOnQueue DEF Mild, Waiting
    <3>3. QED BY <3>1, <3>2, PlainlyNot DEF Working, RequestsWhole
  <2>5. conn'["client"].lastRecv <= conn["server"].lastSent BY <2>1 DEF Working, QuietInv, CountersKept, SameIds
  <2>6. QED BY <1>0, <2>1, <2>3, <2>4, <2>5, ClientQuiet DEF ClientStepQuiet
<1>5. QED BY <1>3, <1>4, Ends

LEMMA SameCounters ==
  ASSUME NEW c \in Conn
  PROVE  /\ SameIds(c, c)
         /\ \A n \in Nat : SameIds([c EXCEPT !.remoteMax = n], c)
         /\ \A n \in Nat : SameIds([c EXCEPT !.localMax = n, !.pendingMax = n], c)
<1>1. ASSUME NEW d, Later(d, c), d.nextId = c.nextId, d.lastRecv = c.lastRecv, d.lastSent = c.lastSent
      PROVE  SameIds(d, c)
  BY <1>1 DEF SameIds
<1>2. ASSUME NEW n \in Nat PROVE SameIds([c EXCEPT !.remoteMax = n], c)
  <2>1. Later([c EXCEPT !.remoteMax = n], c) BY ConnOps
  <2>2. QED BY <1>1, <2>1 DEF Conn
<1>3. ASSUME NEW n \in Nat PROVE SameIds([c EXCEPT !.localMax = n, !.pendingMax = n], c)
  <2>1. Later([c EXCEPT !.localMax = n, !.pendingMax = n], c) BY ConnOps
  <2>2. QED BY <1>1, <2>1 DEF Conn
<1>4. QED BY <1>2, <1>3, ConnOps DEF SameIds

LEMMA SendSettingsQuiet == ASSUME Working, NEW e \in Endpoints, SendSettings(e) PROVE QuietInv'
<1> DEFINE f == Head(queue[e].urg)
<1>0. Inv BY DEF Working
<1>1. Apart(e) BY <1>0, SendApart DEF Send
<1>2. /\ UrgReady(e) /\ queue' = [queue EXCEPT ![e] = AfterUrg(e)]
      /\ UNCHANGED wire \/ Transmit(e, f)
      /\ UNCHANGED <<table, conn, log>>
  BY DEF SendSettings, SetQueue
<1>3. queue'[e].reg = queue[e].reg /\ queue'[e].syn = queue[e].syn
  <2>1. queue'[e] = AfterUrg(e) BY <1>0, <1>2, Place
  <2>2. QED BY <1>0, <1>2, <2>1, Taken
<1>4. Plainly(f)
  <2>1. queue[e] \in Queues(e) /\ queue[e].urg # << >> BY <1>0, <1>2, Place DEF UrgReady
  <2>2. f \in UrgFrames BY <2>1, QueueOps
  <2>3. QED BY <2>2, PlainFrames DEF Plainly
<1>5. CountersKept(e) BY <1>0, <1>2, Place, SameCounters DEF CountersKept
<1> HIDE DEF f
<1>6. QED BY <1>1, <1>2, <1>3, <1>4, <1>5, MildQuiet DEF Mild, MildQueue, MildWire

LEMMA SubmitGoawayQuiet == ASSUME Working, NEW e \in Endpoints, SubmitGoaway(e) PROVE QuietInv'
<1>0. Inv BY DEF Working
<1>1. Apart(e) BY <1>0, SubmitApart DEF Submit
<1>2. /\ queue' = [queue EXCEPT ![e] = AddGoaway(queue[e], conn[e], conn[e].lastProc, FALSE)]
      /\ UNCHANGED <<table, wire, conn>>
  BY DEF SubmitGoaway
<1>3. MildQueue(e)
  <2>1. queue[e] \in Queues(e) /\ queue'[e] = AddGoaway(queue[e], conn[e], conn[e].lastProc, FALSE) BY <1>0, <1>2, Place
  <2>2. PICK last : AddGoaway(queue[e], conn[e], conn[e].lastProc, FALSE)
                      = [queue[e] EXCEPT !.reg = Append(queue[e].reg, Goaway(last, FALSE))]
    BY DEF AddGoaway
  <2>3. queue'[e].reg = Append(queue[e].reg, Goaway(last, FALSE)) /\ queue'[e].syn = queue[e].syn
    BY <2>1, <2>2 DEF Queues
  <2>4. Plainly(Goaway(last, FALSE)) BY DEF Plainly, Goaway, F
  <2>5. QED BY <2>3, <2>4 DEF MildQueue
<1>4. CountersKept(e) BY <1>0, <1>2, Place, SameCounters DEF CountersKept
<1>5. QED BY <1>1, <1>2, <1>3, <1>4, MildQuiet DEF Mild, MildWire

LEMMA RecvSettingsQuiet ==
  ASSUME Working, NEW e \in Endpoints, RecvSettings(e) \/ RecvSettingsAck(e) PROVE QuietInv'
<1>0. Inv BY DEF Working
<1>1. Apart(e) BY <1>0, RecvApart DEF Recv
<1>2. UNCHANGED table /\ \E type \in {"SETTINGS", "SETTINGS_ACK", "GOAWAY"} : Arrives(e, type)
  BY DEF RecvSettings, RecvSettingsAck, Accepted
<1>3. queue'[e].reg = queue[e].reg /\ queue'[e].syn = queue[e].syn
  <2>1. \/ UNCHANGED queue \/ queue' = [queue EXCEPT ![e] = queue[e]]
        \/ queue' = [queue EXCEPT ![e] = [queue[e] EXCEPT !.urg = Append(queue[e].urg, SettingsAck)]]
    BY DEF RecvSettings, RecvSettingsAck, SetQueue
  <2>2. queue[e] \in Queues(e) BY <1>0, Place
  <2>3. \/ queue'[e] = queue[e]
        \/ queue'[e] = [queue[e] EXCEPT !.urg = Append(queue[e].urg, SettingsAck)]
    BY <1>0, <2>1, Place
  <2>4. QED BY <2>2, <2>3 DEF Queues
<1>4. CountersKept(e)
  <2>0. conn[e] \in Conn BY <1>0, Place
  <2>1. CASE RecvSettings(e)
    <3>1. Arrives(e, "SETTINGS") /\ conn' = [conn EXCEPT ![e] = [conn[e] EXCEPT !.remoteMax = Head(wire[e]).arg]]
      BY <2>1 DEF RecvSettings, Accepted, SetConn
    <3>2. Head(wire[e]).arg \in Nat BY <1>0, <3>1, Received, FrameFacts
    <3>3. conn'[e] = [conn[e] EXCEPT !.remoteMax = Head(wire[e]).arg] BY <1>0, <3>1, Place
    <3>4. QED BY <2>0, <3>2, <3>3, SameCounters DEF CountersKept
  <2>2. CASE RecvSettingsAck(e)
    <3>1. conn' = [conn EXCEPT ![e] = [conn[e] EXCEPT !.localMax = MaxOf(e), !.pendingMax = MaxOf(e)]]
      BY <2>2 DEF RecvSettingsAck, SetConn
    <3>2. MaxOf(e) \in Nat BY SessionAssumption DEF MaxOf
    <3>3. conn'[e] = [conn[e] EXCEPT !.localMax = MaxOf(e), !.pendingMax = MaxOf(e)] BY <1>0, <3>1, Place
    <3>4. QED BY <2>0, <3>2, <3>3, SameCounters DEF CountersKept
  <2>3. QED BY <2>1, <2>2
<1>5. QED BY <1>1, <1>2, <1>3, <1>4, MildQuiet DEF Mild, MildQueue, MildWire

(* What ends the work of an end: its last GOAWAY, the peer's, an assertion, *)
(* the end of its process.                                                 *)
LEMMA WorkEnds ==
  ASSUME Inv, NEW e \in Endpoints,
         \/ SubmitTerminate(e) \/ SendGoaway(e) \/ RecvGoaway(e) \/ RecvInvalid(e) \/ Drop(e)
  PROVE  ~AtWork'
<1>1. SUFFICES conn'[e].goaway # {} \/ ~conn'[e].up BY DEF AtWork, Running
<1>2. ASSUME NEW c \in Conn, NEW why, Terminate(e, c, why) PROVE conn'[e].goaway # {}
  <2>1. CASE "TERM_ON_SEND" \in c.goaway
    <3>1. conn' = [conn EXCEPT ![e] = c] BY <1>2, <2>1 DEF Terminate, SetConn
    <3>2. conn'[e] = c BY <3>1, Place
    <3>3. QED BY <2>1, <3>2
  <2>2. CASE "TERM_ON_SEND" \notin c.goaway
    <3>1. conn' = [conn EXCEPT ![e] = [c EXCEPT !.goaway = c.goaway \cup {"TERM_ON_SEND"}, !.err = why]]
      BY <1>2, <2>2 DEF Terminate, SetConn
    <3>2. conn'[e] = [c EXCEPT !.goaway = c.goaway \cup {"TERM_ON_SEND"}, !.err = why] BY <3>1, Place
    <3>3. QED BY <1>2, <3>2 DEF Conn
  <2>3. QED BY <2>1, <2>2
<1>3. conn[e] \in Conn BY Place
<1>4. CASE SubmitTerminate(e) BY <1>2, <1>3, <1>4 DEF SubmitTerminate
<1>5. CASE SendGoaway(e)
  <2>1. PICK a, g : conn' = [conn EXCEPT ![e] = [conn[e] EXCEPT !.localLast = a, !.goaway = conn[e].goaway \cup {"SENT"} \cup g]]
    BY <1>5 DEF SendGoaway, SetConn
  <2>2. conn'[e] = [conn[e] EXCEPT !.localLast = a, !.goaway = conn[e].goaway \cup {"SENT"} \cup g] BY <2>1, Place
  <2>3. QED BY <1>3, <2>2 DEF Conn
<1>6. CASE RecvGoaway(e)
  <2>1. PICK a : conn' = [conn EXCEPT ![e] = [conn[e] EXCEPT !.goaway = conn[e].goaway \cup {"RECV"}, !.remoteLast = a]]
    BY <1>6 DEF RecvGoaway, SetConn
  <2>2. conn'[e] = [conn[e] EXCEPT !.goaway = conn[e].goaway \cup {"RECV"}, !.remoteLast = a] BY <2>1, Place
  <2>3. QED BY <1>3, <2>2 DEF Conn
<1>7. CASE RecvInvalid(e)
  <2>1. Refused(e) \in Conn /\ \E why : Terminate(e, Refused(e), why) BY <1>7, RefusedKept
  <2>2. QED BY <1>2, <2>1
<1>8. CASE Drop(e)
  <2>1. conn' = [conn EXCEPT ![e] = [conn[e] EXCEPT !.up = FALSE]] BY <1>8 DEF Drop, SetConn
  <2>2. conn'[e] = [conn[e] EXCEPT !.up = FALSE] BY <2>1, Place
  <2>3. QED BY <1>3, <2>2 DEF Conn
<1>9. QED BY <1>4, <1>5, <1>6, <1>7, <1>8

LEMMA AbortEnds ==
  ASSUME Inv, NEW e \in Endpoints, NEW a, a # "none", conn' = [conn EXCEPT ![e] = [conn[e] EXCEPT !.abort = a]]
  PROVE  ~AtWork'
<1>1. conn[e] \in Conn /\ conn'[e] = [conn[e] EXCEPT !.abort = a] BY Place
<1>2. conn'[e].abort = a BY <1>1 DEF Conn
<1>3. QED BY <1>2 DEF AtWork, Running

-----------------------------------------------------------------------------
(* Steps of the server                                                     *)

LEMMA KeptElsewhere ==
  ASSUME NEW e, NEW S, Elsewhere(table'[e], table[e], S), NEW id \in StreamIds, id \notin S
  PROVE  TableKept(e, id)
BY DEF Elsewhere, TableKept

LEMMA ResetQueued ==
  ASSUME Working, NEW e \in Endpoints, NEW q \in Queues(e), q.syn = queue[e].syn, NEW k \in StreamIds, NEW code,
         queue'[e] = AddRst(table[e], q, k, code), NEW id \in StreamIds
  PROVE  /\ queue'[e].reg = q.reg /\ (id = k => ResetWaits(e, id)')
         /\ ResetWaits(e, id) => ResetWaits(e, id)'
         /\ ResetWaits(e, id)' => ResetWaits(e, id) \/ id = k
<1> DEFINE r == AddRst(table[e], q, k, code)
<1>1. /\ r.reg = q.reg /\ ToSet(queue[e].syn) \subseteq ToSet(r.syn)
      /\ \A f \in ToSet(r.syn) : f \in ToSet(queue[e].syn) \/ f.id = k
      /\ table[e].st[k] = "CLOSING" \/ \E f \in ToSet(r.syn) : f.id = k
  BY ResetAdded
<1> HIDE DEF r
<1>2. queue'[e] = r BY DEF r
<1>3. table[e].st[k] = "CLOSING" => \E f \in ToSet(queue[e].syn) : f.id = k
  BY DEF Working, StreamsQuiet, Settled, Closing, ResetWaits
<1>4. \E f \in ToSet(r.syn) : f.id = k BY <1>1, <1>3
<1>5. id = k => ResetWaits(e, id)' BY <1>2, <1>4 DEF ResetWaits
<1>6. ResetWaits(e, id) => ResetWaits(e, id)' BY <1>1, <1>2 DEF ResetWaits
<1>7. ResetWaits(e, id)' => ResetWaits(e, id) \/ id = k BY <1>1, <1>2 DEF ResetWaits
<1>8. QED BY <1>1, <1>2, <1>5, <1>6, <1>7

LEMMA ServerAppends ==
  ASSUME Inv, NEW f, queue'["server"].reg = Append(queue["server"].reg, f),
         queue'["server"].syn = queue["server"].syn, NEW id
  PROVE  /\ PromiseWaits(id)' <=> PromiseWaits(id) \/ Promise(f, id)
         /\ ResponseWaits(id)' <=> ResponseWaits(id) \/ Opener(f, id)
         /\ ResetWaits("server", id)' <=> ResetWaits("server", id)
<1>1. queue["server"].reg \in Seq(RegFrames("server")) BY Place, Ends DEF Queues
<1>2. ToSet(queue'["server"].reg) = ToSet(queue["server"].reg) \cup {f} BY <1>1, Elements
<1>3. QED BY <1>2 DEF PromiseWaits, ResponseWaits, ResetWaits

LEMMA ServerTakes ==
  ASSUME Inv, RegReady("server"), queue'["server"].reg = AfterReg("server").reg, NEW id
  PROVE  /\ PromiseWaits(id) <=> PromiseWaits(id)' \/ Promise(NextReg("server"), id)
         /\ ResponseWaits(id) <=> ResponseWaits(id)' \/ Opener(NextReg("server"), id)
<1>1. ToSet(queue["server"].reg) = ToSet(queue'["server"].reg) \cup {NextReg("server")} BY Taken, Ends
<1>2. QED BY <1>1 DEF PromiseWaits, ResponseWaits

LEMMA ServerStands ==
  ASSUME queue'["server"].reg = queue["server"].reg, NEW id
  PROVE  (PromiseWaits(id)' <=> PromiseWaits(id)) /\ (ResponseWaits(id)' <=> ResponseWaits(id))
BY DEF PromiseWaits, ResponseWaits

(* Taking the next frame: no promise behind it is of the same stream.      *)
LEMMA PromisesTail ==
  ASSUME Working, RegReady("server"), queue'["server"].reg = AfterReg("server").reg,
         conn'["server"].nextId = conn["server"].nextId,
         \/ conn'["server"].lastSent = conn["server"].lastSent
         \/ NextReg("server").type = "PUSH_PROMISE" /\ conn'["server"].lastSent = NextReg("server").arg
  PROVE  /\ PromisesQueued'
         /\ NextReg("server").type = "PUSH_PROMISE" =>
              /\ conn["server"].lastSent < NextReg("server").arg /\ NextReg("server").arg \in StreamIds
              /\ \A id \in StreamIds : id = NextReg("server").arg => ~PromiseWaits(id)'
<1> DEFINE s == queue["server"].reg
           f == NextReg("server")
           from == conn["server"].lastSent
           to == conn["server"].nextId
<1>1. /\ s \in Seq(RegFrames("server")) /\ s # << >> /\ queue'["server"].reg = Tail(s) /\ f = Head(s)
      /\ f \in RegFrames("server")
  BY Place, Ends, Taken, TakeOps DEF Working, Queues, NextReg
<1>2. PromisesRise(s, from, to) /\ from < to BY DEF Working, PromisesQueued
<1> HIDE DEF s, f, from, to
<1>3. /\ PromisesRise(Tail(s), from, to)
      /\ Head(s).type = "PUSH_PROMISE" => PromisesRise(Tail(s), Head(s).arg, to)
      /\ Head(s).type = "PUSH_PROMISE" => from < Head(s).arg /\ Head(s).arg < to
  BY <1>1, <1>2, RiseTail, Zenon
<1>4. PromisesQueued'
  <2>1. CASE conn'["server"].lastSent = from BY <1>1, <1>2, <1>3, <2>1 DEF PromisesQueued, to
  <2>2. CASE f.type = "PUSH_PROMISE" /\ conn'["server"].lastSent = f.arg
    BY <1>1, <1>2, <1>3, <2>2 DEF PromisesQueued, to
  <2>3. QED BY <2>1, <2>2 DEF f, from
<1>5. ASSUME f.type = "PUSH_PROMISE"
      PROVE  /\ from < f.arg /\ f.arg \in StreamIds
             /\ \A id \in StreamIds : id = f.arg => ~PromiseWaits(id)'
  <2>1. f.arg \in StreamIds BY <1>1, <1>5, FrameFacts, Ends
  <2>2. PromisesRise(Tail(s), f.arg, to) /\ from < f.arg BY <1>1, <1>3, <1>5
  <2>3. ASSUME NEW id \in StreamIds, id = f.arg PROVE ~PromiseWaits(id)'
    <3>1. \A i \in DOMAIN Tail(s) : Tail(s)[i].type = "PUSH_PROMISE" => id < Tail(s)[i].arg
      BY <2>2, <2>3 DEF PromisesRise
    <3>2. ~(id < id) BY DEF StreamIds
    <3>3. \A i \in DOMAIN Tail(s) : ~Promise(Tail(s)[i], id) BY <3>1, <3>2 DEF Promise
    <3>4. \A g \in ToSet(queue'["server"].reg) : ~Promise(g, id) BY <1>1, <3>3 DEF ToSet
    <3>5. QED BY <3>4 DEF PromiseWaits
  <2>4. QED BY <2>1, <2>2, <2>3
<1>6. QED BY <1>4, <1>5 DEF f, from

LEMMA SubmitResponseQuiet ==
  ASSUME Working, NEW k \in StreamIds, NEW end \in BOOLEAN, SubmitResponse(k, end) PROVE QuietInv'
<1> DEFINE f == Headers(k, end)
<1>0. Inv /\ Inv' /\ QuietInv /\ AtWork /\ "server" \in Endpoints BY Ends DEF Working
<1>1. Apart("server") BY <1>0, SubmitApart DEF Submit
<1>2. /\ UNCHANGED <<table, wire, conn>>
      /\ queue' = [queue EXCEPT !["server"] = [queue["server"] EXCEPT !.reg = Append(queue["server"].reg, f)]]
      /\ IsMine(TRUE, k) => k <= conn["server"].lastSent
  BY DEF SubmitResponse
<1>3. queue'["server"].reg = Append(queue["server"].reg, f) /\ queue'["server"].syn = queue["server"].syn
  <2> HIDE DEF f
  <2>1. /\ queue'["server"] = [queue["server"] EXCEPT !.reg = Append(queue["server"].reg, f)]
        /\ queue["server"] \in Queues("server")
    BY <1>0, <1>2, Place
  <2>2. QED BY <2>1 DEF Queues
<1>4. f.type = "HEADERS" /\ f.id = k BY PlainFrames
<1> HIDE DEF f
<1>5. CountersKept("server") BY <1>0, <1>2, Place, SameCounters DEF CountersKept
<1>6. PromisesQueued' BY <1>3, <1>4, <1>5, PromisesAppend DEF CountersKept, SameIds
<1>7. ASSUME NEW id \in StreamIds PROVE ServerStepOn(id)
  <2>1. ToClientKept(id) /\ ToServerKept(id) BY <1>2, WireStill DEF ToClientKept, ToServerKept
  <2>2. /\ PromiseWaits(id)' <=> PromiseWaits(id)
        /\ ResponseWaits(id)' <=> ResponseWaits(id) \/ id = k
        /\ ResetWaits("server", id)' <=> ResetWaits("server", id)
    BY <1>0, <1>3, <1>4, ServerAppends DEF Promise, Opener
  <2>3. TableKept("server", id) BY <1>2 DEF TableKept
  <2>4. Settled(id) /\ Orderly(id) BY DEF Working, StreamsQuiet
  <2>5. /\ LiveS(id)' <=> LiveS(id)
        /\ Closing("server", id)' => ResetWaits("server", id)'
        /\ LiveS(id)' => id \in table'["server"].rd
    BY <1>0, <1>2, <2>2, <2>4 DEF LiveS, Closing, Settled, Orderly
  <2>6. ResponseWaits(id)' /\ IsMine(TRUE, id) => id <= conn'["server"].lastSent
    BY <1>2, <2>2, <2>4 DEF Orderly
  <2>7. QED BY <1>2, <2>1, <2>2, <2>5, <2>6 DEF ToClientKept, ToServerKept, ServerStepOn
<1>8. ToServer' \subseteq ToServer BY <1>2, WireStill
<1>9. QED BY <1>0, <1>1, <1>5, <1>6, <1>7, <1>8, ServerQuiet DEF ServerStepQuiet, CountersKept, SameIds

LEMMA SubmitPushQuiet == ASSUME Working, NEW parent \in StreamIds, SubmitPush(parent) PROVE QuietInv'
<1> DEFINE c == conn["server"]
           k == c.nextId
           f == PushPromise(parent, k)
           d == [c EXCEPT !.nextId = c.nextId + 2]
           u == OpenStream(table["server"], TRUE, k, "RESERVED")
<1>0. Inv /\ Inv' /\ QuietInv /\ AtWork /\ "server" \in Endpoints BY Ends DEF Working
<1>1. Apart("server") BY <1>0, SubmitApart DEF Submit
<1>2. /\ UNCHANGED wire /\ k <= 2 * Pushes
      /\ conn' = [conn EXCEPT !["server"] = d] /\ table' = [table EXCEPT !["server"] = u]
      /\ queue' = [queue EXCEPT !["server"] = [queue["server"] EXCEPT !.reg = Append(queue["server"].reg, f)]]
  BY Ends DEF SubmitPush, SetConn, SetTable, LastId
<1>3. k \in StreamIds /\ IsMine(TRUE, k) /\ ~Announced("server", c, k)
  <2>1. k \in Nat /\ k % 2 = 0 /\ k > 0 BY <1>0, Here DEF Conn
  <2>2. QED BY <1>2, <2>1, Ends, SessionAssumption, MaxStreamIdAssumption DEF StreamIds, IsMine, Announced
<1>4. queue'["server"].reg = Append(queue["server"].reg, f) /\ queue'["server"].syn = queue["server"].syn
  <2> HIDE DEF f
  <2>1. /\ queue'["server"] = [queue["server"] EXCEPT !.reg = Append(queue["server"].reg, f)]
        /\ queue["server"] \in Queues("server")
    BY <1>0, <1>2, Place
  <2>2. QED BY <2>1 DEF Queues
<1>5. f.type = "PUSH_PROMISE" /\ f.arg = k BY DEF PushPromise, F
<1>6. /\ table'["server"] = u /\ conn'["server"] = d /\ c \in Conn
      /\ Later(d, c) /\ d.nextId = k + 2 /\ d.lastSent = c.lastSent
  <2>1. c \in Conn BY <1>0, Place
  <2>2. Later(d, c) BY <2>1, ConnOps
  <2>3. d.nextId = k + 2 /\ d.lastSent = c.lastSent BY <2>1 DEF Conn
  <2> HIDE DEF u, d, c
  <2>4. table'["server"] = u /\ conn'["server"] = d BY <1>0, <1>2, Place
  <2>5. QED BY <2>1, <2>2, <2>3, <2>4
<1>7. /\ Elsewhere(u, table["server"], {k}) /\ u.st[k] = "RESERVED" /\ k \in u.rd /\ u.wr = table["server"].wr
  <2>1. table["server"] \in Table BY <1>0, Place
  <2> HIDE DEF k
  <2>2. QED BY <1>3, <2>1, OpenElsewhere
<1>8. ~Live(table["server"], k) BY <1>0, <1>3, Here DEF Live, Known
<1> HIDE DEF u, d, f
<1>9. PromisesQueued'
  <2>1. c.lastSent < k BY DEF Working, PromisesQueued
  <2>2. k <= k /\ k < k + 2 /\ k \in Int BY <1>3 DEF StreamIds
  <2>3. QED BY <1>3, <1>4, <1>5, <1>6, <2>1, <2>2, PromisesAppend
<1>10. k <= k BY <1>3 DEF StreamIds
<1>11. ASSUME NEW id \in StreamIds PROVE ServerStepOn(id)
  <2>1. ToClientKept(id) /\ ToServerKept(id) BY <1>2, WireStill DEF ToClientKept, ToServerKept
  <2>2. /\ PromiseWaits(id)' <=> PromiseWaits(id) \/ id = k
        /\ ResponseWaits(id)' <=> ResponseWaits(id)
        /\ ResetWaits("server", id)' <=> ResetWaits("server", id)
    <3>1. (Promise(f, id) <=> id = k) /\ ~Opener(f, id) BY <1>5 DEF Promise, Opener
    <3>2. QED BY <1>0, <1>4, <3>1, ServerAppends
  <2>3. CASE id # k
    <3>1. TableKept("server", id)
      <4> DEFINE S == {k}
      <4>1. Elsewhere(table'["server"], table["server"], S) /\ id \notin S BY <1>6, <1>7, <2>3
      <4> HIDE DEF S
      <4>2. QED BY <4>1, KeptElsewhere
    <3>2. QED BY <1>6, <2>1, <2>2, <2>3, <3>1, ServerKeeps DEF ServerQueueKept
  <2>4. CASE id = k
    <3>1. LiveS(id)' /\ ~LiveS(id) /\ ~Closing("server", id)' /\ id \in table'["server"].rd
      BY <1>6, <1>7, <1>8, <2>4 DEF LiveS, Live, Closing
    <3>2. ResponseWaits(id)' /\ IsMine(TRUE, id) => id <= conn'["server"].lastSent
      BY <1>6, <2>2 DEF Working, StreamsQuiet, Orderly
    <3>3. id \in table'["server"].wr => id \in table["server"].wr BY <1>6, <1>7
    <3>4. IsMine(TRUE, id) /\ conn["server"].nextId <= id /\ PromiseWaits(id)'
      BY <1>3, <1>10, <2>2, <2>4
    <3>5. QED BY <2>1, <2>2, <3>1, <3>2, <3>3, <3>4 DEF ToClientKept, ToServerKept, ServerStepOn
  <2>5. QED BY <2>3, <2>4
<1>12. ToServer' \subseteq ToServer BY <1>2, WireStill
<1>13. QED BY <1>0, <1>1, <1>6, <1>9, <1>11, <1>12, ServerQuiet DEF ServerStepQuiet

(* A stream is marked closing and its RST_STREAM queued.                   *)
LEMMA ServerMarks ==
  ASSUME Working, Apart("server"), CountersKept("server"), UNCHANGED wire, PromisesQueued',
         NEW k \in StreamIds, NEW q \in Queues("server"), q.syn = queue["server"].syn, NEW code,
         table'["server"] = MarkClosing(table["server"], k),
         queue'["server"] = AddRst(table["server"], q, k, code),
         \A id \in StreamIds : (PromiseWaits(id)' <=> PromiseWaits(id)) /\ (ResponseWaits(id)' => ResponseWaits(id))
  PROVE  QuietInv'
<1> DEFINE t == table["server"]
<1>0. Inv /\ Inv' /\ QuietInv /\ AtWork /\ "server" \in Endpoints BY Ends DEF Working
<1>1. /\ Elsewhere(MarkClosing(t, k), t, {k}) /\ (Live(MarkClosing(t, k), k) <=> Live(t, k))
      /\ MarkClosing(t, k).rd = t.rd /\ MarkClosing(t, k).wr = t.wr
  BY <1>0, Place, StateElsewhere
<1>2. ASSUME NEW id \in StreamIds PROVE ServerStepOn(id)
  <2>1. ToClientKept(id) /\ ToServerKept(id) BY WireStill DEF ToClientKept, ToServerKept
  <2>2. /\ id = k => ResetWaits("server", id)'
        /\ ResetWaits("server", id) => ResetWaits("server", id)'
    BY <1>0, ResetQueued
  <2>3. Settled(id) /\ Orderly(id) BY DEF Working, StreamsQuiet
  <2>4. LiveS(id)' <=> LiveS(id) BY <1>1 DEF LiveS, Elsewhere
  <2>5. Closing("server", id)' => ResetWaits("server", id)'
    <3>1. CASE id = k BY <2>2, <3>1
    <3>2. CASE id # k
      <4>1. Closing("server", id)' => LiveS(id) BY <2>4, ClosingLive DEF Closing, LiveS
      <4>2. Closing("server", id)' => Closing("server", id) BY <1>1, <3>2, <4>1 DEF Closing, LiveS, Elsewhere
      <4>3. QED BY <1>0, <2>2, <2>3, <4>2 DEF Settled
    <3>3. QED BY <3>1, <3>2
  <2>6. /\ LiveS(id)' => id \in table'["server"].rd
        /\ id \in table'["server"].wr => id \in table["server"].wr
    BY <1>1, <2>3, <2>4 DEF Orderly
  <2>7. ResponseWaits(id)' /\ IsMine(TRUE, id) => id <= conn'["server"].lastSent
    BY <2>3 DEF Orderly, CountersKept, SameIds
  <2>8. QED BY <2>1, <2>2, <2>4, <2>5, <2>6, <2>7 DEF ToClientKept, ToServerKept, ServerStepOn
<1>3. ToServer' \subseteq ToServer BY WireStill
<1>4. QED BY <1>0, <1>2, <1>3, ServerQuiet DEF ServerStepQuiet, CountersKept, SameIds

LEMMA ServerSubmitRstQuiet ==
  ASSUME Working, NEW k \in StreamIds, SubmitRst("server", k) PROVE QuietInv'
<1>0. Inv /\ "server" \in Endpoints BY Ends DEF Working
<1>1. Apart("server") BY <1>0, SubmitApart DEF Submit
<1>2. /\ UNCHANGED <<wire, conn>>
      /\ table' = [table EXCEPT !["server"] = MarkClosing(table["server"], k)]
      /\ queue' = [queue EXCEPT !["server"] = AddRst(table["server"], queue["server"], k, "CANCEL")]
  BY Ends DEF SubmitRst, SetTable
<1>3. /\ table'["server"] = MarkClosing(table["server"], k)
      /\ queue'["server"] = AddRst(table["server"], queue["server"], k, "CANCEL")
      /\ queue["server"] \in Queues("server")
  BY <1>0, <1>2, Place
<1>4. queue'["server"].reg = queue["server"].reg BY <1>0, <1>3, ResetAdded
<1>5. CountersKept("server") BY <1>0, <1>2, Place, SameCounters DEF CountersKept
<1>6. PromisesQueued' BY <1>4, <1>5, PromisesStay
<1>7. \A id \in StreamIds : (PromiseWaits(id)' <=> PromiseWaits(id)) /\ (ResponseWaits(id)' => ResponseWaits(id))
  BY <1>4, ServerStands
<1>8. QED BY <1>1, <1>2, <1>3, <1>5, <1>6, <1>7, ServerMarks

(* A response sent leaves the stream opened, or ends it.                   *)
LEMMA ResponseElsewhere ==
  ASSUME NEW t, Good(t, TRUE), NEW k \in StreamIds, NEW end \in BOOLEAN,
         t.st[k] \in {"RESERVED", "OPENING"}, k \in t.rd
  PROVE  /\ Elsewhere(ResponseSent(t, k, end), t, {k})
         /\ IF end THEN ~Live(ResponseSent(t, k, end), k)
                   ELSE Live(ResponseSent(t, k, end), k) /\ ResponseSent(t, k, end).st[k] = "OPENED"
         /\ k \in ResponseSent(t, k, end).rd \/ ~Live(ResponseSent(t, k, end), k)
<1> DEFINE u == ResponseSent(t, k, end)
           o == IF t.st[k] = "RESERVED" THEN PushResponseSent(t, k) ELSE SetState(t, k, "OPENED")
<1>0. t \in Table /\ Live(t, k) BY DEF Good, Live
<1>1. Elsewhere(o, t, {k}) /\ o.st[k] = "OPENED" /\ o.rd = t.rd /\ o.wr = t.wr
  <2>1. /\ Elsewhere(PushResponseSent(t, k), t, {k}) /\ PushResponseSent(t, k).st[k] = "OPENED"
        /\ PushResponseSent(t, k).rd = t.rd /\ PushResponseSent(t, k).wr = t.wr
    BY <1>0, MovesElsewhere
  <2>2. /\ Elsewhere(SetState(t, k, "OPENED"), t, {k}) /\ SetState(t, k, "OPENED").st[k] = "OPENED"
        /\ SetState(t, k, "OPENED").rd = t.rd /\ SetState(t, k, "OPENED").wr = t.wr
    <3> DEFINE z == "OPENED"
    <3> HIDE DEF z
    <3>1. /\ Elsewhere(SetState(t, k, z), t, {k}) /\ SetState(t, k, z).st[k] = z
          /\ SetState(t, k, z).rd = t.rd /\ SetState(t, k, z).wr = t.wr
      BY <1>0, StateElsewhere
    <3>2. QED BY <3>1 DEF z
  <2>3. CASE t.st[k] = "RESERVED" BY <2>1, <2>3
  <2>4. CASE t.st[k] # "RESERVED" BY <2>2, <2>4
  <2>5. QED BY <2>3, <2>4
<1>2. o \in Table
  <2>1. t.st[k] = "RESERVED" => PushResponseSent(t, k) \in Table BY PushResponseSentGood DEF Good
  <2>2. ASSUME t.st[k] = "OPENING" PROVE SetState(t, k, "OPENED") \in Table
    <3>1. k \notin t.push BY <2>2 DEF Good, TableShape
    <3>2. QED BY <1>0, <3>1, SetStateGood DEF Good
  <2>3. QED BY <2>1, <2>2
<1>3. u = IF end THEN CloseIfShut(ShutWr(o, k), TRUE, k) ELSE Attach(o, k) BY DEF ResponseSent
<1> HIDE DEF o, u
<1>4. CASE end
  <2> DEFINE w == ShutWr(o, k)
  <2>1. /\ Elsewhere(w, o, {k}) /\ w.rd = o.rd /\ k \in w.wr /\ w \in Table
    BY <1>2, FlagsElsewhere DEF ShutWr, Table
  <2> HIDE DEF w
  <2>2. Elsewhere(CloseIfShut(w, TRUE, k), w, {k}) /\ ~Live(CloseIfShut(w, TRUE, k), k)
    BY <1>1, <2>1, CloseElsewhere DEF ShutRdWr
  <2>3. Elsewhere(w, t, {k} \cup {k}) BY <1>1, <2>1, ElsewhereTwice
  <2>4. Elsewhere(CloseIfShut(w, TRUE, k), t, ({k} \cup {k}) \cup {k}) BY <2>2, <2>3, ElsewhereTwice
  <2>5. ({k} \cup {k}) \cup {k} = {k} OBVIOUS
  <2>6. QED BY <1>3, <1>4, <2>2, <2>4, <2>5 DEF w, u
<1>5. CASE ~end
  <2>1. u = Attach(o, k) BY <1>3, <1>5
  <2>2. Elsewhere(u, o, {}) /\ u.st = o.st BY <1>2, <2>1, FlagsElsewhere
  <2>3. u.rd = o.rd BY <1>2, <2>1 DEF Attach, Table
  <2>4. Elsewhere(u, t, {k} \cup {}) BY <1>1, <2>2, ElsewhereTwice
  <2>5. {k} \cup {} = {k} OBVIOUS
  <2>6. QED BY <1>1, <1>5, <2>2, <2>3, <2>4, <2>5 DEF Live, u
<1>6. QED BY <1>4, <1>5

LEMMA SendResponseQuiet == ASSUME Working, SendResponse PROVE QuietInv'
<1> DEFINE t == table["server"]
           f == NextReg("server")
           k == f.id
           u == ResponseSent(t, k, f.end)
           q == AfterReg("server")
<1>0. Inv /\ Inv' /\ QuietInv /\ AtWork /\ "server" \in Endpoints BY Ends DEF Working
<1>1. Apart("server") BY <1>0, SendApart DEF Send
<1>2. RegReady("server") /\ f.type = "HEADERS" /\ UNCHANGED conn BY DEF SendResponse
<1>3. CountersKept("server") BY <1>0, <1>2, Place, SameCounters DEF CountersKept
<1>4. k \in StreamIds /\ f.end \in BOOLEAN BY <1>0, <1>2, Named
<1>5. q \in Queues("server") /\ q.syn = queue["server"].syn BY <1>0, <1>2, Taken
<1>6. ASSUME queue'["server"].reg = q.reg
      PROVE  /\ PromisesQueued'
             /\ \A id \in StreamIds : (PromiseWaits(id)' <=> PromiseWaits(id)) /\ (ResponseWaits(id)' => ResponseWaits(id))
  <2>1. PromisesQueued' BY <1>2, <1>3, <1>6, PromisesTail DEF CountersKept, SameIds
  <2>2. ASSUME NEW id \in StreamIds
        PROVE (PromiseWaits(id)' <=> PromiseWaits(id)) /\ (ResponseWaits(id)' => ResponseWaits(id))
    <3>1. ~Promise(f, id) BY <1>2 DEF Promise
    <3>2. QED BY <1>0, <1>2, <1>6, <3>1, ServerTakes
  <2>3. QED BY <2>1, <2>2
<1>7. CASE /\ table' = [table EXCEPT !["server"] = MarkClosing(t, k)]
           /\ queue' = [queue EXCEPT !["server"] = AddRst(t, q, k, "INTERNAL_ERROR")]
           /\ UNCHANGED wire
  <2> HIDE DEF k, q, f
  <2>1. /\ table'["server"] = MarkClosing(t, k)
        /\ queue'["server"] = AddRst(t, q, k, "INTERNAL_ERROR")
    BY <1>0, <1>7, Place
  <2>2. queue'["server"].reg = q.reg BY <1>0, <1>5, <2>1, ResetAdded
  <2>3. QED BY <1>1, <1>3, <1>4, <1>5, <1>6, <1>7, <2>1, <2>2, ServerMarks
<1>8. CASE /\ MayRespond(t, q, conn["server"], k)
           /\ table' = [table EXCEPT !["server"] = u]
           /\ queue' = [queue EXCEPT !["server"] = q]
           /\ Transmit("server", f)
  <2>0. t \in Table BY <1>0, Place
  <2>1. table'["server"] = u /\ queue'["server"] = q
    <3> HIDE DEF u, q, f
    <3>1. QED BY <1>0, <1>8, Place
  <2>2. /\ PromisesQueued'
        /\ \A id \in StreamIds : (PromiseWaits(id)' <=> PromiseWaits(id)) /\ (ResponseWaits(id)' => ResponseWaits(id))
    BY <1>6, <2>1
  <2>3. t.st[k] \in {"RESERVED", "OPENING"} /\ Live(t, k) BY <1>8 DEF MayRespond, Live
  <2>4. k \in t.rd BY <1>4, <2>3 DEF Working, StreamsQuiet, Orderly, LiveS
  <2>5. /\ Elsewhere(u, t, {k}) /\ (IF f.end THEN ~Live(u, k) ELSE Live(u, k) /\ u.st[k] = "OPENED")
        /\ k \in u.rd \/ ~Live(u, k)
    <3>1. Good(t, TRUE) BY <1>0, Here, Ends
    <3> HIDE DEF t, k, f
    <3>2. QED BY <1>4, <2>3, <2>4, <3>1, ResponseElsewhere
  <2>6. k <= conn["server"].lastSent \/ IsMine(FALSE, k)
    <3>1. ResponseWaits(k)
      <4>1. f \in ToSet(queue["server"].reg) BY <1>0, <1>2, Taken
      <4>2. QED BY <1>2, <4>1 DEF ResponseWaits, Opener
    <3>2. QED BY <1>4, <3>1, Parity DEF Working, StreamsQuiet, Orderly, IsMine
  <2> HIDE DEF u, k, f, q, t
  <2>7. ASSUME NEW id \in StreamIds PROVE ServerStepOn(id)
    <3>1. /\ EndComes(id)' <=> EndComes(id) \/ LastFrame(f, id)
          /\ PromiseComes(id)' <=> PromiseComes(id) \/ Promise(f, id)
          /\ Unended(wire["client"], id)' => \/ Promise(f, id)
                                             \/ Unended(wire["client"], id) /\ ~LastFrame(f, id)
          /\ RequestComes(id)' <=> RequestComes(id)
          /\ ResetComes(id)' <=> ResetComes(id)
      BY <1>0, <1>8, ServerSends
    <3>2. ~Promise(f, id) /\ (LastFrame(f, id) <=> id = k /\ f.end) BY <1>2, <1>4 DEF Promise, LastFrame, k, f
    <3>3. ResetWaits("server", id)' <=> ResetWaits("server", id) BY <1>5, <2>1 DEF ResetWaits
    <3>4. (PromiseWaits(id)' <=> PromiseWaits(id)) /\ (ResponseWaits(id)' => ResponseWaits(id)) BY <2>2
    <3>5. CASE id # k
      <4> DEFINE S == {k}
      <4>1. Elsewhere(table'["server"], table["server"], S) /\ id \notin S BY <2>1, <2>5, <3>5 DEF t
      <4> HIDE DEF S
      <4>2. TableKept("server", id) BY <4>1, KeptElsewhere
      <4>3. QED BY <1>3, <3>1, <3>2, <3>3, <3>4, <3>5, <4>2, ServerKeeps
                DEF ToClientKept, ToServerKept, ServerQueueKept, CountersKept, SameIds
    <3>6. CASE id = k
      <4>1. LiveS(id) /\ (LiveS(id)' <=> ~f.end) /\ ~Closing("server", id)'
        <5>1. LiveS(id) BY <2>3, <3>6 DEF LiveS, t
        <5>2. LiveS(id)' <=> ~f.end BY <2>1, <2>5, <3>6 DEF LiveS
        <5>3. f.end => ~Closing("server", id)' BY <2>1, <2>5, <3>6, ClosingLive DEF Closing
        <5>4. ~f.end => ~Closing("server", id)' BY <2>1, <2>5, <3>6 DEF Closing
        <5>5. QED BY <5>1, <5>2, <5>3, <5>4
      <4>2. LiveS(id)' => id \in table'["server"].rd BY <2>1, <2>5, <3>6 DEF LiveS
      <4>3. Given("server", conn'["server"], id)
        <5>1. Given("server", conn["server"], id) BY <1>0, <4>1, LiveGiven DEF LiveS, Working
        <5>2. QED BY <1>2, <5>1
      <4>4. ~PromiseWaits(id)
        <5>1. PromiseWaits(id) => conn["server"].lastSent < id
          BY DEF Working, PromisesQueued, PromisesRise, PromiseWaits, Promise, ToSet
        <5>2. PromiseWaits(id) => IsMine(TRUE, id) BY <1>0, PromisedEven
        <5>3. IsMine(TRUE, id) <=> ~IsMine(FALSE, id) BY Parity
        <5>4. conn["server"].lastSent < id => ~(id <= conn["server"].lastSent)
          <6>1. conn["server"].lastSent \in Int /\ id \in Int BY <1>0, Counters
          <6>2. QED BY <6>1
        <5>5. QED BY <2>6, <3>6, <5>1, <5>2, <5>3, <5>4
      <4>5. ResponseWaits(id)' /\ IsMine(TRUE, id) => id <= conn'["server"].lastSent
        BY <1>2, <3>4 DEF Working, StreamsQuiet, Orderly
      <4>6. QED BY <3>1, <3>2, <3>3, <3>4, <3>6, <4>1, <4>2, <4>3, <4>4, <4>5 DEF ServerStepOn
    <3>7. QED BY <3>5, <3>6
  <2>8. ToServer' \subseteq ToServer BY <1>0, <1>8, ServerSends
  <2>9. QED BY <1>0, <1>1, <1>3, <2>2, <2>7, <2>8, ServerQuiet DEF ServerStepQuiet, CountersKept, SameIds
<1>9. QED BY <1>7, <1>8 DEF SendResponse, SetTable, SetQueue

LEMMA SendPromiseQuiet == ASSUME Working, SendPromise PROVE QuietInv'
<1> DEFINE t == table["server"]
           c == conn["server"]
           f == NextReg("server")
           k == f.arg
           q == AfterReg("server")
<1>0. Inv /\ Inv' /\ QuietInv /\ AtWork /\ AtWork' /\ "server" \in Endpoints BY Ends DEF Working
<1>1. Apart("server") BY <1>0, SendApart DEF Send
<1>2. RegReady("server") /\ f.type = "PUSH_PROMISE" /\ queue' = [queue EXCEPT !["server"] = q]
  BY DEF SendPromise, SetQueue
<1>3. q.syn = queue["server"].syn /\ k \in StreamIds /\ t \in Table /\ c \in Conn
  BY <1>0, <1>2, Taken, Named, Place
<1>4. queue'["server"].reg = AfterReg("server").reg /\ queue'["server"].syn = queue["server"].syn
  <2> HIDE DEF q
  <2>1. queue'["server"] = q BY <1>0, <1>2, Place
  <2>2. QED BY <1>3, <2>1 DEF q
<1>5. PromiseWaits(k)
  <2>1. f \in ToSet(queue["server"].reg) BY <1>0, <1>2, Taken
  <2>2. QED BY <1>2, <2>1 DEF PromiseWaits, Promise
<1>6. ASSUME NEW id \in StreamIds
      PROVE  /\ PromiseWaits(id) <=> PromiseWaits(id)' \/ id = k
             /\ ResponseWaits(id)' => ResponseWaits(id)
             /\ ResetWaits("server", id)' <=> ResetWaits("server", id)
             /\ Promise(f, id) <=> id = k
             /\ ~LastFrame(f, id)
  <2>1. (Promise(f, id) <=> id = k) /\ ~LastFrame(f, id) BY <1>2 DEF Promise, LastFrame
  <2> HIDE DEF k, f
  <2>2. QED BY <1>0, <1>2, <1>4, <2>1, ServerTakes DEF ResetWaits, f
<1>7. CASE /\ table' = [table EXCEPT !["server"] = CloseStream(t, TRUE, k)]
           /\ UNCHANGED <<conn, wire>>
  <2>1. CountersKept("server") BY <1>0, <1>7, Place, SameCounters DEF CountersKept
  <2>2. PromisesQueued' /\ \A id \in StreamIds : id = k => ~PromiseWaits(id)'
    BY <1>2, <1>4, <2>1, PromisesTail DEF CountersKept, SameIds
  <2> HIDE DEF t, k, f, q
  <2>3. table'["server"] = CloseStream(t, TRUE, k) BY <1>0, <1>7, Place
  <2>4. /\ Elsewhere(CloseStream(t, TRUE, k), t, {k}) /\ ~Live(CloseStream(t, TRUE, k), k)
        /\ CloseStream(t, TRUE, k).wr \subseteq t.wr
    BY <1>3, CloseElsewhere
  <2>5. ASSUME NEW id \in StreamIds PROVE ServerStepOn(id)
    <3>1. ToClientKept(id) /\ ToServerKept(id) BY <1>7, WireStill DEF ToClientKept, ToServerKept
    <3>2. CASE id # k
      <4> DEFINE S == {k}
      <4>1. Elsewhere(table'["server"], table["server"], S) /\ id \notin S BY <2>3, <2>4, <3>2 DEF t
      <4> HIDE DEF S
      <4>2. TableKept("server", id) BY <4>1, KeptElsewhere
      <4>3. QED BY <1>6, <2>1, <3>1, <3>2, <4>2, ServerKeeps DEF ServerQueueKept, CountersKept, SameIds
    <3>3. CASE id = k
      <4>1. ~LiveS(id)' /\ ~Closing("server", id)'
        BY <2>3, <2>4, <3>3, ClosingLive DEF LiveS, Closing
      <4>2. PromiseWaits(id) /\ ~PromiseWaits(id)' BY <1>6, <2>2, <3>3
      <4>3. id \in table'["server"].wr => id \in table["server"].wr BY <2>3, <2>4 DEF t
      <4>4. ResponseWaits(id)' /\ IsMine(TRUE, id) => id <= conn'["server"].lastSent
        BY <1>6, <1>7 DEF Working, StreamsQuiet, Orderly
      <4>5. QED BY <1>6, <3>1, <4>1, <4>2, <4>3, <4>4 DEF ToClientKept, ToServerKept, ServerStepOn
    <3>4. QED BY <3>2, <3>3
  <2>6. ToServer' \subseteq ToServer BY <1>7, WireStill
  <2>7. QED BY <1>0, <1>1, <2>1, <2>2, <2>5, <2>6, ServerQuiet DEF ServerStepQuiet, CountersKept, SameIds
<1>8. CASE /\ conn' = [conn EXCEPT !["server"] = [c EXCEPT !.lastSent = k]]
           /\ Transmit("server", f) /\ UNCHANGED table
  <2>1. PromisesRise(queue["server"].reg, c.lastSent, c.nextId) BY DEF Working, PromisesQueued
  <2>2. c.lastSent < k BY <1>5, <2>1 DEF PromiseWaits, Promise, PromisesRise, ToSet
  <2>3. /\ Later(conn'["server"], c) /\ conn'["server"].lastSent = k /\ conn'["server"].nextId = c.nextId
    <3> HIDE DEF k, c
    <3>1. Later([c EXCEPT !.lastSent = k], c) BY <1>3, <2>2, ConnOps
    <3>2. [c EXCEPT !.lastSent = k].lastSent = k /\ [c EXCEPT !.lastSent = k].nextId = c.nextId BY <1>3 DEF Conn
    <3>3. conn'["server"] = [c EXCEPT !.lastSent = k] BY <1>0, <1>8, Place
    <3>4. QED BY <3>1, <3>2, <3>3
  <2>4. PromisesQueued' BY <1>2, <1>4, <2>3, PromisesTail
  <2>5. k <= k BY <1>3 DEF StreamIds
  <2>6. ToServer' \subseteq ToServer BY <1>0, <1>8, ServerSends
  <2>7. ASSUME NEW id \in StreamIds PROVE ServerStepOn(id)
    <3>1. /\ EndComes(id)' <=> EndComes(id) \/ LastFrame(f, id)
          /\ PromiseComes(id)' <=> PromiseComes(id) \/ Promise(f, id)
          /\ Unended(wire["client"], id)' => \/ Promise(f, id)
                                             \/ Unended(wire["client"], id) /\ ~LastFrame(f, id)
          /\ RequestComes(id)' <=> RequestComes(id)
          /\ ResetComes(id)' <=> ResetComes(id)
      BY <1>0, <1>8, ServerSends
    <3>2. Settled(id) /\ Orderly(id) BY DEF Working, StreamsQuiet
    <3>3. LiveS(id)' = LiveS(id) /\ Closing("server", id)' = Closing("server", id)
      BY <1>8 DEF LiveS, Closing
    <3>4. id = k => LiveS(id) BY <1>5, <1>6, <3>2 DEF Settled
    <3>5. Closing("server", id)' => ResetWaits("server", id)' BY <1>0, <1>6, <3>2, <3>3 DEF Settled
    <3>6. ResponseWaits(id)' /\ IsMine(TRUE, id) => id <= conn'["server"].lastSent
      BY <1>0, <1>6, <2>3, <3>2, LaterCounters DEF Orderly
    <3>7. /\ LiveS(id)' => id \in table'["server"].rd
          /\ id \in table'["server"].wr => id \in table["server"].wr
      BY <1>8, <3>2, <3>3 DEF Orderly
    <3>8. id = k => id <= conn'["server"].lastSent BY <2>3, <2>5
    <3> HIDE DEF k, f, c, t, q
    <3>9. QED BY <1>6, <3>1, <3>3, <3>4, <3>5, <3>6, <3>7, <3>8 DEF ServerStepOn
  <2>8. QED BY <1>0, <1>1, <2>3, <2>4, <2>6, <2>7, ServerQuiet DEF ServerStepQuiet
<1>9. CASE conn' = [conn EXCEPT !["server"] = [c EXCEPT !.abort = "stream ids increase"]]
  BY <1>0, <1>9, AbortEnds
<1>10. QED BY <1>7, <1>8, <1>9 DEF SendPromise, SetTable, SetConn

(* The last frame of a stream is sent while no HEADERS waits.              *)
ResetsLeft(k) == \A id \in StreamIds : ResetWaits("server", id) => ResetWaits("server", id)' \/ id = k

LEMMA ServerEnds ==
  ASSUME Working, Apart("server"), UNCHANGED conn,
         NEW k \in StreamIds, NEW f, Transmit("server", f), f.id = k,
         f.type = "RST_STREAM" \/ (f.type = "DATA" /\ f.end),
         NEW u, table'["server"] = u, Elsewhere(u, table["server"], {k}), ~Live(u, k),
         k \in u.wr => k \in table["server"].wr \/ LiveS(k),
         queue["server"].reg = << >>, queue'["server"].reg = queue["server"].reg, ResetsLeft(k),
         Given("server", conn["server"], k)
  PROVE  QuietInv'
<1>0. Inv /\ Inv' /\ QuietInv /\ AtWork /\ "server" \in Endpoints BY Ends DEF Working
<1>1. CountersKept("server") BY <1>0, Place, SameCounters DEF CountersKept
<1>2. PromisesQueued' BY <1>1, PromisesStay
<1>3. ASSUME NEW id \in StreamIds PROVE ServerStepOn(id)
  <2>1. /\ EndComes(id)' <=> EndComes(id) \/ LastFrame(f, id)
        /\ PromiseComes(id)' <=> PromiseComes(id) \/ Promise(f, id)
        /\ Unended(wire["client"], id)' => \/ Promise(f, id)
                                           \/ Unended(wire["client"], id) /\ ~LastFrame(f, id)
        /\ RequestComes(id)' <=> RequestComes(id)
        /\ ResetComes(id)' <=> ResetComes(id)
    BY <1>0, ServerSends
  <2>2. (LastFrame(f, id) <=> id = k) /\ ~Promise(f, id) BY DEF LastFrame, Promise
  <2>3. ~PromiseWaits(id) /\ ~PromiseWaits(id)' /\ ~ResponseWaits(id) /\ ~ResponseWaits(id)'
    <3>1. ToSet(queue["server"].reg) = {} BY DEF ToSet
    <3>2. QED BY <3>1 DEF PromiseWaits, ResponseWaits
  <2>4. ResetWaits("server", id) => ResetWaits("server", id)' \/ id = k BY DEF ResetsLeft
  <2>5. CASE id # k
    <3> DEFINE S == {k}
    <3>1. Elsewhere(table'["server"], table["server"], S) /\ id \notin S BY <2>5
    <3> HIDE DEF S
    <3>2. TableKept("server", id) BY <3>1, KeptElsewhere
    <3>3. QED BY <1>1, <2>1, <2>2, <2>3, <2>4, <2>5, <3>2, ServerKeeps
              DEF ToClientKept, ToServerKept, ServerQueueKept, CountersKept, SameIds
  <2>6. CASE id = k
    <3>1. ~LiveS(id)' /\ ~Closing("server", id)' BY <2>6, ClosingLive DEF LiveS, Closing
    <3>2. id \in table'["server"].wr => id \in table["server"].wr \/ LiveS(id) BY <2>6
    <3>3. Given("server", conn'["server"], id) BY <2>6
    <3>4. QED BY <2>1, <2>2, <2>3, <2>4, <2>6, <3>1, <3>2, <3>3 DEF ServerStepOn
  <2>7. QED BY <2>5, <2>6
<1>4. ToServer' \subseteq ToServer BY <1>0, ServerSends
<1>5. QED BY <1>0, <1>1, <1>2, <1>3, <1>4, ServerQuiet DEF ServerStepQuiet, CountersKept, SameIds

LEMMA ServerSendRstQuiet == ASSUME Working, SendRst("server") PROVE QuietInv'
<1> DEFINE t == table["server"]
           f == Head(queue["server"].syn)
           k == f.id
           q == AfterSyn("server")
           u == CloseStream(t, TRUE, k)
<1>0. Inv /\ Inv' /\ EndInv /\ QuietInv /\ AtWork /\ "server" \in Endpoints BY Ends DEF Working
<1>1. Apart("server") BY <1>0, SendApart DEF Send
<1>2. ~IsClosing(t, q, conn["server"]) BY <1>0, Open
<1>3. /\ SynReady("server") /\ queue' = [queue EXCEPT !["server"] = q]
      /\ table' = [table EXCEPT !["server"] = u] /\ Transmit("server", f) /\ UNCHANGED conn
  BY <1>2, Ends DEF SendRst, SetQueue, SetTable
<1>4. /\ ToSet(queue["server"].syn) = ToSet(q.syn) \cup {f} /\ q.reg = queue["server"].reg
      /\ queue["server"].reg = << >> /\ queue["server"].syn # << >>
  BY <1>0, <1>3, Taken DEF SynReady
<1>5. k \in StreamIds /\ f.type = "RST_STREAM" /\ t \in Table
  <2>1. f \in SynFrames BY <1>0, <1>3, TakeOps
  <2>2. QED BY <1>0, <2>1, Place DEF SynFrames
<1>6. Given("server", conn["server"], k)
  <2>1. QueueOK("server", queue["server"], conn["server"], Ended("server")) /\ queue["server"] \in Queues("server")
    BY <1>0, EndParts
  <2>2. QED BY <1>0, <1>4, <2>1, TakeOK
<1> HIDE DEF t, k, f, q, u
<1>7. table'["server"] = u /\ queue'["server"] = q BY <1>0, <1>3, Place
<1>8. /\ Elsewhere(u, table["server"], {k}) /\ ~Live(u, k)
      /\ k \in u.wr => k \in table["server"].wr \/ LiveS(k)
  BY <1>5, CloseElsewhere DEF u, t
<1>9. ResetsLeft(k) BY <1>4, <1>7 DEF ResetsLeft, ResetWaits, k
<1>10. f.id = k BY DEF k
<1>11. queue'["server"].reg = queue["server"].reg BY <1>4, <1>7
<1>12. QED BY <1>1, <1>3, <1>4, <1>5, <1>6, <1>7, <1>8, <1>9, <1>10, <1>11, ServerEnds

LEMMA ServerSendDataQuiet ==
  ASSUME Working, NEW k \in StreamIds, SendData("server", k) PROVE QuietInv'
<1> DEFINE t == table["server"]
           d == Detach(t, k)
           w == ShutWr(d, k)
           u == CloseIfShut(w, TRUE, k)
<1>0. Inv /\ Inv' /\ EndInv /\ QuietInv /\ AtWork /\ "server" \in Endpoints BY Ends DEF Working
<1>1. Apart("server") BY <1>0, SendApart DEF Send
<1>2. /\ DataReady("server") /\ k \in t.item /\ UNCHANGED <<queue, conn>>
      /\ \/ table' = [table EXCEPT !["server"] = u] /\ Transmit("server", Data(k))
         \/ table' = [table EXCEPT !["server"] = d] /\ UNCHANGED wire
  BY Ends DEF SendData, SetTable
<1>3. queue["server"].reg = << >> /\ queue'["server"] = queue["server"] BY <1>2 DEF DataReady
<1>4. t \in Table /\ Live(t, k) BY <1>0, <1>2, EndParts DEF TableOK, LiveStreams
<1>5. k \in t.rd BY <1>4 DEF Working, StreamsQuiet, Orderly, LiveS
<1>6. Given("server", conn["server"], k) BY <1>0, <1>4, LiveGiven
<1> HIDE DEF t
<1>7. Elsewhere(d, t, {}) /\ d.rd = t.rd /\ d.wr = t.wr /\ d \in Table
  <2>1. d \in Table BY <1>4 DEF Detach, Table
  <2>2. QED BY <1>4, <2>1, FlagsElsewhere
<1> HIDE DEF d
<1>8. Elsewhere(w, d, {k}) /\ w.rd = d.rd /\ k \in w.wr /\ w \in Table
  <2>1. w \in Table BY <1>7 DEF ShutWr, Table
  <2>2. QED BY <1>7, <2>1, FlagsElsewhere
<1> HIDE DEF w
<1>9. CASE table' = [table EXCEPT !["server"] = u] /\ Transmit("server", Data(k))
  <2>1. Elsewhere(u, w, {k}) /\ ~Live(u, k) BY <1>5, <1>7, <1>8, CloseElsewhere DEF ShutRdWr
  <2> HIDE DEF u
  <2>2. Elsewhere(w, t, {} \cup {k}) BY <1>7, <1>8, ElsewhereTwice
  <2>3. Elsewhere(u, t, ({} \cup {k}) \cup {k}) BY <2>1, <2>2, ElsewhereTwice
  <2>4. ({} \cup {k}) \cup {k} = {k} OBVIOUS
  <2>5. Elsewhere(u, table["server"], {k}) BY <2>3, <2>4 DEF t
  <2>6. table'["server"] = u BY <1>0, <1>9, Place
  <2>7. LiveS(k) BY <1>4 DEF LiveS, t
  <2>8. ResetsLeft(k) BY <1>3 DEF ResetsLeft, ResetWaits
  <2> DEFINE f == Data(k)
  <2>9. f.id = k /\ f.type = "DATA" /\ f.end /\ Transmit("server", f) BY <1>9, PlainFrames
  <2> HIDE DEF f
  <2>10. UNCHANGED conn /\ queue'["server"].reg = queue["server"].reg BY <1>2
  <2>11. QED BY <1>1, <1>3, <1>6, <2>1, <2>5, <2>6, <2>7, <2>8, <2>9, <2>10, ServerEnds
<1>10. CASE table' = [table EXCEPT !["server"] = d] /\ UNCHANGED wire
  <2>1. table'["server"] = d BY <1>0, <1>10, Place
  <2>2. CountersKept("server") BY <1>0, <1>2, Place, SameCounters DEF CountersKept
  <2>3. PromisesQueued' BY <1>3, <2>2, PromisesStay
  <2>4. ASSUME NEW id \in StreamIds PROVE ServerStepOn(id)
    <3>1. TableKept("server", id)
      <4> DEFINE S == {}
      <4>1. Elsewhere(table'["server"], table["server"], S) /\ id \notin S BY <1>7, <2>1 DEF t
      <4> HIDE DEF S
      <4>2. QED BY <4>1, KeptElsewhere
    <3>2. ToClientKept(id) /\ ToServerKept(id) BY <1>10, WireStill DEF ToClientKept, ToServerKept
    <3>3. ServerQueueKept(id) BY <1>3 DEF ServerQueueKept, PromiseWaits, ResponseWaits, ResetWaits
    <3>4. QED BY <2>2, <3>1, <3>2, <3>3, ServerKeeps DEF CountersKept, SameIds
  <2>5. ToServer' \subseteq ToServer BY <1>10, WireStill
  <2>6. QED BY <1>0, <1>1, <2>2, <2>3, <2>4, <2>5, ServerQuiet DEF ServerStepQuiet, CountersKept, SameIds
<1>11. QED BY <1>2, <1>9, <1>10

LEMMA ServerRecvRstQuiet == ASSUME Working, RecvRst("server") PROVE QuietInv'
<1> DEFINE t == table["server"]
           f == Head(wire["server"])
           k == f.id
           w == IF Live(t, k) THEN ShutRd(t, k) ELSE t
           u == CloseStream(w, TRUE, k)
<1>0. Inv /\ Inv' /\ EndInv /\ QuietInv /\ AtWork /\ "server" \in Endpoints BY Ends DEF Working
<1>1. Apart("server") BY <1>0, RecvApart DEF Recv
<1>2. /\ Accepted("server", "RST_STREAM") /\ Arrives("server", "RST_STREAM") /\ f.type = "RST_STREAM"
      /\ table' = [table EXCEPT !["server"] = u] /\ UNCHANGED <<queue, conn>>
  BY Ends DEF RecvRst, Accepted, Arrives, SetTable
<1>3. k \in StreamIds /\ t \in Table BY <1>0, <1>2, Arrived, Place
<1>4. IsMine(FALSE, k) => k <= conn["server"].lastRecv
  <2>1. ~IsIdle("server", k) BY <1>2 DEF Accepted, ErrorOf
  <2>2. conn["server"].lastRecv \in Int /\ k \in Int BY <1>0, <1>3, Counters
  <2>3. IsMine(TRUE, k) <=> ~IsMine(FALSE, k) BY <1>3, Parity
  <2> HIDE DEF k
  <2>4. IsMine(FALSE, k) => ~(k > conn["server"].lastRecv) BY <2>1, <2>3, Ends DEF IsIdle
  <2>5. QED BY <2>2, <2>4
<1>5. CountersKept("server") BY <1>0, <1>2, Place, SameCounters DEF CountersKept
<1>6. queue'["server"] = queue["server"] BY <1>2
<1>7. PromisesQueued' BY <1>5, <1>6, PromisesStay
<1> HIDE DEF t, k, f
<1>8. Elsewhere(w, t, {}) /\ w.wr = t.wr /\ w \in Table
  <2>1. ShutRd(t, k) \in Table BY <1>3, ShutRdTable
  <2>2. /\ Elsewhere(t, t, {}) /\ Elsewhere(ShutRd(t, k), t, {})
        /\ ShutRd(t, k).wr = t.wr
    BY <1>3, FlagsElsewhere
  <2>3. QED BY <1>3, <2>1, <2>2
<1> HIDE DEF w
<1>9. Elsewhere(u, w, {k}) /\ ~Live(u, k) /\ u.wr \subseteq w.wr BY <1>3, <1>8, CloseElsewhere
<1> HIDE DEF u
<1>10. Elsewhere(u, t, {} \cup {k}) BY <1>8, <1>9, ElsewhereTwice
<1>11. table'["server"] = u BY <1>0, <1>2, Place
<1>12. ASSUME NEW id \in StreamIds PROVE ServerStepOn(id)
  <2>1. /\ EndComes(id)' <=> EndComes(id)
        /\ PromiseComes(id)' <=> PromiseComes(id)
        /\ Unended(wire["client"], id)' <=> Unended(wire["client"], id)
        /\ RequestComes(id) <=> RequestComes(id)' \/ Opener(f, id)
        /\ ResetComes(id) <=> ResetComes(id)' \/ Reset(f, id)
    BY <1>0, <1>2, ServerHears DEF f
  <2>2. ~Opener(f, id) /\ (Reset(f, id) <=> id = k) BY <1>2 DEF Opener, Reset, k
  <2>3. ServerQueueKept(id) BY <1>6 DEF ServerQueueKept, PromiseWaits, ResponseWaits, ResetWaits
  <2>4. CASE id # k
    <3> DEFINE S == {} \cup {k}
    <3>1. Elsewhere(table'["server"], table["server"], S) /\ id \notin S BY <1>10, <1>11, <2>4 DEF t
    <3> HIDE DEF S
    <3>2. TableKept("server", id) BY <3>1, KeptElsewhere
    <3>3. QED BY <1>5, <2>1, <2>2, <2>3, <2>4, <3>2, ServerKeeps
              DEF ToClientKept, ToServerKept, CountersKept, SameIds
  <2>5. CASE id = k
    <3>1. ~LiveS(id)' /\ ~Closing("server", id)' BY <1>9, <1>11, <2>5, ClosingLive DEF LiveS, Closing
    <3>2. id \in table'["server"].wr => id \in table["server"].wr BY <1>8, <1>9, <1>11 DEF t
    <3>3. ResponseWaits(id)' /\ IsMine(TRUE, id) => id <= conn'["server"].lastSent
      BY <1>2, <2>3 DEF Working, StreamsQuiet, Orderly, ServerQueueKept
    <3>4. IsMine(FALSE, id) => id <= conn'["server"].lastRecv BY <1>2, <1>4, <2>5
    <3>5. QED BY <2>1, <2>2, <2>3, <2>5, <3>1, <3>2, <3>3, <3>4 DEF ServerStepOn, ServerQueueKept
  <2>6. QED BY <2>4, <2>5
<1>13. ToServer' \subseteq ToServer BY <1>0, <1>2, ServerHears
<1>14. QED BY <1>0, <1>1, <1>5, <1>7, <1>12, <1>13, ServerQuiet DEF ServerStepQuiet, CountersKept, SameIds

LEMMA ServerRecvsNoData == ASSUME Working, RecvData("server") PROVE FALSE
<1>0. Inv BY DEF Working
<1>1. Arrives("server", "DATA") BY DEF RecvData, Accepted
<1>2. Head(wire["server"]) \in ToServer /\ Head(wire["server"]).type = "DATA"
  BY <1>0, <1>1, ServerHears DEF Arrives
<1>3. QED BY <1>2 DEF Working, RequestsWhole

(* A request is accepted: its stream opens and is half closed at once.     *)
OpenedIn(u, t, k) == Elsewhere(u, t, {k}) /\ u.st[k] = "OPENING" /\ k \in u.rd /\ k \notin u.wr

LEMMA AcceptElsewhere ==
  ASSUME NEW t \in Table, NEW k \in StreamIds, NEW max \in Int, k \notin t.wr,
         NEW o, o = OpenStream(t, TRUE, k, "OPENING"), Good(o, TRUE),
         NEW u, u = PeerEnded(AdjustClosed(o, max), TRUE, k, TRUE)
  PROVE  OpenedIn(u, t, k)
<1> DEFINE a == AdjustClosed(o, max)
           w == ShutRd(a, k)
<1>1. Elsewhere(o, t, {k}) /\ o.st[k] = "OPENING" /\ o.wr = t.wr BY OpenElsewhere
<1>3. Elsewhere(a, o, {}) BY AdjustElsewhere
<1>4. a \in Table BY AdjustClosedGood DEF Good
<1> HIDE DEF a
<1>5. a.st[k] = "OPENING" /\ k \notin a.wr BY <1>1, <1>3 DEF Elsewhere, Live
<1>6. Elsewhere(w, a, {}) /\ w.st = a.st /\ k \in w.rd /\ w.wr = a.wr BY <1>4, FlagsElsewhere
<1>7. u = CloseIfShut(w, TRUE, k) BY DEF PeerEnded, a
<1> HIDE DEF w
<1>8. u = w BY <1>5, <1>6, <1>7 DEF CloseIfShut, ShutRdWr
<1>9. Elsewhere(a, t, {k} \cup {}) BY <1>1, <1>3, ElsewhereTwice
<1>10. Elsewhere(w, t, ({k} \cup {}) \cup {}) BY <1>6, <1>9, ElsewhereTwice
<1>11. ({k} \cup {}) \cup {} = {k} OBVIOUS
<1>12. QED BY <1>5, <1>6, <1>8, <1>10, <1>11 DEF OpenedIn

LEMMA RecvRequestQuiet == ASSUME Working, RecvRequest PROVE QuietInv'
<1> DEFINE t == table["server"]
           f == Head(wire["server"])
           k == f.id
           c == conn["server"]
           d == [c EXCEPT !.lastRecv = k]
           max == IF d.localMax = NoLimit THEN d.pendingMax ELSE d.localMax
           u == PeerEnded(AdjustClosed(OpenStream(t, TRUE, k, "OPENING"), max), TRUE, k, f.end)
<1>0. Inv /\ Inv' /\ EndInv /\ QuietInv /\ AtWork /\ "server" \in Endpoints BY Ends DEF Working
<1>1. Apart("server") BY <1>0, RecvApart DEF Recv
<1>2. c \in Conn /\ t \in Table BY <1>0, Place
<1>3. AllowIncoming(d)
  <2>1. c.goaway = {} BY <1>0, Open
  <2>2. QED BY <1>2, <2>1 DEF AllowIncoming, Conn
<1>4. /\ Accepted("server", "HEADERS") /\ Arrives("server", "HEADERS") /\ f.type = "HEADERS" /\ NewPeerId("server", k)
      /\ \/ /\ conn' = [conn EXCEPT !["server"] = d] /\ UNCHANGED table
            /\ queue' = [queue EXCEPT !["server"] = AddRst(t, queue["server"], k, "REFUSED_STREAM")]
         \/ /\ conn' = [conn EXCEPT !["server"] = [d EXCEPT !.lastProc = k]]
            /\ table' = [table EXCEPT !["server"] = u]
            /\ UNCHANGED queue
  BY <1>3 DEF RecvRequest, Accepted, Arrives, SetConn, SetQueue, SetTable
<1>5. k \in StreamIds /\ f \in ToServer BY <1>0, <1>4, Arrived, ServerHears
<1>6. f.end BY <1>4, <1>5 DEF Working, RequestsWhole, IsHeaders
<1>7. /\ IsMine(FALSE, k) /\ c.lastRecv < k /\ ~(k <= c.lastRecv)
      /\ ~Announced("server", c, k) /\ ~Given("server", c, k)
  <2>1. ~IsMine(TRUE, k) /\ c.lastRecv < k BY <1>4, Ends DEF NewPeerId
  <2>2. c.lastRecv \in Int /\ k \in Int BY <1>0, <1>5, Counters
  <2>3. IsMine(FALSE, k) BY <1>5, <2>1, Parity
  <2> HIDE DEF k, c
  <2>4. ~(k <= c.lastRecv) BY <2>1, <2>2
  <2>5. ~Announced("server", c, k) BY <2>1, <2>4, Ends DEF Announced
  <2>6. QED BY <2>1, <2>3, <2>4, <2>5, Ends DEF Given
<1>8. Good(OpenStream(t, TRUE, k, "OPENING"), TRUE)
  <2> HIDE DEF k
  <2>1. Good(OpenStream(table["server"], Srv("server"), k, "OPENING"), Srv("server"))
    BY <1>0, <1>5, <1>7, OpenFresh
  <2>2. QED BY <2>1, Ends
<1>9. k \notin t.wr BY <1>5, <1>7 DEF Working, StreamsQuiet, Orderly
<1>10. max \in Int BY <1>2 DEF Conn
<1>11. ASSUME NEW id \in StreamIds
       PROVE  /\ EndComes(id)' <=> EndComes(id)
              /\ PromiseComes(id)' <=> PromiseComes(id)
              /\ Unended(wire["client"], id)' <=> Unended(wire["client"], id)
              /\ RequestComes(id) <=> RequestComes(id)' \/ id = k
              /\ ResetComes(id) <=> ResetComes(id)'
  <2>1. /\ EndComes(id)' <=> EndComes(id)
        /\ PromiseComes(id)' <=> PromiseComes(id)
        /\ Unended(wire["client"], id)' <=> Unended(wire["client"], id)
        /\ RequestComes(id) <=> RequestComes(id)' \/ Opener(f, id)
        /\ ResetComes(id) <=> ResetComes(id)' \/ Reset(f, id)
    BY <1>0, <1>4, ServerHears
  <2>2. (Opener(f, id) <=> id = k) /\ ~Reset(f, id) BY <1>4 DEF Opener, Reset
  <2>3. QED BY <2>1, <2>2
<1>12. ToServer' \subseteq ToServer BY <1>0, <1>4, ServerHears
<1> HIDE DEF max
<1>13. u = PeerEnded(AdjustClosed(OpenStream(t, TRUE, k, "OPENING"), max), TRUE, k, TRUE)
  BY <1>6
<1> HIDE DEF t, k, f, c, u
<1>14. /\ d \in Conn /\ Later(d, c) /\ [d EXCEPT !.lastProc = k] \in Conn /\ Later([d EXCEPT !.lastProc = k], c)
       /\ d.nextId = c.nextId /\ d.lastSent = c.lastSent
       /\ [d EXCEPT !.lastProc = k].nextId = c.nextId /\ [d EXCEPT !.lastProc = k].lastSent = c.lastSent
  <2>1. [d EXCEPT !.lastProc = k] = [c EXCEPT !.lastRecv = k, !.lastProc = k] BY <1>2 DEF Conn
  <2>2. QED BY <1>2, <1>5, <1>7, <2>1, ConnOps DEF Conn
<1> HIDE DEF d
<1>15. CASE /\ conn' = [conn EXCEPT !["server"] = d] /\ UNCHANGED table
            /\ queue' = [queue EXCEPT !["server"] = AddRst(t, queue["server"], k, "REFUSED_STREAM")]
  <2>1. conn'["server"] = d /\ queue'["server"] = AddRst(t, queue["server"], k, "REFUSED_STREAM")
    BY <1>0, <1>15, Place
  <2>2. queue["server"] \in Queues("server") BY <1>0, Place
  <2>3. queue'["server"].reg = queue["server"].reg BY <1>0, <2>1, <2>2, ResetAdded
  <2>4. Later(conn'["server"], conn["server"]) BY <1>14, <2>1 DEF c
  <2>5. PromisesQueued' BY <1>14, <2>1, <2>3 DEF Working, PromisesQueued, c
  <2>6. ASSUME NEW id \in StreamIds PROVE ServerStepOn(id)
    <3>1. /\ id = k => ResetWaits("server", id)'
          /\ ResetWaits("server", id) => ResetWaits("server", id)'
      BY <1>0, <1>5, <2>1, <2>2, ResetQueued DEF t
    <3>2. (PromiseWaits(id)' <=> PromiseWaits(id)) /\ (ResponseWaits(id)' <=> ResponseWaits(id))
      BY <2>3, ServerStands
    <3>3. Settled(id) /\ Orderly(id) BY DEF Working, StreamsQuiet
    <3>4. LiveS(id)' = LiveS(id) /\ Closing("server", id)' = Closing("server", id)
      BY <1>15 DEF LiveS, Closing
    <3>5. Closing("server", id)' => ResetWaits("server", id)' BY <1>0, <3>1, <3>3, <3>4 DEF Settled
    <3>6. ResponseWaits(id)' /\ IsMine(TRUE, id) => id <= conn'["server"].lastSent
      BY <1>14, <2>1, <3>2, <3>3 DEF Orderly, c
    <3>7. /\ LiveS(id)' => id \in table'["server"].rd
          /\ id \in table'["server"].wr => id \in table["server"].wr
      BY <1>15, <3>3, <3>4 DEF Orderly
    <3>8. QED BY <1>11, <3>1, <3>2, <3>4, <3>5, <3>6, <3>7 DEF ServerStepOn
  <2>7. QED BY <1>0, <1>1, <1>12, <2>4, <2>5, <2>6, ServerQuiet DEF ServerStepQuiet
<1>16. CASE /\ conn' = [conn EXCEPT !["server"] = [d EXCEPT !.lastProc = k]]
            /\ table' = [table EXCEPT !["server"] = u]
            /\ UNCHANGED queue
  <2>1. conn'["server"] = [d EXCEPT !.lastProc = k] /\ table'["server"] = u BY <1>0, <1>16, Place
  <2>2. Later(conn'["server"], conn["server"]) BY <1>14, <2>1 DEF c
  <2>3. PromisesQueued' BY <1>14, <1>16, <2>1 DEF Working, PromisesQueued, c
  <2>4. Elsewhere(u, t, {k}) /\ u.st[k] = "OPENING" /\ k \in u.rd /\ k \notin u.wr
    <3> DEFINE o == OpenStream(t, TRUE, k, "OPENING")
    <3>1. o = OpenStream(t, TRUE, k, "OPENING") /\ Good(o, TRUE) BY <1>8
    <3>2. u = PeerEnded(AdjustClosed(o, max), TRUE, k, TRUE) BY <1>13
    <3> HIDE DEF o
    <3>3. OpenedIn(u, t, k)
      BY <1>2, <1>5, <1>9, <1>10, <3>1, <3>2, AcceptElsewhere, Zenon
    <3>4. QED BY <3>3 DEF OpenedIn
  <2>5. ASSUME NEW id \in StreamIds PROVE ServerStepOn(id)
    <3>1. ServerQueueKept(id) BY <1>16 DEF ServerQueueKept, PromiseWaits, ResponseWaits, ResetWaits
    <3>2. CASE id # k
      <4> DEFINE S == {k}
      <4>1. Elsewhere(table'["server"], table["server"], S) /\ id \notin S BY <2>1, <2>4, <3>2 DEF t
      <4> HIDE DEF S
      <4>2. TableKept("server", id) BY <4>1, KeptElsewhere
      <4>3. QED BY <1>11, <2>2, <3>1, <3>2, <4>2, ServerKeeps DEF ToClientKept, ToServerKept
    <3>3. CASE id = k
      <4>1. LiveS(id)' /\ ~Closing("server", id)' /\ id \in table'["server"].rd /\ id \notin table'["server"].wr
        BY <2>1, <2>4, <3>3 DEF LiveS, Live, Closing
      <4>2. ResponseWaits(id)' /\ IsMine(TRUE, id) => id <= conn'["server"].lastSent
        BY <1>14, <2>1, <3>1 DEF Working, StreamsQuiet, Orderly, ServerQueueKept, c
      <4>3. IsMine(FALSE, id) /\ conn["server"].lastRecv < id BY <1>7, <3>3 DEF c
      <4>4. QED BY <1>11, <3>1, <3>3, <4>1, <4>2, <4>3 DEF ServerStepOn, ServerQueueKept
    <3>4. QED BY <3>2, <3>3
  <2>6. QED BY <1>0, <1>1, <1>12, <2>2, <2>3, <2>5, ServerQuiet DEF ServerStepQuiet
<1>17. QED BY <1>4, <1>15, <1>16

-----------------------------------------------------------------------------
(* Steps of the client                                                     *)

Whole(f) == f.type # "DATA" /\ (IsHeaders(f) => f.end)

LEMMA StayWhole ==
  ASSUME Working, \A f \in ToServer' \cup Waiting' : f \in ToServer \cup Waiting \/ Whole(f)
  PROVE  RequestsWhole'
BY DEF Working, RequestsWhole, Whole

LEMMA SentBefore == ASSUME Working PROVE conn["client"].lastRecv <= conn["server"].lastSent
BY DEF Working, QuietInv

LEMMA SubmitRequestQuiet == ASSUME Working, SubmitRequest PROVE QuietInv'
<1> DEFINE c == conn["client"]
           n == c.nextId
           d == [c EXCEPT !.nextId = c.nextId + 2]
           f == Headers(n, TRUE)
<1>0. Inv /\ Inv' /\ QuietInv /\ AtWork /\ "client" \in Endpoints BY Ends DEF Working
<1>1. Apart("client") BY <1>0, SubmitApart DEF Submit
<1>2. /\ UNCHANGED <<table, wire>> /\ conn' = [conn EXCEPT !["client"] = d]
      /\ queue' = [queue EXCEPT !["client"] = [queue["client"] EXCEPT !.reg = Append(queue["client"].reg, f)]]
  BY DEF SubmitRequest, SetConn
<1>3. c \in Conn /\ n \in Int /\ n % 2 = 1 BY <1>0, Here, Counters
<1>4. /\ Later(d, c) /\ d.nextId = n + 2 /\ d.lastRecv = c.lastRecv /\ d.lastSent = c.lastSent
  <2>1. Later(d, c) BY <1>3, ConnOps
  <2>2. QED BY <1>3, <2>1 DEF Conn
<1>5. f.type = "HEADERS" /\ f.id = n /\ f.end BY PlainFrames
<1> HIDE DEF c, d, f
<1>6. conn'["client"] = d BY <1>0, <1>2, Place
<1>7. queue'["client"].reg = Append(queue["client"].reg, f) /\ queue'["client"].syn = queue["client"].syn
  <2>1. /\ queue'["client"] = [queue["client"] EXCEPT !.reg = Append(queue["client"].reg, f)]
        /\ queue["client"] \in Queues("client")
    BY <1>0, <1>2, Place
  <2>2. QED BY <2>1 DEF Queues
<1>8. Waiting' = Waiting \cup {f}
  <2>1. queue["client"].reg \in Seq(RegFrames("client")) BY <1>0, Place DEF Queues
  <2>2. ToSet(Append(queue["client"].reg, f)) = ToSet(queue["client"].reg) \cup {f} BY <2>1, Elements
  <2>3. QED BY <1>7, <2>2 DEF Waiting
<1>9. ASSUME NEW id \in StreamIds PROVE ClientStepOn(id)
  <2>1. ToClientKept(id) /\ ToServerKept(id) BY <1>2, WireStill DEF ToClientKept, ToServerKept
  <2>2. TableKept("client", id) BY <1>2 DEF TableKept
  <2>3. ClientQueueKept(id) BY <1>7, <1>8 DEF ClientQueueKept, ResetWaits, RequestWaits
  <2>4. ASSUME IsMine(FALSE, id), id < n + 2 PROVE id < n \/ id = n
    <3>1. id \in Int /\ id % 2 = 1 BY <1>0, <2>4, Counters DEF IsMine
    <3>2. QED BY <1>3, <2>4, <3>1
  <2>5. id = n => RequestWaits(id)' BY <1>5, <1>8 DEF RequestWaits, Opener
  <2>6. QED BY <1>4, <1>6, <2>1, <2>2, <2>3, <2>4, <2>5, ClientKeeps DEF c
<1>10. RequestsWhole'
  <2>1. ToServer' = ToServer BY <1>2, WireStill
  <2>2. Whole(f) BY <1>5 DEF Whole
  <2>3. QED BY <1>8, <2>1, <2>2, StayWhole
<1>11. conn'["client"].lastRecv <= conn["server"].lastSent BY <1>4, <1>6, SentBefore DEF c
<1>12. QED BY <1>0, <1>1, <1>4, <1>6, <1>9, <1>10, <1>11, ClientQuiet DEF ClientStepQuiet, c

(* What is under way, as far as a client that only reads of k sees it.     *)
HearsOf(k, ended) ==
  \A id \in StreamIds :
    /\ EndComes(id)' => EndComes(id)
    /\ EndComes(id) => EndComes(id)' \/ (id = k /\ ended)
    /\ PromiseComes(id)' <=> PromiseComes(id)
    /\ Unended(wire["client"], id)' => Unended(wire["client"], id)
    /\ ToServerKept(id)

LEMMA ReadsOf ==
  ASSUME Working, NEW type, Arrives("client", type), type # "PUSH_PROMISE",
         NEW k, k = Head(wire["client"]).id, NEW ended, LastFrame(Head(wire["client"]), k) => ended
  PROVE  /\ HearsOf(k, ended) /\ ToServer' = ToServer
         /\ LastFrame(Head(wire["client"]), k) => EndComes(k)
<1> DEFINE f == Head(wire["client"])
<1>0. Inv BY DEF Working
<1>1. ASSUME NEW id
      PROVE  /\ EndComes(id) <=> EndComes(id)' \/ LastFrame(f, id)
             /\ PromiseComes(id) <=> PromiseComes(id)' \/ Promise(f, id)
             /\ Unended(wire["client"], id)' => Unended(wire["client"], id)
             /\ RequestComes(id)' <=> RequestComes(id)
             /\ ResetComes(id)' <=> ResetComes(id)
             /\ ToServer' = ToServer
  BY <1>0, ClientHears
<1>2. f.type # "PUSH_PROMISE" BY DEF Arrives
<1> HIDE DEF f
<1>3. ASSUME NEW id PROVE ~Promise(f, id) /\ (LastFrame(f, id) => id = k /\ ended)
  <2>1. f.id = k /\ (LastFrame(f, k) => ended) BY DEF f
  <2>2. QED BY <1>2, <2>1 DEF Promise, LastFrame
<1>4. HearsOf(k, ended) BY <1>1, <1>3 DEF HearsOf, ToServerKept
<1>5. QED BY <1>1, <1>4 DEF f

(* A stream is marked closing and its RST_STREAM queued.                   *)
LEMMA ClientMarks ==
  ASSUME Working, Apart("client"), UNCHANGED conn, NEW k \in StreamIds, NEW code,
         HearsOf(k, Live(table["client"], k)), ToServer' = ToServer,
         table'["client"] = MarkClosing(table["client"], k),
         queue'["client"] = AddRst(table["client"], queue["client"], k, code),
         IsMine(TRUE, k) => k <= conn["client"].lastRecv
  PROVE  QuietInv'
<1> DEFINE t == table["client"]
<1>0. Inv /\ Inv' /\ QuietInv /\ AtWork /\ "client" \in Endpoints BY Ends DEF Working
<1>1. /\ Elsewhere(MarkClosing(t, k), t, {k}) /\ (Live(MarkClosing(t, k), k) <=> Live(t, k))
      /\ Live(t, k) => MarkClosing(t, k).st[k] = "CLOSING"
      /\ MarkClosing(t, k).rd = t.rd /\ MarkClosing(t, k).wr = t.wr
  BY <1>0, Place, StateElsewhere
<1>2. queue["client"] \in Queues("client") BY <1>0, Place
<1>3. queue'["client"].reg = queue["client"].reg BY <1>0, <1>2, ResetAdded
<1>4. ASSUME NEW id \in StreamIds PROVE ClientStepOn(id)
  <2>1. /\ EndComes(id)' => EndComes(id)
        /\ EndComes(id) => EndComes(id)' \/ (id = k /\ Live(t, k))
        /\ PromiseComes(id)' <=> PromiseComes(id)
        /\ Unended(wire["client"], id)' => Unended(wire["client"], id)
        /\ RequestComes(id)' <=> RequestComes(id)
        /\ ResetComes(id)' <=> ResetComes(id)
    BY DEF HearsOf, ToServerKept
  <2>2. /\ id = k => ResetWaits("client", id)'
        /\ ResetWaits("client", id) => ResetWaits("client", id)'
        /\ ResetWaits("client", id)' => ResetWaits("client", id) \/ id = k
    BY <1>0, <1>2, ResetQueued
  <2>3. RequestWaits(id)' <=> RequestWaits(id) BY <1>3 DEF RequestWaits, Waiting
  <2>4. Settled(id) /\ Orderly(id) BY DEF Working, StreamsQuiet
  <2>5. LiveC(id)' <=> LiveC(id) BY <1>1 DEF LiveC, Elsewhere
  <2>6. /\ id = k /\ LiveC(id) => Closing("client", id)'
        /\ id # k /\ LiveC(id) => (Closing("client", id)' <=> Closing("client", id))
        /\ Closing("client", id)' => LiveC(id)
    BY <1>1, <2>5, ClosingLive DEF LiveC, Closing, Elsewhere
  <2>7. Closing("client", id)' => ResetWaits("client", id)' BY <1>0, <2>2, <2>4, <2>6 DEF Settled
  <2>8. ResetWaits("client", id)' /\ IsMine(TRUE, id) => id <= conn'["client"].lastRecv
    BY <2>2, <2>4 DEF Orderly
  <2>9. IsMine(FALSE, id) /\ id < conn'["client"].nextId => id <= conn'["client"].lastSent \/ RequestWaits(id)'
    BY <2>3, <2>4 DEF Orderly
  <2>10. LiveC(id)' => id \in table'["client"].wr BY <1>1, <2>4, <2>5 DEF Orderly
  <2>11. id = k /\ Live(t, k) => LiveC(id) BY DEF LiveC
  <2> HIDE DEF t
  <2>12. QED BY <2>1, <2>2, <2>5, <2>6, <2>7, <2>8, <2>9, <2>10, <2>11 DEF ClientStepOn
<1>5. RequestsWhole'
  <2>1. Waiting' = Waiting BY <1>3 DEF Waiting
  <2>2. QED BY <2>1, StayWhole
<1>6. Later(conn'["client"], conn["client"]) BY <1>0, Place, ConnOps
<1>7. QED BY <1>0, <1>1, <1>4, <1>5, <1>6, SentBefore, ClientQuiet DEF ClientStepQuiet

LEMMA ClientSubmitRstQuiet ==
  ASSUME Working, NEW k \in StreamIds, SubmitRst("client", k) PROVE QuietInv'
<1>0. Inv /\ Inv' /\ QuietInv /\ AtWork /\ AtWork' /\ "client" \in Endpoints BY Ends DEF Working
<1>1. Apart("client") BY <1>0, SubmitApart DEF Submit
<1>2. /\ UNCHANGED wire
      /\ Live(table["client"], k) \/ IsMine(FALSE, k)
      /\ \/ conn' = [conn EXCEPT !["client"] = [conn["client"] EXCEPT !.abort = "ob_syn holds HEADERS"]]
         \/ /\ UNCHANGED conn /\ table' = [table EXCEPT !["client"] = MarkClosing(table["client"], k)]
            /\ queue' = [queue EXCEPT !["client"] = AddRst(table["client"], queue["client"], k, "CANCEL")]
  BY Ends DEF SubmitRst, SetTable, SetConn
<1>3. IsMine(TRUE, k) => k <= conn["client"].lastRecv
  <2>1. IsMine(TRUE, k) <=> ~IsMine(FALSE, k) BY Parity
  <2>2. Live(table["client"], k) => Announced("client", conn["client"], k) BY <1>0, Here DEF Live, Known
  <2>3. QED BY <1>2, <2>1, <2>2, Ends DEF Announced
<1>4. CASE conn' = [conn EXCEPT !["client"] = [conn["client"] EXCEPT !.abort = "ob_syn holds HEADERS"]]
  BY <1>0, <1>4, AbortEnds
<1>5. CASE /\ UNCHANGED conn /\ table' = [table EXCEPT !["client"] = MarkClosing(table["client"], k)]
           /\ queue' = [queue EXCEPT !["client"] = AddRst(table["client"], queue["client"], k, "CANCEL")]
  <2>1. /\ table'["client"] = MarkClosing(table["client"], k)
        /\ queue'["client"] = AddRst(table["client"], queue["client"], k, "CANCEL")
    BY <1>0, <1>5, Place
  <2>2. HearsOf(k, Live(table["client"], k)) /\ ToServer' = ToServer
    <3>1. UNCHANGED wire BY <1>2
    <3>2. ASSUME NEW id \in StreamIds
          PROVE  /\ EndComes(id)' <=> EndComes(id)
                 /\ PromiseComes(id)' <=> PromiseComes(id)
                 /\ Unended(wire["client"], id)' <=> Unended(wire["client"], id)
                 /\ RequestComes(id)' <=> RequestComes(id)
                 /\ ResetComes(id)' <=> ResetComes(id)
      BY <3>1, WireStill
    <3>3. ToServer' = ToServer BY <3>1, WireStill
    <3>4. QED BY <3>2, <3>3 DEF HearsOf, ToServerKept
  <2>3. QED BY <1>1, <1>3, <1>5, <2>1, <2>2, ClientMarks
<1>6. QED BY <1>2, <1>4, <1>5

LEMMA SendRequestQuiet == ASSUME Working, SendRequest PROVE QuietInv'
<1> DEFINE t == table["client"]
           f == NextReg("client")
           k == f.id
           c == conn["client"]
           d == [c EXCEPT !.lastSent = k]
           o == OpenStream(t, FALSE, k, "OPENING")
           u == ShutWr(o, k)
           q == AfterReg("client")
<1>0. Inv /\ Inv' /\ EndInv /\ VerdictInv /\ QuietInv /\ AtWork /\ AtWork' /\ "client" \in Endpoints BY Ends DEF Working
<1>1. Apart("client") BY <1>0, SendApart DEF Send
<1>2. c.goaway = {} BY <1>0, Open
<1>3. /\ RegReady("client") /\ f.type = "HEADERS" /\ queue' = [queue EXCEPT !["client"] = q]
      /\ \/ conn' = [conn EXCEPT !["client"] = [c EXCEPT !.abort = "stream ids increase"]]
         \/ /\ ~(c.lastSent >= k)
            /\ table' = [table EXCEPT !["client"] = u] /\ conn' = [conn EXCEPT !["client"] = d]
            /\ Transmit("client", f)
  BY <1>2 DEF SendRequest, SetQueue, SetTable, SetConn
<1>4. CASE conn' = [conn EXCEPT !["client"] = [c EXCEPT !.abort = "stream ids increase"]]
  BY <1>0, <1>4, AbortEnds
<1>5. CASE /\ ~(c.lastSent >= k)
           /\ table' = [table EXCEPT !["client"] = u] /\ conn' = [conn EXCEPT !["client"] = d]
           /\ Transmit("client", f)
  <2>1. f \in Waiting /\ k \in StreamIds /\ IsMine(FALSE, k) /\ Waiting' \subseteq Waiting
    BY <1>0, <1>3, NextRequest
  <2>2. f.end BY <1>3, <2>1 DEF Working, RequestsWhole, IsHeaders
  <2>3. c \in Conn /\ t \in Table /\ queue["client"] \in Queues("client") BY <1>0, Place
  <2>4. c.lastSent < k /\ ~(k <= c.lastSent) /\ k <= k
    <3>1. c.lastSent \in Int /\ k \in Int BY <1>0, <2>1, Counters
    <3> HIDE DEF c, k
    <3>2. QED BY <1>5, <3>1
  <2>5. /\ ToSet(queue["client"].reg) = ToSet(q.reg) \cup {f} /\ q.syn = queue["client"].syn
    BY <1>0, <1>3, Taken
  <2>6. Opener(f, k) /\ \A id : (Opener(f, id) => id = k) /\ ~Reset(f, id) BY <1>3 DEF Opener, Reset
  <2> HIDE DEF k, f, q, t, u
  <2>7. table'["client"] = u /\ queue'["client"] = q BY <1>0, <1>3, <1>5, Place
  <2>8. Waiting = Waiting' \cup {f} BY <2>5, <2>7 DEF Waiting
  <2>9. Later(d, c) /\ d.lastSent = k /\ d.nextId = c.nextId /\ d.lastRecv = c.lastRecv
    BY <2>1, <2>3, <2>4, ConnOps DEF Conn
  <2>10. conn'["client"] = d
    <3> HIDE DEF d
    <3>1. QED BY <1>0, <1>5, Place
  <2>11. Elsewhere(u, t, {k}) /\ u.st[k] = "OPENING" /\ k \in u.wr
    <3>1. Elsewhere(o, t, {k}) /\ o.st[k] = "OPENING"
      <4> DEFINE z == "OPENING"
      <4>1. z \in {"OPENING", "RESERVED"} OBVIOUS
      <4> HIDE DEF z
      <4>2. Elsewhere(OpenStream(t, FALSE, k, z), t, {k}) /\ OpenStream(t, FALSE, k, z).st[k] = z
        BY <2>1, <2>3, <4>1, OpenElsewhere
      <4>3. QED BY <4>2 DEF z
    <3>2. o \in Table
      <4>1. ~Announced("client", c, k) BY <2>1, <2>4, Ends DEF Announced
      <4>2. Good(OpenStream(table["client"], Srv("client"), k, "OPENING"), Srv("client"))
        BY <1>0, <2>1, <4>1, OpenFresh DEF c
      <4>3. QED BY <4>2, Ends DEF Good, t
    <3> HIDE DEF o
    <3>3. Elsewhere(u, o, {k}) /\ u.st = o.st /\ k \in u.wr BY <2>1, <3>2, FlagsElsewhere DEF u
    <3>4. Elsewhere(u, t, {k} \cup {k}) BY <3>1, <3>3, ElsewhereTwice
    <3>5. {k} \cup {k} = {k} OBVIOUS
    <3>6. QED BY <3>1, <3>3, <3>4, <3>5
  <2> HIDE DEF d, o, c
  <2>12. ASSUME NEW id \in StreamIds PROVE ClientStepOn(id)
    <3>1. /\ EndComes(id)' <=> EndComes(id)
          /\ PromiseComes(id)' <=> PromiseComes(id)
          /\ Unended(wire["client"], id)' <=> Unended(wire["client"], id)
          /\ RequestComes(id)' <=> RequestComes(id) \/ Opener(f, id)
          /\ ResetComes(id)' <=> ResetComes(id) \/ Reset(f, id)
      BY <1>0, <1>5, ClientSends
    <3>2. (ResetWaits("client", id)' <=> ResetWaits("client", id)) BY <2>5, <2>7 DEF ResetWaits
    <3>3. RequestWaits(id) => RequestWaits(id)' \/ Opener(f, id) BY <2>8 DEF RequestWaits
    <3>4. CASE id # k
      <4> DEFINE S == {k}
      <4>1. Elsewhere(table'["client"], table["client"], S) /\ id \notin S BY <2>7, <2>11, <3>4 DEF t
      <4> HIDE DEF S
      <4>2. TableKept("client", id) BY <4>1, KeptElsewhere
      <4>3. Later(conn'["client"], conn["client"]) /\ conn'["client"].nextId = conn["client"].nextId
        BY <2>9, <2>10 DEF c
      <4>4. ToClientKept(id) /\ ToServerKept(id) /\ ClientQueueKept(id)
        BY <2>6, <3>1, <3>2, <3>3, <3>4 DEF ToClientKept, ToServerKept, ClientQueueKept
      <4>5. QED BY <4>2, <4>3, <4>4, ClientKeeps
    <3>5. CASE id = k
      <4>1. LiveC(id)' /\ ~Closing("client", id)' /\ id \in table'["client"].wr
        BY <2>7, <2>11, <3>5 DEF LiveC, Live, Closing
      <4>2. IsMine(FALSE, id) /\ conn["client"].lastSent < id /\ RequestComes(id)'
        BY <2>1, <2>4, <2>6, <3>1, <3>5 DEF c
      <4>3. ~LiveC(id)
        <5>1. ~Announced("client", c, id) BY <2>1, <2>4, <3>5, Ends, Parity DEF Announced
        <5>2. QED BY <1>0, <5>1, Here DEF LiveC, Live, Known, c
      <4>4. id <= conn'["client"].lastSent BY <2>4, <2>9, <2>10, <3>5
      <4>5. IsMine(TRUE, id) <=> ~IsMine(FALSE, id) BY Parity
      <4>6. QED BY <2>6, <3>1, <3>2, <4>1, <4>2, <4>3, <4>4, <4>5 DEF ClientStepOn
    <3>6. QED BY <3>4, <3>5
  <2>13. RequestsWhole'
    <3>1. ToServer' = ToServer \cup {f} BY <1>0, <1>5, ClientSends
    <3>2. QED BY <2>1, <3>1, StayWhole
  <2>14. conn'["client"].lastRecv <= conn["server"].lastSent BY <2>9, <2>10, SentBefore DEF c
  <2>15. Later(conn'["client"], conn["client"]) BY <2>9, <2>10 DEF c
  <2>16. QED BY <1>0, <1>1, <2>12, <2>13, <2>14, <2>15, ClientQuiet DEF ClientStepQuiet
<1>6. QED BY <1>3, <1>4, <1>5

LEMMA ClientSendRstQuiet == ASSUME Working, SendRst("client") PROVE QuietInv'
<1> DEFINE t == table["client"]
           f == Head(queue["client"].syn)
           k == f.id
           q == AfterSyn("client")
           u == CloseStream(t, FALSE, k)
<1>0. Inv /\ Inv' /\ EndInv /\ QuietInv /\ AtWork /\ "client" \in Endpoints BY Ends DEF Working
<1>1. Apart("client") BY <1>0, SendApart DEF Send
<1>2. ~IsClosing(t, q, conn["client"]) BY <1>0, Open
<1>3. /\ SynReady("client") /\ queue' = [queue EXCEPT !["client"] = q]
      /\ table' = [table EXCEPT !["client"] = u] /\ Transmit("client", f) /\ UNCHANGED conn
  BY <1>2, Ends DEF SendRst, SetQueue, SetTable
<1>4. /\ ToSet(queue["client"].syn) = ToSet(q.syn) \cup {f} /\ q.reg = queue["client"].reg
      /\ queue["client"].reg = << >> /\ queue["client"].syn # << >>
  BY <1>0, <1>3, Taken DEF SynReady
<1>5. k \in StreamIds /\ f.type = "RST_STREAM" /\ t \in Table
  <2>1. f \in SynFrames BY <1>0, <1>3, TakeOps
  <2>2. QED BY <1>0, <2>1, Place DEF SynFrames
<1>6. Given("client", conn["client"], k)
  <2>1. QueueOK("client", queue["client"], conn["client"], Ended("client")) /\ queue["client"] \in Queues("client")
    BY <1>0, EndParts
  <2>2. QED BY <1>0, <1>4, <2>1, TakeOK
<1>7. Waiting = {} BY <1>4 DEF Waiting, ToSet
<1>8. Opener(f, k) = FALSE /\ Reset(f, k) /\ \A id : ~Opener(f, id) /\ (Reset(f, id) => id = k)
  BY <1>5 DEF Opener, Reset
<1>9. ResetWaits("client", k) BY <1>4 DEF ResetWaits
<1> HIDE DEF t, k, f, q, u
<1>10. Announced("client", conn["client"], k)
  <2>1. IsMine(FALSE, k) => k < conn["client"].nextId BY <1>6, Ends DEF Given
  <2>2. ~RequestWaits(k) BY <1>7 DEF RequestWaits
  <2>3. IsMine(TRUE, k) <=> ~IsMine(FALSE, k) BY <1>5, Parity
  <2>4. Orderly(k) BY <1>5 DEF Working, StreamsQuiet
  <2>5. QED BY <1>9, <2>1, <2>2, <2>3, <2>4, Ends DEF Orderly, Announced
<1>11. table'["client"] = u /\ queue'["client"] = q BY <1>0, <1>3, Place
<1>12. Elsewhere(u, table["client"], {k}) /\ ~Live(u, k) BY <1>5, CloseElsewhere DEF u, t
<1>13. CountersKept("client") BY <1>0, <1>3, Place, SameCounters DEF CountersKept
<1>14. ASSUME NEW id \in StreamIds PROVE ClientStepOn(id)
  <2>1. /\ EndComes(id)' <=> EndComes(id)
        /\ PromiseComes(id)' <=> PromiseComes(id)
        /\ Unended(wire["client"], id)' <=> Unended(wire["client"], id)
        /\ RequestComes(id)' <=> RequestComes(id) \/ Opener(f, id)
        /\ ResetComes(id)' <=> ResetComes(id) \/ Reset(f, id)
    BY <1>0, <1>3, ClientSends
  <2>2. /\ ResetWaits("client", id)' => ResetWaits("client", id)
        /\ ResetWaits("client", id) => ResetWaits("client", id)' \/ id = k
    BY <1>4, <1>11 DEF ResetWaits, k
  <2>3. RequestWaits(id)' <=> RequestWaits(id) BY <1>4, <1>11 DEF RequestWaits, Waiting
  <2>4. CASE id # k
    <3> DEFINE S == {k}
    <3>1. Elsewhere(table'["client"], table["client"], S) /\ id \notin S BY <1>11, <1>12, <2>4
    <3> HIDE DEF S
    <3>2. TableKept("client", id) BY <3>1, KeptElsewhere
    <3>3. ToClientKept(id) /\ ToServerKept(id) /\ ClientQueueKept(id)
      BY <1>8, <2>1, <2>2, <2>3, <2>4 DEF ToClientKept, ToServerKept, ClientQueueKept
    <3>4. QED BY <1>13, <3>2, <3>3, ClientKeeps DEF CountersKept, SameIds
  <2>5. CASE id = k
    <3>1. ~LiveC(id)' /\ ~Closing("client", id)' BY <1>11, <1>12, <2>5, ClosingLive DEF LiveC, Closing
    <3>2. ResetComes(id)' /\ (RequestComes(id)' <=> RequestComes(id)) BY <1>8, <2>1, <2>5
    <3>3. Announced("client", conn'["client"], id) BY <1>3, <1>10, <2>5
    <3>4. Orderly(id) BY DEF Working, StreamsQuiet
    <3>5. /\ ResetWaits("client", id)' /\ IsMine(TRUE, id) => id <= conn'["client"].lastRecv
          /\ IsMine(FALSE, id) /\ id < conn'["client"].nextId => id <= conn'["client"].lastSent \/ RequestWaits(id)'
      BY <1>3, <2>2, <2>3, <3>4 DEF Orderly
    <3>6. QED BY <2>1, <2>2, <3>1, <3>2, <3>3, <3>5 DEF ClientStepOn
  <2>6. QED BY <2>4, <2>5
<1>15. RequestsWhole'
  <2>1. ToServer' = ToServer \cup {f} BY <1>0, <1>3, ClientSends
  <2>2. Whole(f) BY <1>5 DEF Whole, IsHeaders
  <2>3. Waiting' = Waiting BY <1>4, <1>11 DEF Waiting
  <2>4. QED BY <2>1, <2>2, <2>3, StayWhole
<1>16. QED BY <1>0, <1>1, <1>13, <1>14, <1>15, SentBefore, ClientQuiet DEF ClientStepQuiet, CountersKept, SameIds

(* A frame of stream k is read: the stream stays as it was, or its last    *)
(* frame came and it is gone.                                              *)
ReadState(u, t, k, last) ==
  /\ Elsewhere(u, t, {k})
  /\ Live(u, k) => Live(t, k) /\ k \in u.wr
  /\ Live(t, k) /\ ~Live(u, k) => last
  /\ last => ~Live(u, k) \/ u.st[k] = "CLOSING"
  /\ u.st[k] = "CLOSING" => t.st[k] = "CLOSING"
  /\ t.st[k] = "CLOSING" => ~Live(u, k) \/ u.st[k] = "CLOSING"

LEMMA ClientReads ==
  ASSUME Working, Apart("client"), UNCHANGED <<queue, conn>>,
         NEW type, Arrives("client", type), type # "PUSH_PROMISE",
         NEW k \in StreamIds, k = Head(wire["client"]).id,
         NEW u, table'["client"] = u,
         ReadState(u, table["client"], k, LastFrame(Head(wire["client"]), k))
  PROVE  QuietInv'
<1> DEFINE t == table["client"]
           last == LastFrame(Head(wire["client"]), k)
<1>0. Inv /\ Inv' /\ QuietInv /\ AtWork /\ "client" \in Endpoints BY Ends DEF Working
<1>1. HearsOf(k, last) /\ ToServer' = ToServer /\ (last => EndComes(k))
  <2>1. LastFrame(Head(wire["client"]), k) => last OBVIOUS
  <2>2. /\ HearsOf(k, last) /\ ToServer' = ToServer
        /\ LastFrame(Head(wire["client"]), k) => EndComes(k)
    <3> HIDE DEF last
    <3>1. QED BY <2>1, ReadsOf
  <2>3. QED BY <2>2
<1>2. ReadState(u, t, k, last) OBVIOUS
<1> HIDE DEF last, t
<1>3. CountersKept("client") BY <1>0, Place, SameCounters DEF CountersKept
<1>4. ASSUME NEW id \in StreamIds PROVE ClientStepOn(id)
  <2>1. /\ EndComes(id)' => EndComes(id)
        /\ EndComes(id) => EndComes(id)' \/ (id = k /\ last)
        /\ PromiseComes(id)' <=> PromiseComes(id)
        /\ Unended(wire["client"], id)' => Unended(wire["client"], id)
        /\ RequestComes(id)' <=> RequestComes(id)
        /\ ResetComes(id)' <=> ResetComes(id)
    BY <1>1 DEF HearsOf, ToServerKept
  <2>2. ClientQueueKept(id) BY DEF ClientQueueKept, ResetWaits, RequestWaits, Waiting
  <2>3. CASE id # k
    <3> DEFINE S == {k}
    <3>1. Elsewhere(table'["client"], table["client"], S) /\ id \notin S BY <1>2, <2>3 DEF ReadState, t
    <3> HIDE DEF S
    <3>2. TableKept("client", id) BY <3>1, KeptElsewhere
    <3>3. ToClientKept(id) /\ ToServerKept(id) BY <2>1, <2>3 DEF ToClientKept, ToServerKept
    <3>4. QED BY <1>3, <2>2, <3>2, <3>3, ClientKeeps DEF CountersKept, SameIds
  <2>4. CASE id = k
    <3>1. /\ LiveC(id)' => LiveC(id) /\ id \in table'["client"].wr
          /\ LiveC(id) /\ ~LiveC(id)' => last
          /\ last => ~LiveC(id)' \/ Closing("client", id)'
          /\ Closing("client", id)' => Closing("client", id)
          /\ Closing("client", id) => ~LiveC(id)' \/ Closing("client", id)'
      BY <1>2, <2>4 DEF ReadState, LiveC, Closing, t
    <3>2. Settled(id) /\ Orderly(id) BY DEF Working, StreamsQuiet
    <3>3. Closing("client", id)' => ResetWaits("client", id)' BY <1>0, <2>2, <3>1, <3>2 DEF Settled, ClientQueueKept
    <3>4. /\ ResetWaits("client", id)' /\ IsMine(TRUE, id) => id <= conn'["client"].lastRecv
          /\ IsMine(FALSE, id) /\ id < conn'["client"].nextId => id <= conn'["client"].lastSent \/ RequestWaits(id)'
      BY <2>2, <3>2 DEF Orderly, ClientQueueKept
    <3>5. last => EndComes(id) BY <1>1, <2>4
    <3>6. QED BY <2>1, <2>2, <3>1, <3>3, <3>4, <3>5 DEF ClientStepOn, ClientQueueKept
  <2>5. QED BY <2>3, <2>4
<1>5. RequestsWhole'
  <2>1. Waiting' = Waiting BY DEF Waiting
  <2>2. QED BY <1>1, <2>1, StayWhole
<1>6. QED BY <1>0, <1>3, <1>4, <1>5, SentBefore, ClientQuiet DEF ClientStepQuiet, CountersKept, SameIds

LEMMA ReadIgnored ==
  ASSUME Working, NEW k \in StreamIds, NEW last,
         ~Live(table["client"], k) \/ table["client"].st[k] = "CLOSING"
  PROVE  ReadState(table["client"], table["client"], k, last)
<1>1. Elsewhere(table["client"], table["client"], {k}) BY SameStates
<1>2. Live(table["client"], k) => k \in table["client"].wr BY DEF Working, StreamsQuiet, Orderly, LiveC
<1>3. QED BY <1>1, <1>2 DEF ReadState

LEMMA ReadEnded ==
  ASSUME NEW t, NEW o \in Table, NEW k \in StreamIds, NEW end \in BOOLEAN,
         Elsewhere(o, t, {k}), Live(t, k), k \in t.wr, t.st[k] # "CLOSING",
         Live(o, k), o.st[k] # "CLOSING", o.wr = t.wr
  PROVE  ReadState(PeerEnded(o, FALSE, k, end), t, k, end)
<1> DEFINE u == PeerEnded(o, FALSE, k, end)
<1>1. /\ Elsewhere(u, o, {k})
      /\ ~end => u = o
      /\ end /\ k \in o.wr => ~Live(u, k)
      /\ Live(u, k) => u.st[k] = o.st[k] /\ (k \in o.wr => k \in u.wr)
  BY PeerEndedElsewhere
<1> HIDE DEF u
<1>2. Elsewhere(u, t, {k} \cup {k}) BY <1>1, ElsewhereTwice
<1>3. {k} \cup {k} = {k} OBVIOUS
<1>4. u.st[k] = "CLOSING" => Live(u, k) BY ClosingLive
<1>5. ReadState(u, t, k, end) BY <1>1, <1>2, <1>3, <1>4 DEF ReadState
<1>6. QED BY <1>5 DEF u

LEMMA RecvResponseQuiet == ASSUME Working, RecvResponse PROVE QuietInv'
<1> DEFINE t == table["client"]
           f == Head(wire["client"])
           k == f.id
           c == conn["client"]
<1>0. Inv /\ Inv' /\ EndInv /\ QuietInv /\ AtWork /\ AtWork' /\ "client" \in Endpoints BY Ends DEF Working
<1>1. Apart("client") BY <1>0, RecvApart DEF Recv
<1>2. AllowIncoming(c) BY <1>0, Open
<1>3. /\ Accepted("client", "HEADERS") /\ Arrives("client", "HEADERS") /\ f.type = "HEADERS" /\ UNCHANGED conn
      /\ \/ t.st[k] \in {"NONE", "CLOSING"} /\ UNCHANGED <<table, queue>>
         \/ /\ t.st[k] = "RESERVED" /\ table' = [table EXCEPT !["client"] = MarkClosing(t, k)]
            /\ queue' = [queue EXCEPT !["client"] = AddRst(t, queue["client"], k, "REFUSED_STREAM")]
         \/ /\ t.st[k] = "RESERVED" /\ UNCHANGED queue
            /\ table' = [table EXCEPT !["client"] = PeerEnded(PromiseFulfilled(t, k), FALSE, k, f.end)]
         \/ /\ t.st[k] \in {"OPENING", "OPENED"} /\ UNCHANGED queue
            /\ table' = [table EXCEPT !["client"] = PeerEnded(SetState(t, k, "OPENED"), FALSE, k, f.end)]
  BY <1>2 DEF RecvResponse, Accepted, Arrives, SetTable, SetQueue
<1>4. k \in StreamIds /\ f.end \in BOOLEAN BY <1>0, <1>3, Arrived
<1>5. LastFrame(f, k) <=> f.end BY <1>3 DEF LastFrame
<1>6. Good(t, FALSE) /\ t \in Table BY <1>0, Here, Ends, Place
<1>7. Live(t, k) => k \in t.wr BY <1>4 DEF Working, StreamsQuiet, Orderly, LiveC
<1>8. ASSUME UNCHANGED queue, ReadState(table'["client"], t, k, f.end) PROVE QuietInv'
  <2> DEFINE type == "HEADERS"
             u == table'["client"]
  <2>1. Arrives("client", type) /\ type # "PUSH_PROMISE" /\ u = table'["client"] BY <1>3
  <2>2. ReadState(u, t, k, LastFrame(f, k)) BY <1>5, <1>8 DEF ReadState
  <2>3. k \in StreamIds /\ k = Head(wire["client"]).id BY <1>4
  <2> HIDE DEF type, u, k
  <2>4. QED BY <1>1, <1>3, <1>8, <2>1, <2>2, <2>3, ClientReads
<1>9. CASE t.st[k] \in {"NONE", "CLOSING"} /\ UNCHANGED <<table, queue>>
  <2>1. ~Live(t, k) \/ t.st[k] = "CLOSING" BY <1>9 DEF Live
  <2>2. table'["client"] = t BY <1>9
  <2> HIDE DEF k, f
  <2>3. ReadState(t, t, k, f.end) BY <1>4, <2>1, ReadIgnored
  <2>4. QED BY <1>8, <1>9, <2>2, <2>3
<1>10. CASE /\ t.st[k] = "RESERVED" /\ table' = [table EXCEPT !["client"] = MarkClosing(t, k)]
            /\ queue' = [queue EXCEPT !["client"] = AddRst(t, queue["client"], k, "REFUSED_STREAM")]
  <2>1. Live(t, k) BY <1>10 DEF Live
  <2> DEFINE type == "HEADERS"
  <2>2. Arrives("client", type) /\ type # "PUSH_PROMISE" BY <1>3
  <2>3. LastFrame(f, k) => Live(t, k) BY <2>1
  <2>4. k = Head(wire["client"]).id OBVIOUS
  <2> HIDE DEF type, k
  <2>5. HearsOf(k, Live(t, k)) /\ ToServer' = ToServer BY <2>2, <2>3, <2>4, ReadsOf
  <2>6. IsMine(TRUE, k) => k <= conn["client"].lastRecv
    <3>1. IsMine(TRUE, k) <=> ~IsMine(FALSE, k) BY <1>4, Parity
    <3>2. Announced("client", c, k) BY <1>0, <1>4, <2>1, Here DEF Live, Known
    <3>3. QED BY <3>1, <3>2, Ends DEF Announced
  <2>7. /\ table'["client"] = MarkClosing(t, k)
        /\ queue'["client"] = AddRst(t, queue["client"], k, "REFUSED_STREAM")
    BY <1>0, <1>10, Place
  <2>8. QED BY <1>1, <1>3, <1>4, <2>5, <2>6, <2>7, ClientMarks
<1>11. CASE /\ t.st[k] = "RESERVED" /\ UNCHANGED queue
            /\ table' = [table EXCEPT !["client"] = PeerEnded(PromiseFulfilled(t, k), FALSE, k, f.end)]
  <2> DEFINE o == PromiseFulfilled(t, k)
  <2>1. Live(t, k) /\ t.st[k] # "CLOSING" BY <1>11 DEF Live
  <2> HIDE DEF k, t, f
  <2>2. Elsewhere(o, t, {k}) /\ o.st[k] = "OPENED" /\ o.wr = t.wr BY <1>4, <1>6, MovesElsewhere
  <2>3. o \in Table BY <1>4, <1>6, <1>11, PromiseFulfilledGood DEF Good
  <2> HIDE DEF o
  <2>4. Live(o, k) /\ o.st[k] # "CLOSING" BY <2>2 DEF Live
  <2>5. ReadState(PeerEnded(o, FALSE, k, f.end), t, k, f.end) BY <1>4, <1>7, <2>1, <2>2, <2>3, <2>4, ReadEnded
  <2>6. table' = [table EXCEPT !["client"] = PeerEnded(o, FALSE, k, f.end)] BY <1>11 DEF o
  <2>7. table'["client"] = PeerEnded(o, FALSE, k, f.end) BY <1>0, <2>6, Place
  <2>8. QED BY <1>8, <1>11, <2>5, <2>7
<1>12. CASE /\ t.st[k] \in {"OPENING", "OPENED"} /\ UNCHANGED queue
            /\ table' = [table EXCEPT !["client"] = PeerEnded(SetState(t, k, "OPENED"), FALSE, k, f.end)]
  <2> DEFINE z == "OPENED"
             o == SetState(t, k, z)
  <2>1. Live(t, k) /\ t.st[k] # "CLOSING" BY <1>12 DEF Live
  <2>2. k \notin t.push BY <1>6, <1>12 DEF Good, TableShape
  <2>3. SetState(t, k, "OPENED") \in Table
    <3> HIDE DEF k, t
    <3>1. QED BY <1>4, <1>6, <2>1, <2>2, SetStateGood DEF Good
  <2> HIDE DEF k, t, f, z
  <2>0. k \in StreamIds /\ t \in Table BY <1>4, <1>6
  <2>11. /\ Elsewhere(SetState(t, k, z), t, {k}) /\ SetState(t, k, z).st[k] = z
         /\ SetState(t, k, z).rd = t.rd /\ SetState(t, k, z).wr = t.wr
    BY <2>0, StateElsewhere
  <2>4. Elsewhere(o, t, {k}) /\ o.st[k] = z /\ o.wr = t.wr BY <2>11
  <2>5. o \in Table BY <2>3 DEF z
  <2> HIDE DEF o
  <2>6. Live(o, k) /\ o.st[k] # "CLOSING" BY <2>4 DEF Live, z
  <2>7. ReadState(PeerEnded(o, FALSE, k, f.end), t, k, f.end) BY <1>4, <1>7, <2>1, <2>4, <2>5, <2>6, ReadEnded
  <2>8. table' = [table EXCEPT !["client"] = PeerEnded(o, FALSE, k, f.end)] BY <1>12 DEF o, z
  <2>9. table'["client"] = PeerEnded(o, FALSE, k, f.end) BY <1>0, <2>8, Place
  <2>10. QED BY <1>8, <1>12, <2>7, <2>9
<1>13. QED BY <1>3, <1>9, <1>10, <1>11, <1>12

LEMMA ClientRecvDataQuiet == ASSUME Working, RecvData("client") PROVE QuietInv'
<1> DEFINE t == table["client"]
           f == Head(wire["client"])
           k == f.id
           u == IF Live(t, k) /\ t.st[k] # "CLOSING" THEN PeerEnded(t, FALSE, k, f.end) ELSE t
           type == "DATA"
<1>0. Inv /\ Inv' /\ EndInv /\ QuietInv /\ AtWork /\ AtWork' /\ "client" \in Endpoints BY Ends DEF Working
<1>1. Apart("client") BY <1>0, RecvApart DEF Recv
<1>2. /\ Accepted("client", "DATA") /\ Arrives("client", type) /\ type # "PUSH_PROMISE"
      /\ f.type = "DATA" /\ UNCHANGED <<queue, conn>>
      /\ IF Live(t, k) /\ t.st[k] # "CLOSING"
         THEN table' = [table EXCEPT !["client"] = PeerEnded(t, FALSE, k, f.end)] ELSE UNCHANGED table
  BY Ends DEF RecvData, Accepted, Arrives, SetTable
<1>3. k \in StreamIds /\ f.end \in BOOLEAN BY <1>0, <1>2, Arrived
<1>4. LastFrame(f, k) <=> f.end BY <1>2 DEF LastFrame
<1>5. t \in Table BY <1>0, Place
<1>6. k = Head(wire["client"]).id OBVIOUS
<1> HIDE DEF k, type
<1>7. ReadState(u, t, k, f.end)
  <2>1. CASE Live(t, k) /\ t.st[k] # "CLOSING"
    <3>1. k \in t.wr BY <1>3, <2>1 DEF Working, StreamsQuiet, Orderly, LiveC
    <3>2. Elsewhere(t, t, {k}) BY SameStates
    <3> HIDE DEF t, f
    <3>3. ReadState(PeerEnded(t, FALSE, k, f.end), t, k, f.end) BY <1>3, <1>5, <2>1, <3>1, <3>2, ReadEnded
    <3>4. QED BY <2>1, <3>3
  <2>2. CASE ~(Live(t, k) /\ t.st[k] # "CLOSING")
    <3> HIDE DEF f
    <3>1. ReadState(t, t, k, f.end) BY <1>3, <2>2, ReadIgnored
    <3>2. QED BY <2>2, <3>1
  <2>3. QED BY <2>1, <2>2
<1>8. ReadState(u, t, k, LastFrame(f, k)) BY <1>4, <1>7 DEF ReadState
<1>9. table'["client"] = u
  <2> DEFINE p == PeerEnded(t, FALSE, k, f.end)
  <2> HIDE DEF p
  <2>1. table' = [table EXCEPT !["client"] = p] => table'["client"] = p BY <1>0, Place
  <2>2. QED BY <1>2, <2>1 DEF p
<1> HIDE DEF u
<1>10. QED BY <1>1, <1>2, <1>3, <1>6, <1>8, <1>9, ClientReads

LEMMA ClientRecvRstQuiet == ASSUME Working, RecvRst("client") PROVE QuietInv'
<1> DEFINE t == table["client"]
           f == Head(wire["client"])
           k == f.id
           w == IF Live(t, k) THEN ShutRd(t, k) ELSE t
           u == CloseStream(w, FALSE, k)
           type == "RST_STREAM"
<1>0. Inv /\ Inv' /\ EndInv /\ QuietInv /\ AtWork /\ AtWork' /\ "client" \in Endpoints BY Ends DEF Working
<1>1. Apart("client") BY <1>0, RecvApart DEF Recv
<1>2. /\ Accepted("client", "RST_STREAM") /\ Arrives("client", type) /\ type # "PUSH_PROMISE"
      /\ f.type = "RST_STREAM" /\ UNCHANGED <<queue, conn>>
      /\ table' = [table EXCEPT !["client"] = u]
  BY Ends DEF RecvRst, Accepted, Arrives, SetTable
<1>3. k \in StreamIds BY <1>0, <1>2, Arrived
<1>4. LastFrame(f, k) BY <1>2 DEF LastFrame
<1>5. t \in Table BY <1>0, Place
<1>6. k = Head(wire["client"]).id OBVIOUS
<1> HIDE DEF k, type, f, t
<1>7. Elsewhere(w, t, {}) /\ w \in Table
  <2>1. ShutRd(t, k) \in Table BY <1>3, <1>5, ShutRdTable
  <2>2. Elsewhere(t, t, {}) /\ Elsewhere(ShutRd(t, k), t, {}) BY <1>3, <1>5, FlagsElsewhere
  <2>3. QED BY <1>5, <2>1, <2>2
<1> HIDE DEF w
<1>8. Elsewhere(u, w, {k}) /\ ~Live(u, k) BY <1>3, <1>7, CloseElsewhere
<1> HIDE DEF u
<1>9. Elsewhere(u, t, {} \cup {k}) BY <1>7, <1>8, ElsewhereTwice
<1>10. {} \cup {k} = {k} OBVIOUS
<1>11. ReadState(u, t, k, LastFrame(f, k)) BY <1>4, <1>8, <1>9, <1>10, ClosingLive DEF ReadState
<1>12. table'["client"] = u BY <1>0, <1>2, Place
<1>13. QED BY <1>1, <1>2, <1>3, <1>6, <1>11, <1>12, ClientReads DEF f, t

LEMMA RecvPromiseQuiet == ASSUME Working, RecvPromise PROVE QuietInv'
<1> DEFINE t == table["client"]
           f == Head(wire["client"])
           k == f.arg
           c == conn["client"]
           d == [c EXCEPT !.lastRecv = k]
           g == [c EXCEPT !.lastRecv = k, !.lastProc = k]
           u == OpenStream(t, FALSE, k, "RESERVED")
<1>0. Inv /\ Inv' /\ EndInv /\ QuietInv /\ AtWork /\ AtWork' /\ "client" \in Endpoints BY Ends DEF Working
<1>1. Apart("client") BY <1>0, RecvApart DEF Recv
<1>2. AllowIncoming(c) BY <1>0, Open
<1>3. /\ Accepted("client", "PUSH_PROMISE") /\ Arrives("client", "PUSH_PROMISE") /\ f.type = "PUSH_PROMISE"
      /\ \/ /\ conn' = [conn EXCEPT !["client"] = d] /\ UNCHANGED table
            /\ queue' = [queue EXCEPT !["client"] = AddRst(t, queue["client"], k, "CANCEL")]
         \/ /\ conn' = [conn EXCEPT !["client"] = g] /\ UNCHANGED queue
            /\ table' = [table EXCEPT !["client"] = u]
  BY <1>2 DEF RecvPromise, Accepted, Arrives, SetTable, SetQueue, SetConn
<1>4. k \in StreamIds BY <1>0, <1>3, Arrived
<1>5. NewPeerId("client", k)
  <2>1. PromiseError("client", f.id, k) = "none" BY <1>3 DEF Accepted, ErrorOf
  <2> HIDE DEF k, f
  <2>2. QED BY <1>2, <2>1 DEF PromiseError
<1>6. c \in Conn /\ t \in Table BY <1>0, Place
<1>7. ASSUME NEW id
      PROVE  /\ EndComes(id)' <=> EndComes(id)
             /\ PromiseComes(id) <=> PromiseComes(id)' \/ id = k
             /\ Unended(wire["client"], id)' => Unended(wire["client"], id)
             /\ id = k => Unended(wire["client"], id) \/ EndComes(id)'
             /\ RequestComes(id)' <=> RequestComes(id)
             /\ ResetComes(id)' <=> ResetComes(id)
  <2>1. (Promise(f, id) <=> id = k) /\ ~LastFrame(f, id) BY <1>3 DEF Promise, LastFrame
  <2>2. /\ EndComes(id) <=> EndComes(id)' \/ LastFrame(f, id)
        /\ PromiseComes(id) <=> PromiseComes(id)' \/ Promise(f, id)
        /\ Unended(wire["client"], id)' => Unended(wire["client"], id)
        /\ Promise(f, id) => Unended(wire["client"], id) \/ EndComes(id)'
        /\ RequestComes(id)' <=> RequestComes(id)
        /\ ResetComes(id)' <=> ResetComes(id)
    BY <1>0, <1>3, ClientHears
  <2>3. QED BY <2>1, <2>2
<1>8. ToServer' = ToServer BY <1>0, <1>3, ClientHears
<1>9. IsMine(TRUE, k) /\ ~IsMine(FALSE, k) /\ c.lastRecv < k /\ ~(k <= c.lastRecv) /\ k <= k
  <2>1. ~IsMine(FALSE, k) /\ c.lastRecv < k BY <1>5, Ends DEF NewPeerId
  <2>2. c.lastRecv \in Int /\ k \in Int BY <1>0, <1>4, Counters
  <2>3. IsMine(TRUE, k) BY <1>4, <2>1, Parity
  <2> HIDE DEF k, c
  <2>4. ~(k <= c.lastRecv) /\ k <= k BY <2>1, <2>2
  <2>5. QED BY <2>1, <2>3, <2>4
<1> HIDE DEF k, f, c, t
<1>10. ~Announced("client", c, k) BY <1>9, Ends DEF Announced
<1>11. ~LiveC(k) BY <1>0, <1>4, <1>10, Here DEF LiveC, Live, Known, c
<1>12. k <= conn["server"].lastSent
  <2>1. PromiseComes(k) BY <1>7
  <2>2. QED BY <1>4, <2>1 DEF Working, StreamsQuiet, Orderly
<1>13. /\ Later(d, c) /\ d.lastRecv = k /\ d.nextId = c.nextId /\ d.lastSent = c.lastSent
       /\ Later(g, c) /\ g.lastRecv = k /\ g.nextId = c.nextId /\ g.lastSent = c.lastSent
  BY <1>4, <1>6, <1>9, ConnOps DEF Conn
<1> HIDE DEF d, g, u
<1>14. CASE /\ conn' = [conn EXCEPT !["client"] = d] /\ UNCHANGED table
            /\ queue' = [queue EXCEPT !["client"] = AddRst(t, queue["client"], k, "CANCEL")]
  <2>1. conn'["client"] = d /\ queue'["client"] = AddRst(t, queue["client"], k, "CANCEL")
    BY <1>0, <1>14, Place
  <2>2. queue["client"] \in Queues("client") BY <1>0, Place
  <2>3. queue'["client"].reg = queue["client"].reg BY <1>0, <2>1, <2>2, ResetAdded
  <2>4. Later(conn'["client"], conn["client"]) BY <1>13, <2>1 DEF c
  <2>5. ASSUME NEW id \in StreamIds PROVE ClientStepOn(id)
    <3>1. /\ id = k => ResetWaits("client", id)'
          /\ ResetWaits("client", id) => ResetWaits("client", id)'
          /\ ResetWaits("client", id)' => ResetWaits("client", id) \/ id = k
      BY <1>0, <1>4, <2>1, <2>2, ResetQueued DEF t
    <3>2. RequestWaits(id)' <=> RequestWaits(id) BY <2>3 DEF RequestWaits, Waiting
    <3>3. Settled(id) /\ Orderly(id) BY DEF Working, StreamsQuiet
    <3>4. LiveC(id)' = LiveC(id) /\ Closing("client", id)' = Closing("client", id)
      BY <1>14 DEF LiveC, Closing
    <3>5. Closing("client", id)' => ResetWaits("client", id)' BY <1>0, <3>1, <3>3, <3>4 DEF Settled
    <3>6. ResetWaits("client", id)' /\ IsMine(TRUE, id) => id <= conn'["client"].lastRecv
      <4>1. CASE id = k BY <1>9, <1>13, <2>1, <4>1
      <4>2. CASE id # k BY <1>0, <2>4, <3>1, <3>3, <4>2, LaterCounters DEF Orderly
      <4>3. QED BY <4>1, <4>2
    <3>7. IsMine(FALSE, id) /\ id < conn'["client"].nextId => id <= conn'["client"].lastSent \/ RequestWaits(id)'
      BY <1>13, <2>1, <3>2, <3>3 DEF Orderly, c
    <3>8. LiveC(id)' => id \in table'["client"].wr BY <1>14, <3>3, <3>4 DEF Orderly
    <3>9. QED BY <1>7, <3>1, <3>4, <3>5, <3>6, <3>7, <3>8 DEF ClientStepOn
  <2>6. RequestsWhole'
    <3>1. Waiting' = Waiting BY <2>3 DEF Waiting
    <3>2. QED BY <1>8, <3>1, StayWhole
  <2>7. conn'["client"].lastRecv <= conn["server"].lastSent BY <1>12, <1>13, <2>1
  <2>8. QED BY <1>0, <1>1, <2>4, <2>5, <2>6, <2>7, ClientQuiet DEF ClientStepQuiet
<1>15. CASE /\ conn' = [conn EXCEPT !["client"] = g] /\ UNCHANGED queue
            /\ table' = [table EXCEPT !["client"] = u]
  <2>1. conn'["client"] = g /\ table'["client"] = u BY <1>0, <1>15, Place
  <2>2. Later(conn'["client"], conn["client"]) BY <1>13, <2>1 DEF c
  <2>3. Elsewhere(u, t, {k}) /\ u.st[k] = "RESERVED" /\ k \in u.wr BY <1>4, <1>6, <1>9, OpenElsewhere DEF u
  <2>4. ASSUME NEW id \in StreamIds PROVE ClientStepOn(id)
    <3>1. ClientQueueKept(id) BY <1>15 DEF ClientQueueKept, ResetWaits, RequestWaits, Waiting
    <3>2. CASE id # k
      <4> DEFINE S == {k}
      <4>1. Elsewhere(table'["client"], table["client"], S) /\ id \notin S BY <2>1, <2>3, <3>2 DEF t
      <4> HIDE DEF S
      <4>2. TableKept("client", id) BY <4>1, KeptElsewhere
      <4>3. ToClientKept(id) /\ ToServerKept(id) BY <1>7, <3>2 DEF ToClientKept, ToServerKept
      <4>4. conn'["client"].nextId = conn["client"].nextId BY <1>13, <2>1 DEF c
      <4>5. QED BY <2>2, <3>1, <4>2, <4>3, <4>4, ClientKeeps
    <3>3. CASE id = k
      <4>1. LiveC(id)' /\ ~Closing("client", id)' /\ id \in table'["client"].wr /\ ~LiveC(id)
        BY <1>11, <2>1, <2>3, <3>3 DEF LiveC, Live, Closing
      <4>2. IsMine(TRUE, id) /\ ~IsMine(FALSE, id) /\ conn["client"].lastRecv < id BY <1>9, <3>3 DEF c
      <4>3. id <= conn'["client"].lastRecv BY <1>9, <1>13, <2>1, <3>3
      <4>4. QED BY <1>7, <3>1, <3>3, <4>1, <4>2, <4>3 DEF ClientStepOn, ClientQueueKept
    <3>4. QED BY <3>2, <3>3
  <2>5. RequestsWhole'
    <3>1. Waiting' = Waiting BY <1>15 DEF Waiting
    <3>2. QED BY <1>8, <3>1, StayWhole
  <2>6. conn'["client"].lastRecv <= conn["server"].lastSent BY <1>12, <1>13, <2>1
  <2>7. QED BY <1>0, <1>1, <2>2, <2>4, <2>5, <2>6, ClientQuiet DEF ClientStepQuiet
<1>16. QED BY <1>3, <1>14, <1>15

-----------------------------------------------------------------------------
(* Every step                                                              *)

SameGoaway(d, c) == d.goaway = c.goaway

LEMMA GoawayOps ==
  ASSUME NEW c \in Conn
  PROVE  /\ SameGoaway(c, c)
         /\ \A n : SameGoaway([c EXCEPT !.nextId = n], c)
         /\ \A a : SameGoaway([c EXCEPT !.abort = a], c)
         /\ \A n : SameGoaway([c EXCEPT !.remoteMax = n], c)
         /\ \A n : SameGoaway([c EXCEPT !.localMax = n, !.pendingMax = n], c)
         /\ \A id : SameGoaway([c EXCEPT !.lastSent = id], c)
         /\ \A id : SameGoaway([c EXCEPT !.lastRecv = id], c)
         /\ \A id : SameGoaway([c EXCEPT !.lastRecv = id, !.lastProc = id], c)
         /\ \A id : SameGoaway([[c EXCEPT !.lastRecv = id] EXCEPT !.lastProc = id], c)
BY DEF Conn, SameGoaway

(* A step that is none of those leaves the GOAWAY flags alone.             *)
LEMMA GoawayStays ==
  ASSUME Inv, NEW e \in Endpoints, Submit(e) \/ Send(e) \/ Recv(e),
         ~SubmitTerminate(e), ~SendGoaway(e), ~RecvGoaway(e), ~RecvInvalid(e)
  PROVE  conn'[e].goaway = conn[e].goaway
<1> DEFINE Stays == \E d : conn' = [conn EXCEPT ![e] = d] /\ SameGoaway(d, conn[e])
<1>1. conn[e] \in Conn BY Place
<1>2. SUFFICES UNCHANGED conn \/ Stays
  <2>1. ASSUME NEW d, conn' = [conn EXCEPT ![e] = d] PROVE conn'[e] = d BY <2>1, Place
  <2>2. QED BY <2>1 DEF SameGoaway
<1>3. CASE Submit(e)
  <2>1. CASE e = "client" /\ SubmitRequest BY <1>1, <2>1, GoawayOps DEF SubmitRequest, SetConn
  <2>2. CASE \E id \in StreamIds : e = "server" /\ SubmitPush(id) BY <1>1, <2>2, GoawayOps DEF SubmitPush, SetConn
  <2>3. CASE \E id \in StreamIds, end \in BOOLEAN : e = "server" /\ SubmitResponse(id, end)
    BY <2>3 DEF SubmitResponse
  <2>4. CASE \E id \in StreamIds : SubmitRst(e, id) BY <1>1, <2>4, GoawayOps DEF SubmitRst, SetConn
  <2>5. CASE SubmitGoaway(e) BY <2>5 DEF SubmitGoaway
  <2>6. QED BY <1>3, <2>1, <2>2, <2>3, <2>4, <2>5 DEF Submit
<1>4. CASE Send(e)
  <2>1. CASE e = "client" /\ SendRequest BY <1>1, <2>1, GoawayOps DEF SendRequest, SetConn
  <2>2. CASE e = "server" /\ SendPromise BY <1>1, <2>2, GoawayOps DEF SendPromise, SetConn
  <2>3. CASE SendSettings(e) \/ SendResponse \/ SendRst(e) \/ \E id \in StreamIds : SendData(e, id)
    BY <2>3 DEF SendSettings, SendResponse, SendRst, SendData
  <2>4. QED BY <1>4, <2>1, <2>2, <2>3 DEF Send
<1>5. CASE Recv(e)
  <2>1. CASE e = "server" /\ RecvRequest BY <1>1, <2>1, GoawayOps DEF RecvRequest, SetConn
  <2>2. CASE e = "client" /\ RecvPromise BY <1>1, <2>2, GoawayOps DEF RecvPromise, SetConn
  <2>3. CASE RecvSettings(e) BY <1>1, <2>3, GoawayOps DEF RecvSettings, SetConn
  <2>4. CASE RecvSettingsAck(e) BY <1>1, <2>4, GoawayOps DEF RecvSettingsAck, SetConn
  <2>5. CASE RecvResponse \/ RecvData(e) \/ RecvRst(e) BY <2>5 DEF RecvResponse, RecvData, RecvRst
  <2>6. QED BY <1>5, <2>1, <2>2, <2>3, <2>4, <2>5 DEF Recv
<1>6. QED BY <1>3, <1>4, <1>5

LEMMA AtWorkBefore == ASSUME Inv, Next, AtWork' PROVE AtWork
<1>1. PICK e \in Endpoints : Submit(e) \/ Send(e) \/ Recv(e) \/ Drop(e) BY DEF Next
<1>2. Running(e) BY <1>1, Acts
<1>3. Apart(e) BY <1>1, SubmitApart, SendApart, RecvApart, DropApart
<1>4. ASSUME NEW x \in Endpoints, x # e PROVE Running(x) /\ conn[x].goaway = {}
  BY <1>3, <1>4 DEF Apart, AtWork, Running
<1>5. conn[e].goaway = {}
  <2>1. ~(SubmitTerminate(e) \/ SendGoaway(e) \/ RecvGoaway(e) \/ RecvInvalid(e) \/ Drop(e)) BY WorkEnds
  <2>2. conn'[e].goaway = conn[e].goaway BY <1>1, <2>1, GoawayStays
  <2>3. QED BY <2>2 DEF AtWork
<1>6. QED BY <1>2, <1>4, <1>5 DEF AtWork

-----------------------------------------------------------------------------
(* Every step, and the theorem                                             *)

LEMMA SubmitQuiet == ASSUME Working, NEW e \in Endpoints, Submit(e) PROVE QuietInv'
<1>0. Inv /\ AtWork' BY DEF Working
<1>1. ~SubmitTerminate(e) BY <1>0, WorkEnds
<1>2. ASSUME NEW id \in StreamIds, SubmitRst(e, id) PROVE QuietInv'
  BY <1>2, ServerSubmitRstQuiet, ClientSubmitRstQuiet, Ends
<1>3. QED BY <1>1, <1>2, SubmitRequestQuiet, SubmitPushQuiet, SubmitResponseQuiet, SubmitGoawayQuiet DEF Submit

LEMMA SendQuiet == ASSUME Working, NEW e \in Endpoints, Send(e) PROVE QuietInv'
<1>0. Inv /\ VerdictInv /\ AtWork' BY DEF Working
<1>1. ~SendGoaway(e) BY <1>0, WorkEnds
<1>2. ASSUME NEW id \in StreamIds, SendData(e, id) PROVE QuietInv'
  BY <1>0, <1>2, ServerSendDataQuiet, ClientSendsNoData, Ends
<1>3. ASSUME SendRst(e) PROVE QuietInv' BY <1>3, ServerSendRstQuiet, ClientSendRstQuiet, Ends
<1>4. QED BY <1>1, <1>2, <1>3, SendSettingsQuiet, SendRequestQuiet, SendResponseQuiet, SendPromiseQuiet DEF Send

LEMMA RecvQuiet == ASSUME Working, NEW e \in Endpoints, Recv(e) PROVE QuietInv'
<1>0. Inv /\ AtWork' BY DEF Working
<1>1. ~RecvInvalid(e) /\ ~RecvGoaway(e) BY <1>0, WorkEnds
<1>2. ASSUME RecvData(e) PROVE QuietInv' BY <1>2, ServerRecvsNoData, ClientRecvDataQuiet, Ends
<1>3. ASSUME RecvRst(e) PROVE QuietInv' BY <1>3, ServerRecvRstQuiet, ClientRecvRstQuiet, Ends
<1>4. QED BY <1>1, <1>2, <1>3, RecvRequestQuiet, RecvResponseQuiet, RecvPromiseQuiet, RecvSettingsQuiet DEF Recv

LEMMA QuietNext == ASSUME Inv, EndInv, VerdictInv, QuietInv, [Next]_vars PROVE QuietInv'
<1>1. CASE UNCHANGED vars
  BY <1>1 DEF vars, QuietInv, AtWork, Running, StreamsQuiet, Settled, Final, Orderly, PromisesQueued, PromisesRise,
              RequestsWhole, LiveC, LiveS, Closing, RequestComes, ResetComes, EndComes, PromiseComes, RequestWaits,
              ResponseWaits, PromiseWaits, ResetWaits, Unended, ToClient, ToServer, Waiting, Given, Announced
<1>2. CASE Next
  <2>1. CASE ~AtWork' BY <2>1 DEF QuietInv
  <2>2. CASE AtWork'
    <3>1. Inv' /\ AtWork BY <1>2, <2>2, NextInv, AtWorkBefore
    <3>2. Working BY <2>2, <3>1 DEF Working, QuietInv
    <3>3. PICK e \in Endpoints : Submit(e) \/ Send(e) \/ Recv(e) \/ Drop(e) BY <1>2 DEF Next
    <3>4. ~Drop(e) BY <2>2, WorkEnds
    <3>5. QED BY <3>2, <3>3, <3>4, SubmitQuiet, SendQuiet, RecvQuiet
  <2>3. QED BY <2>1, <2>2
<1>3. QED BY <1>1, <1>2

(* With nothing queued and nothing on the wire, nothing waits or comes.    *)
LEMMA NothingUnderWay ==
  ASSUME NEW id, \A e \in Endpoints : wire[e] = << >>
  PROVE  /\ ~RequestComes(id) /\ ~ResetComes(id) /\ ~EndComes(id) /\ ~PromiseComes(id)
         /\ ~Unended(wire["client"], id)
<1>1. wire["client"] = << >> /\ wire["server"] = << >> BY Ends
<1>2. ToSet(<< >>) = {} /\ DOMAIN << >> = {} BY DEF ToSet
<1>3. ToClient = {} /\ ToServer = {} BY <1>1, <1>2 DEF ToClient, ToServer
<1>4. QED BY <1>1, <1>2, <1>3 DEF RequestComes, ResetComes, EndComes, PromiseComes, Unended

LEMMA NothingWaits ==
  ASSUME NEW id, \A e \in Endpoints : queue[e].reg = << >> /\ queue[e].syn = << >>
  PROVE  /\ ~RequestWaits(id) /\ ~ResponseWaits(id) /\ ~PromiseWaits(id)
         /\ \A e \in Endpoints : ~ResetWaits(e, id)
<1>1. ToSet(<< >>) = {} BY DEF ToSet
<1>2. queue["client"].reg = << >> /\ queue["server"].reg = << >> BY Ends
<1>3. Waiting = {} /\ ToSet(queue["server"].reg) = {} BY <1>1, <1>2 DEF Waiting
<1>4. \A e \in Endpoints : ToSet(queue[e].syn) = {} BY <1>1
<1>5. QED BY <1>3, <1>4 DEF RequestWaits, ResponseWaits, PromiseWaits, ResetWaits

LEMMA InitQuiet == Init => QuietInv
<1> SUFFICES ASSUME Init PROVE QuietInv OBVIOUS
<1>1. /\ \A e \in Endpoints : wire[e] = << >> /\ table[e] = EmptyTable
      /\ \A e \in Endpoints : queue[e].reg = << >> /\ queue[e].syn = << >>
  BY DEF Init
<1>2. /\ conn["client"].nextId = 1 /\ conn["client"].lastRecv = 0
      /\ conn["server"].nextId = 2 /\ conn["server"].lastSent = 0
  BY Ends DEF Init
<1>3. \A id \in StreamIds : /\ ~LiveC(id) /\ ~LiveS(id) /\ \A e \in Endpoints : ~Closing(e, id)
                            /\ id \notin table["server"].wr
  BY <1>1, Ends DEF LiveC, LiveS, Live, Closing, EmptyTable
<1>4. \A id \in StreamIds : /\ ~RequestComes(id) /\ ~ResetComes(id) /\ ~EndComes(id) /\ ~PromiseComes(id)
                            /\ ~Unended(wire["client"], id)
  BY <1>1, NothingUnderWay
<1>5. \A id \in StreamIds : /\ ~RequestWaits(id) /\ ~ResponseWaits(id) /\ ~PromiseWaits(id)
                            /\ \A e \in Endpoints : ~ResetWaits(e, id)
  BY <1>1, NothingWaits
<1>6. \A id \in StreamIds : ~(id < conn["client"].nextId) BY <1>2 DEF StreamIds
<1>7. StreamsQuiet
  <2> SUFFICES ASSUME NEW id \in StreamIds PROVE Settled(id) /\ Final(id) /\ Orderly(id) BY DEF StreamsQuiet
  <2>1. Settled(id) BY <1>3, <1>4, <1>5 DEF Settled
  <2>2. Final(id) BY <1>4 DEF Final
  <2>3. Orderly(id) BY <1>3, <1>4, <1>5, <1>6, Ends DEF Orderly
  <2>4. QED BY <2>1, <2>2, <2>3
<1>8. PromisesQueued
  <2>1. queue["server"].reg = << >> BY <1>1, Ends
  <2>2. QED BY <1>2, <2>1 DEF PromisesQueued, PromisesRise
<1>9. RequestsWhole
  <2>1. ToSet(<< >>) = {} BY DEF ToSet
  <2>2. ToServer = {} /\ Waiting = {} BY <1>1, <2>1, Ends DEF ToServer, Waiting
  <2>3. QED BY <2>2 DEF RequestsWhole
<1>10. conn["client"].lastRecv <= conn["server"].lastSent BY <1>2
<1>11. QED BY <1>7, <1>8, <1>9, <1>10 DEF QuietInv

LEMMA QuietMeans == ASSUME QuietInv, Quiet PROVE
  /\ LiveStreams(table["client"]) = LiveStreams(table["server"])
  /\ \A e \in Endpoints, id \in StreamIds : table[e].st[id] # "CLOSING"
<1>1. /\ \A e \in Endpoints : queue[e].reg = << >> /\ queue[e].syn = << >> /\ wire[e] = << >>
      /\ AtWork
  BY DEF Quiet, AtWork
<1>2. ASSUME NEW id \in StreamIds
      PROVE  (\A e \in Endpoints : ~Closing(e, id)) /\ (LiveC(id) <=> LiveS(id))
  <2>1. Settled(id) BY <1>1 DEF QuietInv, StreamsQuiet
  <2>2. /\ ~RequestComes(id) /\ ~ResetComes(id) /\ ~EndComes(id) /\ ~PromiseComes(id)
    BY <1>1, NothingUnderWay
  <2>3. ~PromiseWaits(id) /\ \A e \in Endpoints : ~ResetWaits(e, id) BY <1>1, NothingWaits
  <2>4. \A e \in Endpoints : ~Closing(e, id) BY <2>1, <2>3 DEF Settled
  <2>5. IsMine(TRUE, id) <=> ~IsMine(FALSE, id) BY Parity
  <2>6. QED BY <2>1, <2>2, <2>3, <2>4, <2>5, Ends DEF Settled
<1>3. QED BY <1>2 DEF LiveStreams, LiveC, LiveS, Closing

(* When nothing is queued, nothing is on the wire and nobody said GOAWAY,  *)
(* client and server have the same streams open and none is left closing,  *)
(* whatever responses, pushes and resets crossed before.                   *)
THEOREM QuietEndsAgree == Spec => []QuietAgreement
<1>1. Init => QuietInv BY InitQuiet
<1>2. Inv /\ EndInv /\ VerdictInv /\ QuietInv /\ [Next]_vars => QuietInv' BY QuietNext
<1>3. QuietInv => QuietAgreement BY QuietMeans DEF QuietAgreement
<1>4. QED BY <1>1, <1>2, <1>3, VerdictHolds, PTL DEF Spec
=============================================================================
