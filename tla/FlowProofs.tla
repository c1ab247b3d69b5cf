------------------------------ MODULE FlowProofs ------------------------------
(***************************************************************************)
(* What the windows of FlowControl keep for every size, every number of    *)
(* streams and every sequence of calls: the type invariant, NoLostWakeup,  *)
(* BackPressure, CreditConserved, and that the connection does not fail.   *)
(* CreditConserved is about sums over queues of any length; the laws of    *)
(* Bytes come first, by induction through the least element of a set.      *)
(***************************************************************************)
EXTENDS FlowProperties, FiniteSetTheorems, WellFoundedInduction, TLAPS

-----------------------------------------------------------------------------
(* One window. Every operation keeps the type, and the arithmetic on which *)
(* CreditConserved rests: what the peer may send changes by what is        *)
(* granted and what it has sent, by nothing else.                          *)

(* Received and not given back, less what the application has consumed.    *)
Unconsumed(w) == w.recv + w.reduction - w.consumed

(* r is a possible result for w, after n bytes more were received.         *)
ResultOf(r, w, n) ==
  /\ r.window \in Window /\ r.grant \in Int /\ r.ok \in BOOLEAN
  /\ ~r.ok => /\ r.grant = 0 /\ Room(r.window) = Room(w)
              /\ Unconsumed(r.window) = Unconsumed(w)
  /\ r.ok => Room(r.window) = Room(w) + r.grant - n

LEMMA Fields ==
  ASSUME NEW w \in Window
  PROVE  /\ w.local \in Width /\ w.local \in Int
         /\ w.local <= MaxWindow /\ w.local >= -MaxWindow - 1
         /\ w.recv \in Int /\ w.reduction \in Nat /\ w.consumed \in Nat
         /\ w.queued \in BOOLEAN
         /\ Room(w) = w.local - w.recv /\ Room(w) \in Int
         /\ Unconsumed(w) = w.recv + w.reduction - w.consumed /\ Unconsumed(w) \in Int
BY DEF Window, Width, Room, Unconsumed

(* The six kinds of assignment the operations are made of.                 *)
WithLocal(w, l)    == [w EXCEPT !.local = l]
WithRecv(w, x)     == [w EXCEPT !.recv = x]
WithConsumed(w, c) == [w EXCEPT !.consumed = c]
WithBoth(w, x, c)  == [w EXCEPT !.recv = x, !.consumed = c]
Reduced(w, l, x, d)  == [w EXCEPT !.local = l, !.recv = x, !.reduction = d]
Restored(w, l, x, d) == [w EXCEPT !.local = l, !.reduction = d, !.recv = x]
WithAll(w, l, x, d, c) == [w EXCEPT !.local = l, !.reduction = d, !.recv = x, !.consumed = c]

LEMMA SetLocal ==
  ASSUME NEW w \in Window, NEW l \in Width
  PROVE  /\ WithLocal(w, l) \in Window
         /\ WithLocal(w, l).recv = w.recv
         /\ Room(WithLocal(w, l)) = l - w.recv
         /\ Unconsumed(WithLocal(w, l)) = Unconsumed(w)
BY DEF Window, Room, Unconsumed, WithLocal

LEMMA SetRecv ==
  ASSUME NEW w \in Window, NEW x \in Int
  PROVE  /\ WithRecv(w, x) \in Window
         /\ WithRecv(w, x).recv = x
         /\ Room(WithRecv(w, x)) = w.local - x
         /\ Unconsumed(WithRecv(w, x)) = x + w.reduction - w.consumed
BY DEF Window, Room, Unconsumed, WithRecv

LEMMA SetConsumed ==
  ASSUME NEW w \in Window, NEW c \in Nat
  PROVE  /\ WithConsumed(w, c) \in Window
         /\ WithConsumed(w, c).recv = w.recv
         /\ WithConsumed(w, c).consumed = c
         /\ Room(WithConsumed(w, c)) = Room(w)
         /\ Unconsumed(WithConsumed(w, c)) = w.recv + w.reduction - c
BY DEF Window, Room, Unconsumed, WithConsumed

LEMMA SetBoth ==
  ASSUME NEW w \in Window, NEW x \in Int, NEW c \in Nat
  PROVE  /\ WithBoth(w, x, c) \in Window
         /\ Room(WithBoth(w, x, c)) = w.local - x
         /\ Unconsumed(WithBoth(w, x, c)) = x + w.reduction - c
BY DEF Window, Room, Unconsumed, WithBoth

LEMMA SetReduced ==
  ASSUME NEW w \in Window, NEW l \in Width, NEW x \in Int, NEW d \in Nat
  PROVE  /\ Reduced(w, l, x, d) \in Window
         /\ Room(Reduced(w, l, x, d)) = l - x
         /\ Unconsumed(Reduced(w, l, x, d)) = x + d - w.consumed
BY DEF Window, Room, Unconsumed, Reduced

LEMMA SetRestored ==
  ASSUME NEW w \in Window, NEW l \in Width, NEW x \in Int, NEW d \in Nat
  PROVE  /\ Restored(w, l, x, d) \in Window
         /\ Room(Restored(w, l, x, d)) = l - x
         /\ Unconsumed(Restored(w, l, x, d)) = x + d - w.consumed
BY DEF Window, Room, Unconsumed, Restored

LEMMA SetAll ==
  ASSUME NEW w \in Window, NEW l \in Width, NEW x \in Int, NEW d \in Nat, NEW c \in Nat
  PROVE  /\ WithAll(w, l, x, d, c) \in Window
         /\ Room(WithAll(w, l, x, d, c)) = l - x
         /\ Unconsumed(WithAll(w, l, x, d, c)) = x + d - c
BY DEF Window, Room, Unconsumed, WithAll

LEMMA FreshWindow ==
  ASSUME NEW size \in Sizes
  PROVE  NewWindow(size) \in Window /\ Unconsumed(NewWindow(size)) = 0
BY WindowAssumption DEF NewWindow, Window, Sizes, Width, Unconsumed

LEMMA ShrinkResult ==
  ASSUME NEW w \in Window, NEW d \in Nat
  PROVE  /\ ResultOf(Shrink(w, d), w, 0)
         /\ Unconsumed(Shrink(w, d).window) = Unconsumed(w)
<1> DEFINE l == w.local - d
           x == w.recv - d
           y == w.reduction + d
           v == Reduced(w, l, x, y)
<1>1. Shrink(w, d) = Refused(w) \/ (Shrink(w, d) = Result(v, 0) /\ l >= 0)
  BY Fields DEF Shrink, Reduced
<1>2. CASE l >= 0
  <2>1. l \in Width /\ x \in Int /\ y \in Nat
    BY <1>2, Fields, WindowAssumption DEF Width
  <2>2. v \in Window /\ Room(v) = l - x /\ Unconsumed(v) = x + y - w.consumed
    <3> HIDE DEF l, x, y
    <3> QED
      BY <2>1, SetReduced
  <2>3. Room(v) = Room(w) + 0 - 0 /\ Unconsumed(v) = Unconsumed(w)
    <3> HIDE DEF v
    <3> QED
      BY <2>2, Fields
  <2> HIDE DEF v, l
  <2>4. CASE Shrink(w, d) = Result(v, 0)
    BY <2>2, <2>3, <2>4, Fields DEF Result, ResultOf
  <2>5. CASE Shrink(w, d) = Refused(w)
    BY <2>5, Fields DEF Refused, ResultOf
  <2> QED
    BY <1>1, <2>4, <2>5
<1> HIDE DEF v, l
<1>3. CASE Shrink(w, d) = Refused(w)
  BY <1>3, Fields DEF Refused, ResultOf
<1> QED
  BY <1>1, <1>2, <1>3

LEMMA WidenResult ==
  ASSUME NEW w \in Window, NEW d \in Nat
  PROVE  /\ ResultOf(Widen(w, d), w, 0)
         /\ Unconsumed(Widen(w, d).window) = Unconsumed(w)
<1> DEFINE paid == Least(w.reduction, d)
           l == w.local + d
           x == w.recv + paid
           y == w.reduction - paid
           v == Restored(w, l, x, y)
<1>1. paid \in Nat /\ paid <= w.reduction /\ paid <= d
  BY Fields DEF Least
<1>2. Widen(w, d) = Refused(w) \/ (Widen(w, d) = Result(v, d - paid) /\ l <= MaxWindow)
  BY Fields, WindowAssumption DEF Widen, Restored
<1>3. CASE l <= MaxWindow
  <2>1. l \in Width /\ x \in Int /\ y \in Nat
    <3> HIDE DEF paid
    <3> QED
      BY <1>1, <1>3, Fields, WindowAssumption DEF Width
  <2>2. v \in Window /\ Room(v) = l - x /\ Unconsumed(v) = x + y - w.consumed
    <3> HIDE DEF l, x, y
    <3> QED
      BY <2>1, SetRestored
  <2>3. Room(v) = Room(w) + (d - paid) - 0 /\ Unconsumed(v) = Unconsumed(w) /\ d - paid \in Int
    <3> HIDE DEF v, paid
    <3> QED
      BY <1>1, <2>2, Fields
  <2> HIDE DEF v, l, paid
  <2>4. CASE Widen(w, d) = Result(v, d - paid)
    BY <2>2, <2>3, <2>4, Fields DEF Result, ResultOf
  <2>5. CASE Widen(w, d) = Refused(w)
    BY <2>5, Fields DEF Refused, ResultOf
  <2> QED
    BY <1>2, <2>4, <2>5
<1> HIDE DEF v, l, paid
<1>4. CASE Widen(w, d) = Refused(w)
  BY <1>4, Fields DEF Refused, ResultOf
<1> QED
  BY <1>1, <1>2, <1>3, <1>4

LEMMA SetSizeResult ==
  ASSUME NEW w \in Window, NEW size \in Sizes
  PROVE  /\ ResultOf(SetSize(w, size), w, 0)
         /\ Unconsumed(SetSize(w, size).window) = Unconsumed(w)
<1>1. CASE size >= w.local
  <2>1. size - w.local \in Nat
    BY <1>1, Fields DEF Sizes
  <2> QED
    BY <1>1, <2>1, WidenResult DEF SetSize
<1>2. CASE ~(size >= w.local)
  <2>1. w.local - size \in Nat
    BY <1>2, Fields DEF Sizes
  <2> QED
    BY <1>2, <2>1, ShrinkResult DEF SetSize
<1> QED
  BY <1>1, <1>2

(* What is granted by hand is added to what may be held.                   *)
LEMMA GrantResult ==
  ASSUME NEW w \in Window, NEW d \in Nat \ {0}
  PROVE  /\ ResultOf(Grant(w, d), w, 0)
         /\ Unconsumed(Grant(w, d).window) + d >= Unconsumed(w)
<1> DEFINE unacked == Greatest(0, w.recv)
           extra   == d - unacked
           paid    == Least(w.reduction, extra)
           less(g) == Greatest(0, w.consumed - g)
<1>1. /\ unacked \in Nat /\ unacked >= w.recv /\ extra \in Int
      /\ w.recv >= 0 => unacked = w.recv
      /\ w.recv < 0 => unacked = 0
  BY Fields DEF Greatest
<1>2. \A g \in Nat : less(g) \in Nat /\ less(g) <= w.consumed
  BY Fields DEF Greatest
<1>3. CASE extra <= 0
  <2> DEFINE x == unacked - d
             c == less(d)
             v == WithBoth(w, x, c)
  <2>1. Grant(w, d) = Result(v, d)
    BY <1>3 DEF Grant, WithBoth
  <2>2. c \in Nat /\ c <= w.consumed
    BY <1>2
  <2> HIDE DEF less, c
  <2>3. unacked = w.recv
    BY <1>1, <1>3, Fields
  <2> HIDE DEF unacked
  <2>4. x \in Int
    BY <1>1
  <2>5. v \in Window /\ Room(v) = w.local - x /\ Unconsumed(v) = x + w.reduction - c
    <3> HIDE DEF x
    <3> QED
      BY <2>2, <2>4, SetBoth
  <2> HIDE DEF v
  <2>6. Room(v) = Room(w) + d - 0 /\ Unconsumed(v) + d >= Unconsumed(w)
    BY <2>2, <2>3, <2>5, Fields
  <2> QED
    BY <2>1, <2>5, <2>6, Fields DEF Result, ResultOf
<1>4. CASE extra > 0 /\ w.local > MaxWindow - extra
  <2>1. Grant(w, d) = Refused(w)
    BY <1>1, <1>4 DEF Grant
  <2> QED
    BY <2>1, Fields DEF Refused, ResultOf
<1>5. CASE extra > 0 /\ ~(w.local > MaxWindow - extra)
  <2> DEFINE l == w.local + extra
             y == w.reduction - paid
             c == IF d > paid THEN less(d - paid) ELSE w.consumed
             x == IF w.recv < 0 THEN w.recv + paid ELSE paid
             v == WithAll(w, l, x, y, c)
  <2>1. Grant(w, d) = Result(v, d - paid)
    BY <1>1, <1>5 DEF Grant, WithAll
  <2>2. paid \in Nat /\ paid <= w.reduction /\ paid <= extra
    BY <1>1, <1>5, Fields DEF Least
  <2>3. c \in Nat /\ c <= w.consumed
    <3>1. d > paid => d - paid \in Nat
      BY <2>2
    <3> QED
      BY <1>2, <2>2, <3>1, Fields
  <2> HIDE DEF less, paid, c
  <2>4. l \in Width /\ x \in Int /\ y \in Nat
    BY <1>1, <1>5, <2>2, Fields, WindowAssumption DEF Width
  <2>5. l - x = Room(w) + (d - paid) - 0 /\ x + y - c + d >= Unconsumed(w) /\ d - paid \in Int
    BY <1>1, <1>5, <2>2, <2>3, <2>4, Fields
  <2> HIDE DEF unacked, extra, l, x, y
  <2>6. v \in Window /\ Room(v) = l - x /\ Unconsumed(v) = x + y - c
    BY <2>3, <2>4, SetAll
  <2> HIDE DEF v
  <2> QED
    BY <2>1, <2>5, <2>6, Fields DEF Result, ResultOf
<1> QED
  BY <1>1, <1>3, <1>4, <1>5

LEMMA ReceivedResult ==
  ASSUME NEW w \in Window, NEW n \in Nat, NEW updates \in BOOLEAN
  PROVE  /\ ResultOf(Received(w, n, updates), w, n)
         /\ ~updates /\ Received(w, n, updates).ok =>
              Unconsumed(Received(w, n, updates).window) = Unconsumed(w) + n
<1> DEFINE x == w.recv + n
           v == WithRecv(w, x)
           u == WithRecv(v, 0)
<1>1. /\ Received(w, n, updates) \in {Refused(w), Result(u, v.recv), Result(v, 0)}
      /\ ~updates => Received(w, n, updates) \in {Refused(w), Result(v, 0)}
  BY SetRecv, Fields DEF Received, WithRecv
<1>2. x \in Int
  BY Fields
<1>3. /\ v \in Window /\ v.recv = x /\ Room(v) = w.local - x
      /\ Unconsumed(v) = x + w.reduction - w.consumed
  <2> HIDE DEF x
  <2> QED
    BY <1>2, SetRecv
<1> HIDE DEF v
<1>4. u \in Window /\ Room(u) = v.local - 0
  BY <1>3, SetRecv
<1> HIDE DEF u
<1>5. Room(v) = Room(w) + 0 - n /\ Unconsumed(v) = Unconsumed(w) + n
  BY <1>3, Fields
<1>6. Room(u) = Room(w) + v.recv - n
  <2>1. Room(v) = v.local - v.recv /\ v.local \in Int /\ v.recv \in Int
    BY <1>3, Fields
  <2>2. Room(w) \in Int
    BY Fields
  <2> QED
    BY <1>4, <1>5, <2>1, <2>2
<1>7. CASE Received(w, n, updates) = Refused(w)
  BY <1>7, Fields DEF Refused, ResultOf
<1>8. CASE Received(w, n, updates) = Result(v, 0)
  BY <1>3, <1>5, <1>8, Fields DEF Result, ResultOf
<1>9. CASE Received(w, n, updates) = Result(u, v.recv) /\ updates
  <2>1. v.recv \in Int
    BY <1>2, <1>3
  <2>2. ResultOf(Result(u, v.recv), w, n)
    BY <1>4, <1>6, <2>1 DEF Result, ResultOf
  <2> QED
    BY <1>9, <2>2
<1> QED
  BY <1>1, <1>7, <1>8, <1>9

LEMMA ConsumedResult ==
  ASSUME NEW w \in Window, NEW n \in Nat
  PROVE  /\ ResultOf(Consumed(w, n), w, 0)
         /\ Consumed(w, n).ok => Unconsumed(Consumed(w, n).window) = Unconsumed(w) - n
<1> DEFINE c == w.consumed + n
           v == WithConsumed(w, c)
           size == Least(v.consumed, v.recv)
           x == v.recv - size
           e == v.consumed - size
           u == WithBoth(v, x, e)
<1>1. Consumed(w, n) \in {Refused(w), Result(u, size), Result(v, 0)}
  BY DEF Consumed, WithConsumed, WithBoth
<1>2. c \in Nat
  BY Fields
<1>3. /\ v \in Window /\ v.recv = w.recv /\ v.consumed = c /\ Room(v) = Room(w)
      /\ Unconsumed(v) = w.recv + w.reduction - c
  <2> HIDE DEF c
  <2> QED
    BY <1>2, SetConsumed
<1> HIDE DEF v
<1>4. size \in Int /\ x \in Int /\ e \in Nat
  BY <1>3, Fields DEF Least
<1> HIDE DEF size
<1>5. u \in Window /\ Room(u) = v.local - x /\ Unconsumed(u) = x + v.reduction - e
  <2> HIDE DEF x, e
  <2> QED
    BY <1>3, <1>4, SetBoth
<1> HIDE DEF u
<1>6. Room(v) = Room(w) + 0 - 0 /\ Unconsumed(v) = Unconsumed(w) - n
  BY <1>3, Fields
<1>7. Room(u) = Room(w) + size - 0 /\ Unconsumed(u) = Unconsumed(w) - n
  <2>1. /\ Room(v) = v.local - v.recv /\ v.local \in Int /\ v.recv \in Int
        /\ v.reduction \in Int /\ v.consumed \in Int
        /\ Unconsumed(v) = v.recv + v.reduction - v.consumed
    BY <1>3, Fields
  <2> QED
    BY <1>3, <1>4, <1>5, <1>6, <2>1
<1>8. CASE Consumed(w, n) = Refused(w)
  BY <1>8, Fields DEF Refused, ResultOf
<1>9. CASE Consumed(w, n) = Result(u, size)
  BY <1>4, <1>5, <1>7, <1>9, Fields DEF Result, ResultOf
<1>10. CASE Consumed(w, n) = Result(v, 0)
  BY <1>3, <1>6, <1>10, Fields DEF Result, ResultOf
<1> QED
  BY <1>1, <1>8, <1>9, <1>10

LEMMA UpdateSentResult ==
  ASSUME auto \in BOOLEAN, NEW w \in Window
  PROVE  /\ ResultOf(UpdateSent(w), w, 0)
         /\ ~auto => Unconsumed(UpdateSent(w).window) = Unconsumed(w)
<1> DEFINE v == [w EXCEPT !.queued = FALSE]
<1>1. v \in Window /\ Room(v) = Room(w) /\ Unconsumed(v) = Unconsumed(w)
  BY DEF Window, Room, Unconsumed
<1>2. UpdateSent(w) = IF auto THEN Received(v, 0, TRUE) ELSE Consumed(v, 0)
  BY DEF UpdateSent
<1> HIDE DEF v
<1>3. ASSUME NEW x, ResultOf(x, v, 0) PROVE ResultOf(x, w, 0)
  BY <1>1, <1>3 DEF ResultOf
<1>4. CASE auto
  BY <1>1, <1>2, <1>3, <1>4, ReceivedResult
<1>5. CASE ~auto
  <2>1. UpdateSent(w) = Consumed(v, 0) /\ ResultOf(Consumed(v, 0), v, 0)
    BY <1>1, <1>2, <1>5, ConsumedResult
  <2>2. Unconsumed(Consumed(v, 0).window) = Unconsumed(v)
    <3>1. Unconsumed(v) - 0 = Unconsumed(v)
      BY <1>1, Fields
    <3>2. Consumed(v, 0).ok \in BOOLEAN
      BY <2>1 DEF ResultOf
    <3> QED
      BY <1>1, <2>1, <3>1, <3>2, ConsumedResult DEF ResultOf
  <2> QED
    BY <1>1, <1>3, <1>5, <2>1, <2>2
<1> QED
  BY <1>4, <1>5

(* A new initial window moves the room of a stream by the difference.      *)
LEMMA ResizeResult ==
  ASSUME NEW w \in Window, NEW by \in Int, NEW updates \in BOOLEAN
  PROVE  /\ Resize(w, by, updates).window \in Window
         /\ Resize(w, by, updates).grant \in Int
         /\ Resize(w, by, updates).ok \in BOOLEAN
         /\ Resize(w, by, updates).ok => Room(Resize(w, by, updates).window)
              = Room(w) + by + Resize(w, by, updates).grant
         /\ ~updates => Unconsumed(Resize(w, by, updates).window) = Unconsumed(w)
<1> DEFINE l == w.local + by
           v == WithLocal(w, l)
           u == WithRecv(v, 0)
<1>1. \/ Resize(w, by, updates) = Refused(w)
      \/ FitsResize(w.local, by) /\ updates /\ Resize(w, by, updates) = Result(u, v.recv)
      \/ FitsResize(w.local, by) /\ Resize(w, by, updates) = Result(v, 0)
  BY DEF Resize, WithLocal, WithRecv
<1>2. CASE Resize(w, by, updates) = Refused(w)
  BY <1>2, Fields DEF Refused
<1>3. CASE FitsResize(w.local, by)
  <2>1. l \in Width
    BY <1>3, Fields DEF FitsResize, Width
  <2>2. /\ v \in Window /\ v.recv = w.recv /\ Room(v) = l - w.recv
        /\ Unconsumed(v) = Unconsumed(w)
    <3> HIDE DEF l
    <3> QED
      BY <2>1, SetLocal
  <2> HIDE DEF v
  <2>3. u \in Window /\ Room(u) = v.local - 0
    BY <2>2, SetRecv
  <2> HIDE DEF u
  <2>4. Room(v) = Room(w) + by + 0 /\ Room(u) = Room(w) + by + v.recv /\ v.recv \in Int
    <3>1. Room(v) = v.local - v.recv /\ v.local \in Int /\ v.recv \in Int
      BY <2>2, Fields
    <3> QED
      BY <2>2, <2>3, <3>1, Fields
  <2>5. CASE Resize(w, by, updates) = Result(v, 0)
    BY <2>2, <2>4, <2>5 DEF Result
  <2>6. CASE updates /\ Resize(w, by, updates) = Result(u, v.recv)
    <3>1. /\ Result(u, v.recv).window = u /\ Result(u, v.recv).ok \in BOOLEAN
          /\ Result(u, v.recv).grant = v.recv
      BY DEF Result
    <3> QED
      BY <2>3, <2>4, <2>6, <3>1
  <2> QED
    BY <1>1, <1>2, <2>5, <2>6
<1> HIDE DEF u, v
<1> QED
  BY <1>1, <1>2, <1>3

-----------------------------------------------------------------------------
(* The inductive invariant. Unconsumed data is what may be held; a request *)
(* waits in the queue once, with nothing held for it, so the window its    *)
(* stream starts with is a fresh one.                                      *)

ReceiverTypes ==
  /\ window \in [Accounts -> Window] /\ rstate \in [Streams -> States]
  /\ lastInitial \in Sizes /\ inflight \in Seq(Sizes) /\ shrunk \in BOOLEAN
  /\ rqueue \in [urgent : Seq(Frames), reg : Seq(Frames), syn : SUBSET Streams]
  /\ held \in [Accounts -> Int]

SenderTypes ==
  /\ remote \in [Accounts -> Width] /\ sstate \in [Streams -> States]
  /\ item \in [Streams -> Items] /\ left \in [Streams -> Nat]
  /\ peerInitial \in Sizes /\ squeue \in [acks : Nat, syn : SUBSET Streams]

OtherTypes ==
  /\ auto \in BOOLEAN /\ calls \in [changes : Nat, cancels : Nat, granted : Nat]
  /\ failed \subseteq Accounts \X Occasions
  /\ toSender \in Seq(Frames) /\ toReceiver \in Seq(Frames)

Waiting == {"queued", "closed"}

RegOK(q, state, h) ==
  /\ q \in Seq(Frames)
  /\ \A i \in 1 .. Len(q) :
       q[i].kind = "HEADERS" => state[q[i].of] \in Waiting /\ h[q[i].of] = 0
  /\ \A i, j \in 1 .. Len(q) :
       q[i].kind = "HEADERS" /\ q[j].kind = "HEADERS" /\ q[i].of = q[j].of => i = j

Untouched == \A s \in Streams : rstate[s] = "idle" => held[s] = 0

Owed ==
  ~auto /\ NoneRefused =>
    \A a \in Usable : held[a] <= Unconsumed(window[a]) + calls.granted

ReceiverInv == ReceiverTypes /\ RegOK(rqueue.reg, rstate, held) /\ Untouched /\ Owed
SenderInv   == SenderTypes /\ NoLostWakeup
FlowInv     == OtherTypes /\ ReceiverInv /\ SenderInv

LEMMA InvImplies == FlowInv => FlowTypeOK /\ NoLostWakeup /\ BackPressure
<1> SUFFICES ASSUME FlowInv PROVE FlowTypeOK /\ NoLostWakeup /\ BackPressure
  OBVIOUS
<1>1. FlowTypeOK
  BY DEF FlowInv, ReceiverInv, SenderInv, ReceiverTypes, SenderTypes, OtherTypes, FlowTypeOK
<1>2. ASSUME ~auto, NoneRefused, NEW a \in Usable
      PROVE  held[a] + Room(window[a]) <= window[a].local + window[a].reduction + calls.granted
  <2>1. window[a] \in Window /\ held[a] \in Int /\ calls.granted \in Nat
    BY DEF FlowInv, ReceiverInv, ReceiverTypes, OtherTypes, Usable, Accounts
  <2>2. held[a] <= Unconsumed(window[a]) + calls.granted
    BY <1>2 DEF FlowInv, ReceiverInv, Owed
  <2> QED
    BY <2>1, <2>2, Fields
<1> QED
  BY <1>1, <1>2 DEF FlowInv, SenderInv, BackPressure

-----------------------------------------------------------------------------
(* The queue and the states of the streams.                                *)

LEMMA FrameTypes ==
  /\ \A a \in Accounts, n \in Nat : Update(a, n) \in Frames /\ Update(a, n).kind # "HEADERS"
  /\ \A s \in Streams : /\ Headers(s) \in Frames /\ Rst(s) \in Frames
                         /\ Headers(s).kind = "HEADERS" /\ Headers(s).of = s
  /\ \A s \in Streams, n \in Nat, end \in BOOLEAN : Data(s, n, end) \in Frames
  /\ \A v \in Sizes : Settings(v) \in Frames
  /\ Ack \in Frames
<1>1. Conn \in Accounts /\ \A s \in Streams : s \in Accounts
  BY DEF Accounts
<1>2. \A v \in Sizes : v \in Nat
  BY WindowAssumption DEF Sizes
<1> HIDE DEF Accounts, Streams, Sizes, Conn
<1>3. \A a \in Accounts, n \in Nat : Update(a, n) \in Frames /\ Update(a, n).kind # "HEADERS"
  BY DEF Update, Frames, Kinds
<1>4. \A s \in Streams : /\ Headers(s) \in Frames /\ Rst(s) \in Frames
                         /\ Headers(s).kind = "HEADERS" /\ Headers(s).of = s
  BY <1>1 DEF Headers, Rst, Frames, Kinds
<1>5. \A s \in Streams, n \in Nat, end \in BOOLEAN : Data(s, n, end) \in Frames
  BY <1>1 DEF Data, Frames, Kinds
<1>6. \A v \in Sizes : Settings(v) \in Frames
  BY <1>1, <1>2 DEF Settings, Frames, Kinds
<1>7. Ack \in Frames
  BY <1>1 DEF Ack, Frames, Kinds
<1> QED
  BY <1>3, <1>4, <1>5, <1>6, <1>7

LEMMA FrameFields ==
  ASSUME NEW f \in Frames
  PROVE  /\ f.of \in Accounts /\ f.n \in Nat
         /\ f.kind \notin {"WINDOW_UPDATE", "SETTINGS", "ACK"} => f.of \in Streams
         /\ f.kind = "SETTINGS" => f.n \in Sizes
BY DEF Frames

LEMMA RegAppend ==
  ASSUME NEW q, NEW state, NEW h, RegOK(q, state, h), NEW f \in Frames, f.kind # "HEADERS"
  PROVE  RegOK(Append(q, f), state, h)
BY DEF RegOK

LEMMA RegQueued ==
  ASSUME NEW q, NEW state, NEW h, RegOK(q, state, h), NEW a \in Accounts, NEW n \in Int
  PROVE  RegOK(Queued(q, a, n), state, h)
BY RegAppend, FrameTypes DEF Queued

LEMMA RegMany ==
  ASSUME NEW q, NEW state, NEW h, RegOK(q, state, h), NEW p \in Seq(Frames),
         \A i \in 1 .. Len(p) : p[i].kind # "HEADERS"
  PROVE  RegOK(q \o p, state, h)
BY DEF RegOK

LEMMA RegSubmit ==
  ASSUME NEW q, NEW state \in [Streams -> States], NEW h, RegOK(q, state, h),
         NEW s \in Streams, state[s] = "idle", h[s] = 0
  PROVE  RegOK(Append(q, Headers(s)), [state EXCEPT ![s] = "queued"], h)
<1> DEFINE p == Append(q, Headers(s))
           other == [state EXCEPT ![s] = "queued"]
<1>1. q \in Seq(Frames) /\ Headers(s) \in Frames /\ Headers(s).of = s
  BY FrameTypes DEF RegOK
<1>2. /\ p \in Seq(Frames) /\ Len(p) = Len(q) + 1 /\ Len(q) \in Nat
      /\ \A i \in 1 .. Len(p) : p[i] = IF i = Len(p) THEN Headers(s) ELSE q[i]
  BY <1>1
<1>3. \A i \in 1 .. Len(q) : q[i].kind = "HEADERS" => q[i].of \in Streams /\ q[i].of # s
  BY <1>1, FrameFields DEF RegOK, Waiting
<1>4. \A i \in 1 .. Len(p) : p[i].kind = "HEADERS" => other[p[i].of] \in Waiting /\ h[p[i].of] = 0
  <2> HIDE DEF p
  <2>1. \A i \in 1 .. Len(q) : q[i].kind = "HEADERS" => other[q[i].of] \in Waiting /\ h[q[i].of] = 0
    BY <1>3 DEF RegOK, Waiting
  <2>2. other[s] \in Waiting
    BY DEF Waiting
  <2> HIDE DEF other
  <2> QED
    BY <1>1, <1>2, <2>1, <2>2
<1>5. \A i, j \in 1 .. Len(p) :
        p[i].kind = "HEADERS" /\ p[j].kind = "HEADERS" /\ p[i].of = p[j].of => i = j
  <2> HIDE DEF p
  <2> QED
    BY <1>1, <1>2, <1>3 DEF RegOK
<1> QED
  BY <1>2, <1>4, <1>5 DEF RegOK

LEMMA RegTail ==
  ASSUME NEW q, NEW state, NEW h, RegOK(q, state, h), q # <<>>
  PROVE  RegOK(Tail(q), state, h) /\ Head(q) \in Frames
BY DEF RegOK

LEMMA RegSent ==
  ASSUME NEW q, NEW state \in [Streams -> States], NEW h, RegOK(q, state, h), q # <<>>,
         Head(q).kind = "HEADERS"
  PROVE  /\ Head(q).of \in Streams /\ h[Head(q).of] = 0
         /\ state[Head(q).of] \in Waiting
         /\ RegOK(Tail(q), [state EXCEPT ![Head(q).of] = "open"], h)
BY FrameFields DEF RegOK, Waiting

LEMMA RegState ==
  ASSUME NEW q, NEW state, NEW h, RegOK(q, state, h), NEW other, NEW g,
         \A s \in Streams : state[s] \in Waiting /\ h[s] = 0
                              => other[s] \in Waiting /\ g[s] = 0
  PROVE  RegOK(q, other, g)
BY FrameFields DEF RegOK

LEMMA OrderTypes ==
  ASSUME NEW S \in SUBSET Streams, NEW q \in Orders(S)
  PROVE  q \in Seq(Streams) /\ \A i \in DOMAIN q : q[i] \in S
<1>1. IsFiniteSet(S)
  <2>1. IsFiniteSet(1 .. NumStreams)
    BY FlowAssumption, FS_Interval
  <2> QED
    BY <2>1, FS_Subset DEF Streams
<1>2. Cardinality(S) \in Nat
  BY <1>1, FS_CardinalityType
<1>3. q \in [1 .. Cardinality(S) -> S]
  BY DEF Orders
<1> QED
  BY <1>2, <1>3

LEMMA ResetStates ==
  ASSUME NEW state \in [Streams -> States], NEW S
  PROVE  ResetState(state, S) \in [Streams -> States]
BY DEF ResetState, States

-----------------------------------------------------------------------------
(* One side at a time.                                                     *)

LEMMA SenderStays ==
  ASSUME SenderInv, UNCHANGED sender
  PROVE  SenderInv'
BY DEF SenderInv, SenderTypes, NoLostWakeup, sender

LEMMA ReceiverStays ==
  ASSUME ReceiverInv, UNCHANGED <<receiver, auto, calls>>, failed \subseteq failed'
  PROVE  ReceiverInv'
<1>1. /\ ReceiverTypes' /\ RegOK(rqueue.reg, rstate, held)' /\ Untouched'
  BY DEF ReceiverInv, ReceiverTypes, RegOK, Untouched, receiver
<1>2. Owed'
  BY DEF ReceiverInv, Owed, NoneRefused, Usable, Known, receiver, Unconsumed
<1> QED
  BY <1>1, <1>2 DEF ReceiverInv

(* An operation on the receiver's windows keeps what is owed if no usable  *)
(* window loses more than is held less.                                    *)
LEMMA OwedStep ==
  ASSUME ReceiverInv, OtherTypes, UNCHANGED auto, failed \subseteq failed',
         calls.granted <= calls'.granted, calls'.granted \in Nat,
         window' \in [Accounts -> Window], held' \in [Accounts -> Int],
         ~auto /\ NoneRefused' => \A a \in Usable' :
           \/ held'[a] <= Unconsumed(window'[a]) + calls'.granted
           \/ /\ a \in Usable
              /\ held'[a] - Unconsumed(window'[a]) - calls'.granted
                   <= held[a] - Unconsumed(window[a]) - calls.granted
  PROVE  Owed'
<1> SUFFICES ASSUME ~auto, NoneRefused', NEW a \in Usable'
             PROVE  held'[a] <= Unconsumed(window'[a]) + calls'.granted
  BY DEF Owed, Usable, Known, Unconsumed
<1>1. a \in Accounts
  BY DEF Usable, Accounts
<1>2. NoneRefused
  BY DEF NoneRefused
<1>3. window[a] \in Window /\ window'[a] \in Window /\ held[a] \in Int /\ held'[a] \in Int
      /\ calls.granted \in Nat
  BY <1>1 DEF ReceiverInv, ReceiverTypes, OtherTypes
<1>4. Unconsumed(window[a]) \in Int /\ Unconsumed(window'[a]) \in Int
  BY <1>3, Fields
<1>5. CASE /\ a \in Usable
           /\ held'[a] - Unconsumed(window'[a]) - calls'.granted
                <= held[a] - Unconsumed(window[a]) - calls.granted
  <2>1. held[a] <= Unconsumed(window[a]) + calls.granted
    BY <1>2, <1>5 DEF ReceiverInv, Owed
  <2> QED
    BY <1>3, <1>4, <1>5, <2>1
<1> QED
  BY <1>5

LEMMA Conns == Conn \in Accounts /\ Streams \subseteq Accounts /\ \A s \in Streams : s # Conn
BY DEF Conn, Accounts, Streams

-----------------------------------------------------------------------------
(* The receiving application.                                              *)

QueueTypes == [urgent : Seq(Frames), reg : Seq(Frames), syn : SUBSET Streams]

Requeued(q, u, S) == [q EXCEPT !.reg = u, !.syn = S]

LEMMA QueueSet ==
  ASSUME NEW q \in QueueTypes, NEW u \in Seq(Frames), NEW S \in SUBSET Streams
  PROVE  /\ [q EXCEPT !.urgent = u] \in QueueTypes /\ [q EXCEPT !.urgent = u].reg = q.reg
         /\ [q EXCEPT !.reg = u] \in QueueTypes /\ [q EXCEPT !.reg = u].reg = u
         /\ [q EXCEPT !.syn = S] \in QueueTypes /\ [q EXCEPT !.syn = S].reg = q.reg
BY DEF QueueTypes

LEMMA RequeuedSet ==
  ASSUME NEW q \in QueueTypes, NEW u \in Seq(Frames), NEW S \in SUBSET Streams
  PROVE  Requeued(q, u, S) \in QueueTypes /\ Requeued(q, u, S).reg = u
BY DEF QueueTypes, Requeued

LEMMA InvFields ==
  ASSUME FlowInv
  PROVE  /\ rqueue \in QueueTypes /\ RegOK(rqueue.reg, rstate, held) /\ rqueue.reg \in Seq(Frames)
         /\ rqueue.urgent \in Seq(Frames) /\ rqueue.syn \in SUBSET Streams
         /\ window \in [Accounts -> Window] /\ rstate \in [Streams -> States]
         /\ held \in [Accounts -> Int] /\ calls.granted \in Nat
BY DEF FlowInv, ReceiverInv, ReceiverTypes, QueueTypes, OtherTypes

CallTypes == [changes : Nat, cancels : Nat, granted : Nat]

Spent(c, n, g) == [c EXCEPT !.changes = n, !.granted = g]

LEMMA CallSet ==
  ASSUME NEW c \in CallTypes, NEW n \in Nat, NEW g \in Nat
  PROVE  /\ [c EXCEPT !.changes = n] \in CallTypes
         /\ [c EXCEPT !.changes = n].granted = c.granted
         /\ [c EXCEPT !.cancels = n] \in CallTypes
         /\ [c EXCEPT !.cancels = n].granted = c.granted
         /\ Spent(c, n, g) \in CallTypes /\ Spent(c, n, g).granted = g
BY DEF CallTypes, Spent

LEMMA CallFields ==
  ASSUME FlowInv
  PROVE  /\ calls \in CallTypes /\ calls.granted \in Nat
         /\ calls.changes \in Nat /\ calls.cancels \in Nat
BY DEF FlowInv, OtherTypes, CallTypes

LEMMA MayChangeStep ==
  ASSUME FlowInv, MayChange
  PROVE  calls' \in CallTypes /\ calls'.granted = calls.granted
<1> DEFINE n == calls.changes - 1
<1>1. n \in Nat /\ calls' = [calls EXCEPT !.changes = n]
  BY CallFields DEF MayChange
<1> HIDE DEF n
<1> QED
  BY <1>1, CallFields, CallSet

LEMMA SubmitRequestStep ==
  ASSUME FlowInv, NEW s \in Streams, SubmitRequest(s)
  PROVE  FlowInv'
<1>1. OtherTypes' /\ SenderInv'
  BY SenderStays DEF FlowInv, OtherTypes, SubmitRequest
<1> DEFINE q == Append(rqueue.reg, Headers(s))
<1>2. /\ rqueue' = [rqueue EXCEPT !.reg = q] /\ rstate' = [rstate EXCEPT ![s] = "queued"]
      /\ rstate[s] = "idle"
      /\ UNCHANGED <<auto, window, lastInitial, inflight, held, shrunk, calls, failed>>
  BY DEF SubmitRequest
<1>3. RegOK(q, rstate', held') /\ q \in Seq(Frames)
  <2>1. held[s] = 0
    BY <1>2 DEF FlowInv, ReceiverInv, Untouched
  <2>2. RegOK(q, rstate', held')
    BY <1>2, <2>1, InvFields, RegSubmit
  <2> QED
    BY <2>2 DEF RegOK
<1> HIDE DEF q
<1>4. rqueue' \in QueueTypes /\ rqueue'.reg = q
  BY <1>2, <1>3, InvFields, QueueSet
<1>5. ReceiverTypes' /\ RegOK(rqueue.reg, rstate, held)'
  <2>1. rstate' \in [Streams -> States]
    BY <1>2, InvFields DEF States
  <2>2. ReceiverTypes'
    BY <1>2, <1>4, <2>1 DEF FlowInv, ReceiverInv, ReceiverTypes, QueueTypes
  <2>3. RegOK(rqueue'.reg, rstate', held')
    BY <1>3, <1>4
  <2> QED
    BY <2>2, <2>3 DEF RegOK
<1>6. Untouched'
  BY <1>2, InvFields DEF FlowInv, ReceiverInv, Untouched
<1>7. Owed'
  BY <1>2, InvFields DEF FlowInv, ReceiverInv, Owed, NoneRefused, Usable, Known, Unconsumed
<1> QED
  BY <1>1, <1>5, <1>6, <1>7 DEF FlowInv, ReceiverInv

LEMMA SubmitSettingsStep ==
  ASSUME FlowInv, NEW v \in Initials, SubmitSettings(v)
  PROVE  FlowInv'
<1>1. v \in Sizes
  BY FlowAssumption
<1>2. OtherTypes' /\ SenderInv' /\ calls'.granted = calls.granted
  <2>1. calls' \in CallTypes /\ calls'.granted = calls.granted
    BY MayChangeStep DEF SubmitSettings
  <2> QED
    BY <2>1, SenderStays DEF FlowInv, OtherTypes, SubmitSettings, CallTypes
<1> DEFINE q == Append(rqueue.urgent, Settings(v))
<1>3. /\ rqueue' = [rqueue EXCEPT !.urgent = q] /\ inflight' = Append(inflight, v)
      /\ UNCHANGED <<auto, window, rstate, lastInitial, held, shrunk, failed>>
  BY DEF SubmitSettings
<1>4. q \in Seq(Frames)
  BY <1>1, InvFields, FrameTypes
<1> HIDE DEF q
<1>5. rqueue' \in QueueTypes /\ rqueue'.reg = rqueue.reg
  BY <1>3, <1>4, InvFields, QueueSet
<1>6. ReceiverTypes' /\ RegOK(rqueue.reg, rstate, held)' /\ Untouched'
  <2>1. inflight' \in Seq(Sizes)
    BY <1>1, <1>3 DEF FlowInv, ReceiverInv, ReceiverTypes
  <2>2. ReceiverTypes' /\ Untouched'
    BY <1>3, <1>5, <2>1 DEF FlowInv, ReceiverInv, ReceiverTypes, QueueTypes, Untouched
  <2>3. RegOK(rqueue'.reg, rstate', held')
    BY <1>3, <1>5, InvFields
  <2> QED
    BY <2>2, <2>3 DEF RegOK
<1>7. Owed'
  BY <1>2, <1>3 DEF FlowInv, ReceiverInv, Owed, NoneRefused, Usable, Known, Unconsumed
<1> QED
  BY <1>2, <1>6, <1>7 DEF FlowInv, ReceiverInv

(* r is what a call gives for window a, with g granted by hand.            *)
LEMMA ChangeStep ==
  ASSUME FlowInv, NEW a \in Accounts, NEW r, NEW g \in Nat, Change(a, r),
         ResultOf(r, window[a], 0), Unconsumed(r.window) + g >= Unconsumed(window[a]),
         calls' \in CallTypes,
         calls'.granted = calls.granted + g
  PROVE  FlowInv'
<1>1. OtherTypes' /\ SenderInv'
  BY SenderStays DEF FlowInv, OtherTypes, Change, CallTypes
<1> DEFINE q == Queued(rqueue.reg, a, r.grant)
           m == Marked(r)
<1>2. /\ window' = [window EXCEPT ![a] = m] /\ rqueue' = [rqueue EXCEPT !.reg = q]
      /\ UNCHANGED <<auto, rstate, lastInitial, inflight, held, shrunk, failed>>
  BY DEF Change
<1>3. m \in Window /\ Unconsumed(m) = Unconsumed(r.window)
  BY DEF ResultOf, Marked, Window, Unconsumed
<1>4. RegOK(q, rstate, held) /\ q \in Seq(Frames)
  <2>1. r.grant \in Int
    BY DEF ResultOf
  <2>2. RegOK(q, rstate, held)
    BY <2>1, InvFields, RegQueued
  <2> QED
    BY <2>2 DEF RegOK
<1> HIDE DEF q, m
<1>5. rqueue' \in QueueTypes /\ rqueue'.reg = q
  BY <1>2, <1>4, InvFields, QueueSet
<1>6. ReceiverTypes' /\ RegOK(rqueue.reg, rstate, held)' /\ Untouched'
  BY <1>2, <1>3, <1>4, <1>5, InvFields
     DEF FlowInv, ReceiverInv, ReceiverTypes, QueueTypes, RegOK, Untouched
<1>7. Owed'
  <2>1. ASSUME NEW b \in Usable'
        PROVE  /\ b \in Usable
               /\ held'[b] - Unconsumed(window'[b]) - calls'.granted
                    <= held[b] - Unconsumed(window[b]) - calls.granted
    <3>1. b \in Usable /\ b \in Accounts
      BY <1>2 DEF Usable, Known, Accounts
    <3>2. /\ window'[b] = IF b = a THEN m ELSE window[b]
          /\ held'[b] = held[b] /\ held[b] \in Int /\ calls.granted \in Nat
          /\ window[b] \in Window
      BY <1>2, <3>1, InvFields
    <3>3. Unconsumed(window[b]) \in Int /\ Unconsumed(m) \in Int
      BY <1>3, <3>2, Fields
    <3> QED
      BY <1>3, <3>1, <3>2, <3>3
  <2>2. calls'.granted \in Nat /\ calls.granted <= calls'.granted
    BY InvFields
  <2>3. window' \in [Accounts -> Window] /\ held' \in [Accounts -> Int]
    BY <1>6 DEF ReceiverTypes
  <2> QED
    BY <1>2, <2>1, <2>2, <2>3, OwedStep DEF FlowInv
<1> QED
  BY <1>1, <1>6, <1>7 DEF FlowInv, ReceiverInv

LEMMA SetLocalWindowSizeStep ==
  ASSUME FlowInv, NEW a \in Tuned, NEW size \in NewSizes, SetLocalWindowSize(a, size)
  PROVE  FlowInv'
<1> DEFINE r == SetSize(window[a], size)
<1>1. a \in Accounts /\ size \in Sizes
  BY FlowAssumption
<1>2. window[a] \in Window
  BY <1>1, InvFields
<1>3. ResultOf(r, window[a], 0) /\ Unconsumed(r.window) + 0 >= Unconsumed(window[a])
  BY <1>1, <1>2, SetSizeResult, Fields
<1>4. Change(a, r)
  BY DEF SetLocalWindowSize
<1>5. calls' \in CallTypes /\ calls'.granted = calls.granted + 0
  BY MayChangeStep, CallFields DEF SetLocalWindowSize
<1> HIDE DEF r
<1> QED
  BY <1>1, <1>3, <1>4, <1>5, ChangeStep

LEMMA SubmitWindowUpdateStep ==
  ASSUME FlowInv, NEW a \in Tuned, NEW i \in Increments, SubmitWindowUpdate(a, i)
  PROVE  FlowInv'
<1> DEFINE r == IF i > 0 THEN Grant(window[a], i) ELSE Shrink(window[a], -i)
           g == Greatest(0, i)
<1>1. a \in Accounts /\ i \in Int /\ i # 0
  BY FlowAssumption DEF SubmitWindowUpdate
<1>2. window[a] \in Window
  BY <1>1, InvFields
<1>3. g \in Nat /\ ResultOf(r, window[a], 0) /\ Unconsumed(r.window) + g >= Unconsumed(window[a])
  <2>1. CASE i > 0
    <3>1. i \in Nat \ {0} /\ g = i
      BY <1>1, <2>1 DEF Greatest
    <3> QED
      BY <1>2, <2>1, <3>1, GrantResult
  <2>2. CASE ~(i > 0)
    <3>1. -i \in Nat /\ g = 0
      BY <1>1, <2>2 DEF Greatest
    <3>2. Unconsumed(window[a]) + 0 >= Unconsumed(window[a])
      BY <1>2, Fields
    <3> QED
      BY <1>2, <2>2, <3>1, <3>2, ShrinkResult
  <2> QED
    BY <2>1, <2>2
<1>4. Change(a, r)
  BY DEF SubmitWindowUpdate
<1> DEFINE n == calls.changes - 1
           m == calls.granted + g
<1>5. calls.changes > 0 /\ calls' = Spent(calls, n, m)
  BY DEF SubmitWindowUpdate, Change, Spent
<1> HIDE DEF r, g
<1>6. n \in Nat /\ m \in Nat
  BY <1>3, <1>5, CallFields
<1> HIDE DEF n
<1>7. calls' \in CallTypes /\ calls'.granted = m
  <2> HIDE DEF m
  <2> QED
    BY <1>5, <1>6, CallFields, CallSet
<1> QED
  BY <1>1, <1>3, <1>4, <1>7, ChangeStep

LEMMA ReceiverStep ==
  ASSUME FlowInv,
         window' \in [Accounts -> Window], rstate' \in [Streams -> States],
         lastInitial' \in Sizes, inflight' \in Seq(Sizes), shrunk' \in BOOLEAN,
         rqueue' \in QueueTypes, held' \in [Accounts -> Int],
         RegOK(rqueue'.reg, rstate', held'), Untouched', Owed'
  PROVE  ReceiverInv'
BY DEF ReceiverInv, ReceiverTypes, QueueTypes, RegOK

LEMMA MarkedWindow ==
  ASSUME NEW r, r.window \in Window, r.grant \in Int
  PROVE  Marked(r) \in Window /\ Unconsumed(Marked(r)) = Unconsumed(r.window)
BY DEF Marked, Window, Unconsumed

LEMMA ConsumedKeeps ==
  ASSUME NEW w \in Window, NEW n \in Nat
  PROVE  Unconsumed(Consumed(w, n).window) >= Unconsumed(w) - n
<1> DEFINE r == Consumed(w, n)
<1>1. ResultOf(r, w, 0) /\ (r.ok => Unconsumed(r.window) = Unconsumed(w) - n)
  BY ConsumedResult
<1>2. Unconsumed(w) \in Int
  BY Fields
<1>3. r.ok \in BOOLEAN /\ Unconsumed(r.window) \in Int
  BY <1>1, Fields DEF ResultOf
<1>4. CASE r.ok
  BY <1>1, <1>2, <1>3, <1>4
<1>5. CASE ~r.ok
  <2>1. Unconsumed(r.window) = Unconsumed(w)
    BY <1>1, <1>5 DEF ResultOf
  <2> HIDE DEF r
  <2>2. Unconsumed(r.window) >= Unconsumed(w) - n
    BY <1>2, <2>1
  <2> QED
    BY <2>2 DEF r
<1> QED
  BY <1>3, <1>4, <1>5

LEMMA ConsumeStep ==
  ASSUME FlowInv, NEW s \in Streams, NEW n \in Nat, Consume(s, n)
  PROVE  FlowInv'
<1> DEFINE c == Consumed(window[Conn], n)
           x == IF Known(rstate, s) THEN Consumed(window[s], n) ELSE Result(window[s], 0)
           q == Queued(Queued(rqueue.reg, Conn, c.grant), s, x.grant)
<1>1. OtherTypes' /\ SenderInv'
  <2>1. failed' \subseteq Accounts \X Occasions
    BY Conns DEF Consume, FlowInv, OtherTypes, Error, Occasions
  <2> QED
    BY <2>1, SenderStays DEF FlowInv, OtherTypes, Consume
<1>2. /\ held' = [held EXCEPT ![s] = @ - n, ![Conn] = @ - n]
      /\ window' = [window EXCEPT ![Conn] = Marked(c), ![s] = Marked(x)]
      /\ rqueue' = [rqueue EXCEPT !.reg = q] /\ failed \subseteq failed'
      /\ UNCHANGED <<auto, rstate, lastInitial, inflight, shrunk, calls>>
  BY DEF Consume
<1>3. /\ s \in Accounts /\ Conn \in Accounts /\ s # Conn
      /\ window[s] \in Window /\ window[Conn] \in Window
  BY Conns, InvFields
<1>4. /\ Marked(c) \in Window /\ c.grant \in Int
      /\ Unconsumed(Marked(c)) >= Unconsumed(window[Conn]) - n
  BY <1>3, ConsumedResult, ConsumedKeeps, MarkedWindow DEF ResultOf
<1>5. /\ Marked(x) \in Window /\ x.grant \in Int
      /\ Known(rstate, s) => Unconsumed(Marked(x)) >= Unconsumed(window[s]) - n
  <2>1. CASE Known(rstate, s)
    BY <1>3, <2>1, ConsumedResult, ConsumedKeeps, MarkedWindow DEF ResultOf
  <2>2. CASE ~Known(rstate, s)
    <3>1. x.window \in Window /\ x.grant \in Int
      BY <1>3, <2>2 DEF Result
    <3> QED
      BY <2>2, <3>1, MarkedWindow
  <2> QED
    BY <2>1, <2>2
<1>6. RegOK(q, rstate, held) /\ q \in Seq(Frames)
  <2>1. RegOK(q, rstate, held)
    BY <1>3, <1>4, <1>5, InvFields, RegQueued
  <2> QED
    BY <2>1 DEF RegOK
<1> DEFINE mc == Marked(c)
           mx == Marked(x)
<1> HIDE DEF c, x, q, mc, mx
<1>7. rqueue' \in QueueTypes /\ rqueue'.reg = q
  BY <1>2, <1>6, InvFields, QueueSet
<1>8. /\ window' \in [Accounts -> Window] /\ held' \in [Accounts -> Int]
      /\ \A b \in Accounts :
           /\ window'[b] = IF b = s THEN mx ELSE IF b = Conn THEN mc ELSE window[b]
           /\ held'[b] = IF b \in {s, Conn} THEN held[b] - n ELSE held[b]
  BY <1>2, <1>3, <1>4, <1>5, InvFields DEF mc, mx
<1>9. Untouched'
  BY <1>2, <1>8, InvFields, Conns DEF FlowInv, ReceiverInv, Untouched, Consume
<1>10. Owed'
  <2>1. ASSUME NEW b \in Usable'
        PROVE  /\ b \in Usable
               /\ held'[b] - Unconsumed(window'[b]) - calls'.granted
                    <= held[b] - Unconsumed(window[b]) - calls.granted
    <3>1. b \in Usable /\ b \in Accounts /\ (b = s => Known(rstate, s))
      BY <1>2, <1>3 DEF Usable, Known, Accounts
    <3>2. window[b] \in Window /\ held[b] \in Int /\ calls.granted \in Nat
      BY <3>1, InvFields
    <3>3. Unconsumed(window[b]) \in Int /\ Unconsumed(window'[b]) \in Int
      BY <1>8, <3>1, <3>2, Fields
    <3>4. Unconsumed(window'[b]) >= Unconsumed(window[b]) - (held[b] - held'[b])
      <4>1. CASE b = s
        BY <1>3, <1>5, <1>8, <3>1, <3>2, <3>3, <4>1 DEF mx
      <4>2. CASE b = Conn
        BY <1>3, <1>4, <1>8, <3>1, <3>2, <3>3, <4>2 DEF mc
      <4>3. CASE b # s /\ b # Conn
        BY <1>8, <3>1, <3>2, <3>3, <4>3
      <4> QED
        BY <4>1, <4>2, <4>3
    <3> QED
      BY <1>2, <1>8, <3>1, <3>2, <3>3, <3>4
  <2>2. ReceiverInv /\ OtherTypes
    BY DEF FlowInv
  <2>3. calls'.granted \in Nat /\ calls.granted <= calls'.granted
    BY <1>2, InvFields
  <2> QED
    BY <1>2, <1>8, <2>1, <2>2, <2>3, OwedStep
<1>11. RegOK(rqueue'.reg, rstate', held')
  <2>1. n > 0 /\ held[s] >= n /\ held[s] \in Int
    BY <1>3, InvFields DEF Consume
  <2>2. \A t \in Streams : rstate[t] \in Waiting /\ held[t] = 0
                           => rstate'[t] \in Waiting /\ held'[t] = 0
    BY <1>2, <1>8, <2>1, Conns
  <2> QED
    BY <1>6, <1>7, <2>2, RegState
<1>12. ReceiverInv'
  BY <1>2, <1>7, <1>8, <1>9, <1>10, <1>11, ReceiverStep
     DEF FlowInv, ReceiverInv, ReceiverTypes
<1> QED
  BY <1>1, <1>12 DEF FlowInv

-----------------------------------------------------------------------------
(* The receiver's sending half.                                            *)

LEMMA OwedStays ==
  ASSUME FlowInv, UNCHANGED <<auto, window, held>>, calls'.granted = calls.granted,
         failed \subseteq failed', Usable' \subseteq Usable
  PROVE  Owed'
BY DEF FlowInv, ReceiverInv, Owed, NoneRefused, Unconsumed

LEMMA UntouchedStays ==
  ASSUME FlowInv, UNCHANGED held,
         \A s \in Streams : rstate'[s] = "idle" => rstate[s] = "idle"
  PROVE  Untouched'
BY DEF FlowInv, ReceiverInv, Untouched

LEMMA ResetKeeps ==
  ASSUME FlowInv, UNCHANGED held, NEW S, rstate' = ResetState(rstate, S)
  PROVE  /\ rstate' \in [Streams -> States] /\ Usable' = Usable
         /\ \A q : RegOK(q, rstate, held) => RegOK(q, rstate', held')
         /\ \A s \in Streams : rstate'[s] = "idle" => rstate[s] = "idle"
<1>1. rstate \in [Streams -> States]
  BY InvFields
<1>2. rstate' \in [Streams -> States]
  BY <1>1, ResetStates
<1>3. \A s \in Streams : Known(rstate', s) <=> Known(rstate, s)
  BY <1>1 DEF ResetState, Known
<1>4. \A s \in Streams : rstate[s] \in Waiting => rstate'[s] \in Waiting
  BY <1>1 DEF ResetState, Known, Waiting
<1>5. \A s \in Streams : rstate'[s] = "idle" => rstate[s] = "idle"
  BY <1>1 DEF ResetState, Known
<1>6. \A q : RegOK(q, rstate, held) => RegOK(q, rstate', held')
  BY <1>4, RegState
<1>7. Usable' = Usable
  BY <1>3 DEF Usable, Known
<1> QED
  BY <1>2, <1>5, <1>6, <1>7

LEMMA ClosedKeeps ==
  ASSUME FlowInv, UNCHANGED held, NEW s \in Streams, rstate' = [rstate EXCEPT ![s] = "closed"]
  PROVE  /\ rstate' \in [Streams -> States] /\ Usable' \subseteq Usable
         /\ \A q : RegOK(q, rstate, held) => RegOK(q, rstate', held')
         /\ \A t \in Streams : rstate'[t] = "idle" => rstate[t] = "idle"
<1>1. rstate \in [Streams -> States]
  BY InvFields
<1>2. /\ rstate' \in [Streams -> States]
      /\ \A t \in Streams : rstate'[t] = IF t = s THEN "closed" ELSE rstate[t]
  BY <1>1 DEF States
<1>3. \A t \in Streams : rstate[t] \in Waiting => rstate'[t] \in Waiting
  BY <1>2 DEF Waiting
<1>4. \A q : RegOK(q, rstate, held) => RegOK(q, rstate', held')
  BY <1>3, RegState
<1>5. Usable' \subseteq Usable
  BY <1>2 DEF Usable, Known
<1> QED
  BY <1>2, <1>4, <1>5

LEMMA CancelStep ==
  ASSUME FlowInv, NEW s \in Streams, Cancel(s)
  PROVE  FlowInv'
<1> DEFINE n == calls.cancels - 1
           S == rqueue.syn \cup {s}
<1>1. /\ calls' = [calls EXCEPT !.cancels = n] /\ calls.cancels > 0
      /\ rstate' = ResetState(rstate, {s}) /\ rqueue' = [rqueue EXCEPT !.syn = S]
      /\ UNCHANGED <<auto, window, lastInitial, inflight, held, sender, toSender, toReceiver,
                     shrunk, failed>>
  BY DEF Cancel
<1>2. n \in Nat /\ S \in SUBSET Streams
  BY <1>1, CallFields, InvFields
<1> HIDE DEF n, S
<1>3. calls' \in CallTypes /\ calls'.granted = calls.granted
  BY <1>1, <1>2, CallFields, CallSet
<1>4. rqueue' \in QueueTypes /\ rqueue'.reg = rqueue.reg
  BY <1>1, <1>2, InvFields, QueueSet
<1>5. OtherTypes' /\ SenderInv'
  BY <1>1, <1>3, SenderStays DEF FlowInv, OtherTypes, CallTypes
<1>6. Owed' /\ Untouched' /\ rstate' \in [Streams -> States] /\ RegOK(rqueue'.reg, rstate', held')
  BY <1>1, <1>3, <1>4, ResetKeeps, OwedStays, UntouchedStays, InvFields
<1>7. ReceiverInv'
  BY <1>1, <1>4, <1>6, ReceiverStep DEF FlowInv, ReceiverInv, ReceiverTypes
<1> QED
  BY <1>5, <1>7 DEF FlowInv

LEMMA SendSettingsStep ==
  ASSUME FlowInv, SendSettings
  PROVE  FlowInv'
<1> DEFINE q == Tail(rqueue.urgent)
<1>1. /\ rqueue' = [rqueue EXCEPT !.urgent = q] /\ rqueue.urgent # <<>>
      /\ toSender' = Append(toSender, Head(rqueue.urgent))
      /\ UNCHANGED <<auto, window, rstate, lastInitial, inflight, held, sender, toReceiver,
                     calls, shrunk, failed>>
  BY DEF SendSettings
<1>2. q \in Seq(Frames) /\ Head(rqueue.urgent) \in Frames
  BY <1>1, InvFields
<1> HIDE DEF q
<1>3. rqueue' \in QueueTypes /\ rqueue'.reg = rqueue.reg
  BY <1>1, <1>2, InvFields, QueueSet
<1>4. toSender' \in Seq(Frames)
  BY <1>1, <1>2 DEF FlowInv, OtherTypes
<1>5. OtherTypes' /\ SenderInv'
  BY <1>1, <1>4, SenderStays DEF FlowInv, OtherTypes
<1>6. Usable' = Usable
  BY <1>1 DEF Usable, Known
<1>7. Owed' /\ Untouched' /\ RegOK(rqueue'.reg, rstate', held')
  BY <1>1, <1>3, <1>6, OwedStays, UntouchedStays, InvFields
<1>8. ReceiverInv'
  BY <1>1, <1>3, <1>7, ReceiverStep DEF FlowInv, ReceiverInv, ReceiverTypes
<1> QED
  BY <1>5, <1>8 DEF FlowInv

LEMMA SendRequestStep ==
  ASSUME FlowInv, SendRequest
  PROVE  FlowInv'
<1> DEFINE s == Head(rqueue.reg).of
           q == Tail(rqueue.reg)
           w == NewWindow(lastInitial)
<1>1. /\ rqueue' = [rqueue EXCEPT !.reg = q]
      /\ rqueue.reg # <<>> /\ Head(rqueue.reg).kind = "HEADERS"
      /\ rstate' = [rstate EXCEPT ![s] = "open"]
      /\ window' = [window EXCEPT ![s] = w]
      /\ toSender' = Append(toSender, Head(rqueue.reg))
      /\ UNCHANGED <<auto, lastInitial, inflight, held, sender, toReceiver, calls, shrunk,
                     failed>>
  BY DEF SendRequest, RegTurn
<1>2. /\ s \in Streams /\ held[s] = 0 /\ RegOK(q, rstate', held')
      /\ Head(rqueue.reg) \in Frames /\ q \in Seq(Frames)
  <2>1. s \in Streams /\ held[s] = 0 /\ RegOK(q, rstate', held')
    BY <1>1, InvFields, RegSent
  <2>2. Head(rqueue.reg) \in Frames
    BY <1>1, InvFields, RegTail
  <2> QED
    BY <2>1, <2>2 DEF RegOK
<1>3. w \in Window /\ Unconsumed(w) = 0
  BY FreshWindow DEF FlowInv, ReceiverInv, ReceiverTypes
<1> HIDE DEF s, q, w
<1>4. rqueue' \in QueueTypes /\ rqueue'.reg = q
  BY <1>1, <1>2, InvFields, QueueSet
<1>5. toSender' \in Seq(Frames)
  BY <1>1, <1>2 DEF FlowInv, OtherTypes
<1>6. OtherTypes' /\ SenderInv'
  BY <1>1, <1>5, SenderStays DEF FlowInv, OtherTypes
<1>7. /\ window' \in [Accounts -> Window] /\ rstate' \in [Streams -> States]
      /\ \A a \in Accounts : window'[a] = IF a = s THEN w ELSE window[a]
      /\ \A t \in Streams : rstate'[t] = IF t = s THEN "open" ELSE rstate[t]
  BY <1>1, <1>2, <1>3, Conns, InvFields DEF States
<1>8. Untouched'
  BY <1>1, <1>7, UntouchedStays
<1>9. Owed'
  <2>1. held[s] = 0
    BY <1>2
  <2>2. calls.granted \in Nat /\ ReceiverInv /\ OtherTypes /\ held \in [Accounts -> Int]
    BY InvFields DEF FlowInv
  <2>3. ASSUME NEW a \in Usable'
        PROVE  \/ held'[a] <= Unconsumed(window'[a]) + calls'.granted
               \/ /\ a \in Usable
                  /\ held'[a] - Unconsumed(window'[a]) - calls'.granted
                       <= held[a] - Unconsumed(window[a]) - calls.granted
    <3>1. CASE a = s
      <4>1. window'[a] = w /\ held'[a] = 0 /\ calls'.granted = calls.granted
        BY <1>1, <1>2, <1>7, <2>1, <3>1, Conns
      <4> QED
        BY <1>3, <2>2, <4>1
    <3>2. CASE a # s
      <4>1. a \in Usable /\ a \in Accounts
        BY <1>2, <1>7, <3>2 DEF Usable, Known, Accounts
      <4>2. /\ window'[a] = window[a] /\ window[a] \in Window /\ held[a] \in Int
            /\ held'[a] = held[a] /\ calls'.granted = calls.granted
        BY <1>1, <1>7, <3>2, <4>1, InvFields
      <4>3. Unconsumed(window[a]) \in Int
        BY <4>2, Fields
      <4> QED
        BY <2>2, <4>1, <4>2, <4>3
    <3> QED
      BY <3>1, <3>2
  <2>4. calls'.granted \in Nat /\ calls.granted <= calls'.granted
    BY <1>1, <2>2
  <2> QED
    BY <1>1, <1>7, <2>2, <2>3, <2>4, OwedStep
<1>10. ReceiverInv'
  BY <1>1, <1>2, <1>4, <1>7, <1>8, <1>9, ReceiverStep DEF FlowInv, ReceiverInv, ReceiverTypes
<1> QED
  BY <1>6, <1>10 DEF FlowInv

LEMMA SendRstStep ==
  ASSUME FlowInv, NEW s \in Streams, SendRst(s)
  PROVE  FlowInv'
<1> DEFINE S == rqueue.syn \ {s}
<1>1. /\ rqueue' = [rqueue EXCEPT !.syn = S]
      /\ rstate' = [rstate EXCEPT ![s] = "closed"] /\ toSender' = Append(toSender, Rst(s))
      /\ UNCHANGED <<auto, window, lastInitial, inflight, held, sender, toReceiver, calls,
                     shrunk, failed>>
  BY DEF SendRst
<1>2. S \in SUBSET Streams
  BY InvFields
<1> HIDE DEF S
<1>3. rqueue' \in QueueTypes /\ rqueue'.reg = rqueue.reg
  BY <1>1, <1>2, InvFields, QueueSet
<1>4. toSender' \in Seq(Frames)
  BY <1>1, FrameTypes DEF FlowInv, OtherTypes
<1>5. OtherTypes' /\ SenderInv'
  BY <1>1, <1>4, SenderStays DEF FlowInv, OtherTypes
<1>6. Owed' /\ Untouched' /\ rstate' \in [Streams -> States] /\ RegOK(rqueue'.reg, rstate', held')
  BY <1>1, <1>3, ClosedKeeps, OwedStays, UntouchedStays, InvFields
<1>7. ReceiverInv'
  BY <1>1, <1>3, <1>6, ReceiverStep DEF FlowInv, ReceiverInv, ReceiverTypes
<1> QED
  BY <1>5, <1>7 DEF FlowInv

LEMMA RecvRstStep ==
  ASSUME FlowInv, RecvRst
  PROVE  FlowInv'
<1> DEFINE f == Head(toReceiver)
<1>1. /\ toReceiver # <<>> /\ f.kind = "RST_STREAM" /\ toReceiver' = Tail(toReceiver)
      /\ rstate' = [rstate EXCEPT ![f.of] = "closed"]
      /\ UNCHANGED <<auto, window, lastInitial, inflight, rqueue, held, sender, toSender, calls,
                     shrunk, failed>>
  BY DEF RecvRst, Arrived
<1>2. f \in Frames /\ toReceiver' \in Seq(Frames)
  BY <1>1 DEF FlowInv, OtherTypes
<1>3. f.of \in Streams
  BY <1>1, <1>2, FrameFields
<1> HIDE DEF f
<1>4. OtherTypes' /\ SenderInv'
  BY <1>1, <1>2, SenderStays DEF FlowInv, OtherTypes
<1>5. Owed' /\ Untouched' /\ rstate' \in [Streams -> States] /\ RegOK(rqueue'.reg, rstate', held')
  BY <1>1, <1>3, ClosedKeeps, OwedStays, UntouchedStays, InvFields
<1>6. ReceiverInv'
  BY <1>1, <1>5, InvFields, ReceiverStep DEF FlowInv, ReceiverInv, ReceiverTypes
<1> QED
  BY <1>4, <1>6 DEF FlowInv

LEMMA OwedWindow ==
  ASSUME FlowInv, UNCHANGED <<auto, held, calls>>, failed \subseteq failed', Usable' \subseteq Usable,
         window' \in [Accounts -> Window],
         ~auto => \A a \in Usable : Unconsumed(window'[a]) = Unconsumed(window[a])
  PROVE  Owed'
<1>1. SUFFICES ASSUME ~auto, NoneRefused', NEW a \in Usable'
               PROVE  held'[a] <= Unconsumed(window'[a]) + calls'.granted
  BY DEF Owed, Unconsumed
<1>2. NoneRefused
  BY <1>1 DEF NoneRefused
<1>3. a \in Usable /\ Unconsumed(window'[a]) = Unconsumed(window[a])
  BY <1>1
<1>4. held[a] <= Unconsumed(window[a]) + calls.granted
  BY <1>1, <1>2, <1>3 DEF FlowInv, ReceiverInv, Owed
<1> QED
  BY <1>3, <1>4

LEMMA SendUpdateStep ==
  ASSUME FlowInv, SendUpdate
  PROVE  FlowInv'
<1> DEFINE f == Head(rqueue.reg)
           a == f.of
           r == UpdateSent(window[a])
           send == a = Conn \/ rstate[a] = "open"
           reset == IF r.ok \/ a = Conn \/ ~send THEN {} ELSE {a}
           tail == Tail(rqueue.reg)
           q == IF send THEN Queued(tail, a, r.grant) ELSE tail
           S == ResetQueue(rqueue.syn, rstate, reset)
<1>1. /\ rqueue.reg # <<>> /\ f.kind = "WINDOW_UPDATE"
      /\ window' = IF send THEN [window EXCEPT ![a] = Marked(r)] ELSE window
      /\ rqueue' = Requeued(rqueue, q, S) /\ rstate' = ResetState(rstate, reset)
      /\ toSender' = IF send THEN Append(toSender, f) ELSE toSender
      /\ failed' = IF send /\ ~r.ok THEN failed \cup {Error(a, "sent")} ELSE failed
      /\ UNCHANGED <<auto, lastInitial, inflight, held, sender, toReceiver, calls, shrunk>>
  BY DEF SendUpdate, RegTurn, Requeued
<1>2. f \in Frames /\ RegOK(tail, rstate, held)
  BY <1>1, InvFields, RegTail
<1>3. a \in Accounts /\ window[a] \in Window /\ auto \in BOOLEAN
  BY <1>2, InvFields, FrameFields DEF FlowInv, OtherTypes
<1>4. /\ Marked(r) \in Window /\ r.grant \in Int
      /\ ~auto => Unconsumed(Marked(r)) = Unconsumed(window[a])
  BY <1>3, UpdateSentResult, MarkedWindow DEF ResultOf
<1>5. RegOK(q, rstate, held) /\ q \in Seq(Frames)
  <2>1. RegOK(q, rstate, held)
    BY <1>2, <1>3, <1>4, RegQueued
  <2> QED
    BY <2>1 DEF RegOK
<1>6. S \in SUBSET Streams
  BY <1>3, InvFields DEF ResetQueue, Accounts
<1>7. toSender' \in Seq(Frames) /\ failed' \subseteq Accounts \X Occasions /\ failed \subseteq failed'
  <2>1. toSender \in Seq(Frames) /\ failed \subseteq Accounts \X Occasions
    BY DEF FlowInv, OtherTypes
  <2>2. Error(a, "sent") \in Accounts \X Occasions
    BY <1>3 DEF Error, Occasions
  <2> HIDE DEF f, a, send, r
  <2> QED
    BY <1>1, <1>2, <2>1, <2>2
<1> DEFINE m == Marked(r)
<1> HIDE DEF q, S, reset, m
<1>8. rqueue' \in QueueTypes /\ rqueue'.reg = q
  <2> HIDE DEF f, a, r, send
  <2>1. rqueue' = Requeued(rqueue, q, S)
    BY <1>1
  <2>2. rqueue \in QueueTypes
    BY InvFields
  <2>3. q \in Seq(Frames)
    BY <1>5
  <2> QED
    BY <1>6, <2>1, <2>2, <2>3, RequeuedSet
<1>9. OtherTypes' /\ SenderInv'
  BY <1>1, <1>7, SenderStays DEF FlowInv, OtherTypes
<1>10. /\ window' \in [Accounts -> Window]
       /\ \A b \in Accounts : window'[b] \in {window[b], IF b = a THEN m ELSE window[b]}
  BY <1>1, <1>3, <1>4, InvFields DEF m
<1>11. Usable' \subseteq Usable /\ Untouched' /\ rstate' \in [Streams -> States] /\ RegOK(rqueue'.reg, rstate', held')
  BY <1>1, <1>5, <1>8, ResetKeeps, UntouchedStays
<1>12. Owed'
  <2>1. Usable \subseteq Accounts
    BY DEF Usable, Accounts
  <2>2. ~auto => \A b \in Usable : Unconsumed(window'[b]) = Unconsumed(window[b])
    BY <1>4, <1>10, <2>1 DEF m
  <2> QED
    BY <1>1, <1>7, <1>10, <1>11, <2>2, OwedWindow
<1>13. ReceiverInv'
  BY <1>1, <1>8, <1>10, <1>11, <1>12, InvFields, ReceiverStep
     DEF FlowInv, ReceiverInv, ReceiverTypes
<1> QED
  BY <1>9, <1>13 DEF FlowInv

LEMMA RecvAckStep ==
  ASSUME FlowInv, RecvAck
  PROVE  FlowInv'
<1> DEFINE by == Head(inflight) - lastInitial
           r == [s \in Streams |-> IF Known(rstate, s) THEN Resize(window[s], by, auto)
                                                       ELSE Result(window[s], 0)]
           reset == {s \in Streams : ~r[s].ok}
           S == ResetQueue(rqueue.syn, rstate, reset)
           G == {s \in Streams : r[s].grant > 0}
           ups(q) == [i \in DOMAIN q |-> Update(q[i], r[q[i]].grant)]
<1>1. /\ toReceiver # <<>> /\ toReceiver' = Tail(toReceiver)
      /\ inflight # <<>> /\ inflight' = Tail(inflight) /\ lastInitial' = Head(inflight)
      /\ window' = [a \in Accounts |-> IF a = Conn THEN window[a] ELSE Marked(r[a])]
      /\ rstate' = ResetState(rstate, reset)
      /\ \E q \in Orders(G) : rqueue' = Requeued(rqueue, rqueue.reg \o ups(q), S)
      /\ failed' = failed \cup {Error(s, "ACK") : s \in reset}
      /\ shrunk' = (shrunk \/ by < 0)
      /\ UNCHANGED <<auto, held, sender, toSender, calls>>
  BY DEF RecvAck, Arrived, Requeued
<1>2. /\ toReceiver' \in Seq(Frames) /\ inflight' \in Seq(Sizes) /\ lastInitial' \in Sizes
      /\ by \in Int /\ shrunk' \in BOOLEAN /\ auto \in BOOLEAN
  <2>1. /\ toReceiver \in Seq(Frames) /\ inflight \in Seq(Sizes) /\ lastInitial \in Sizes
        /\ shrunk \in BOOLEAN /\ auto \in BOOLEAN
    BY DEF FlowInv, OtherTypes, ReceiverInv, ReceiverTypes
  <2>2. toReceiver' \in Seq(Frames) /\ inflight' \in Seq(Sizes) /\ lastInitial' \in Sizes
    BY <1>1, <2>1
  <2>3. by \in Int
    BY <1>1, <2>1, <2>2 DEF Sizes
  <2> HIDE DEF by
  <2>4. shrunk' \in BOOLEAN
    BY <1>1, <2>1
  <2> QED
    BY <2>1, <2>2, <2>3, <2>4
<1>3. failed' \subseteq Accounts \X Occasions /\ failed \subseteq failed'
  <2>1. \A s \in Streams : Error(s, "ACK") \in Accounts \X Occasions
    BY Conns DEF Error, Occasions
  <2>2. failed \subseteq Accounts \X Occasions /\ reset \subseteq Streams
    BY DEF FlowInv, OtherTypes
  <2>3. failed' = failed \cup {Error(s, "ACK") : s \in reset}
    BY <1>1
  <2> HIDE DEF reset
  <2> QED
    BY <2>1, <2>2, <2>3
<1> HIDE DEF by
<1>4. ASSUME NEW s \in Streams
      PROVE  /\ Marked(r[s]) \in Window /\ r[s].grant \in Int
             /\ ~auto => Unconsumed(Marked(r[s])) = Unconsumed(window[s])
  <2>1. window[s] \in Window
    BY Conns, InvFields
  <2>2. CASE Known(rstate, s)
    <3>1. r[s] = Resize(window[s], by, auto)
      BY <2>2
    <3> HIDE DEF r
    <3> QED
      BY <1>2, <2>1, <3>1, ResizeResult, MarkedWindow
  <2>3. CASE ~Known(rstate, s)
    <3>1. r[s].window = window[s] /\ r[s].grant = 0
      BY <2>3 DEF Result
    <3> HIDE DEF r
    <3> QED
      BY <2>1, <3>1, MarkedWindow
  <2> QED
    BY <2>2, <2>3
<1>5. PICK q \in Orders(G) : rqueue' = Requeued(rqueue, rqueue.reg \o ups(q), S)
  BY <1>1
<1> HIDE DEF r
<1>6. q \in Seq(Streams) /\ \A i \in DOMAIN q : q[i] \in G
  BY OrderTypes
<1>7. /\ ups(q) \in Seq(Frames)
      /\ \A i \in 1 .. Len(ups(q)) : ups(q)[i].kind # "HEADERS"
  <2>1. ASSUME NEW i \in DOMAIN q
        PROVE  Update(q[i], r[q[i]].grant) \in Frames /\ Update(q[i], r[q[i]].grant).kind # "HEADERS"
    <3>1. q[i] \in Accounts /\ r[q[i]].grant \in Nat
      BY <1>4, <1>6, Conns
    <3> QED
      BY <3>1, FrameTypes
  <2>2. Len(q) \in Nat /\ DOMAIN q = 1 .. Len(q)
    BY <1>6
  <2> QED
    BY <2>1, <2>2
<1> DEFINE p == rqueue.reg \o ups(q)
<1>8. RegOK(p, rstate, held) /\ p \in Seq(Frames)
  <2> HIDE DEF ups
  <2>1. RegOK(p, rstate, held)
    BY <1>7, InvFields, RegMany
  <2> QED
    BY <2>1 DEF RegOK
<1>9. S \in SUBSET Streams
  BY InvFields DEF ResetQueue
<1> HIDE DEF p, S, reset
<1>10. rqueue' \in QueueTypes /\ rqueue'.reg = p
  <2>1. rqueue' = Requeued(rqueue, p, S)
    BY <1>5 DEF p
  <2>2. rqueue \in QueueTypes
    BY InvFields
  <2>3. p \in Seq(Frames)
    BY <1>8
  <2> QED
    BY <1>9, <2>1, <2>2, <2>3, RequeuedSet
<1>11. OtherTypes' /\ SenderInv'
  BY <1>1, <1>2, <1>3, SenderStays DEF FlowInv, OtherTypes
<1>12. /\ window' \in [Accounts -> Window]
       /\ ~auto => \A a \in Accounts : Unconsumed(window'[a]) = Unconsumed(window[a])
  <2>1. ASSUME NEW a \in Accounts
        PROVE  /\ window'[a] \in Window
               /\ ~auto => Unconsumed(window'[a]) = Unconsumed(window[a])
    <3>1. CASE a = Conn
      BY <1>1, <3>1, InvFields, Conns
    <3>2. CASE a # Conn
      <4>1. a \in Streams /\ window'[a] = Marked(r[a])
        BY <1>1, <3>2 DEF Accounts
      <4> QED
        BY <1>4, <4>1
    <3> QED
      BY <3>1, <3>2
  <2>2. window' = [a \in Accounts |-> window'[a]]
    BY <1>1
  <2> QED
    BY <2>1, <2>2
<1>13. Usable' \subseteq Usable /\ Untouched' /\ rstate' \in [Streams -> States] /\ RegOK(rqueue'.reg, rstate', held')
  BY <1>1, <1>8, <1>10, ResetKeeps, UntouchedStays
<1>14. Owed'
  <2>1. Usable \subseteq Accounts
    BY DEF Usable, Accounts
  <2> QED
    BY <1>1, <1>3, <1>12, <1>13, <2>1, OwedWindow
<1>15. ReceiverInv'
  BY <1>1, <1>2, <1>10, <1>12, <1>13, <1>14, InvFields, ReceiverStep
<1> QED
  BY <1>11, <1>15 DEF FlowInv

LEMMA RecvDataStep ==
  ASSUME FlowInv, RecvData
  PROVE  FlowInv'
<1> DEFINE f    == Head(toReceiver)
           s    == f.of
           n    == f.n
           end  == DataOf(f)
           open == rstate[s] = "open"
           c0   == Received(window[Conn], n, auto)
           c    == IF open \/ auto \/ ~c0.ok THEN c0 ELSE Consumed(c0.window, n)
           r    == IF open THEN Received(window[s], n, auto /\ ~end) ELSE Result(window[s], 0)
           reset == IF r.ok THEN {} ELSE {s}
           q    == Queued(Queued(rqueue.reg, Conn, c.grant), s, r.grant)
           S    == ResetQueue(rqueue.syn, rstate, reset)
           mc   == Marked(c)
           mr   == Marked(r)
<1>1. /\ toReceiver # <<>> /\ f.kind \in {"DATA", "DATA END_STREAM"}
      /\ toReceiver' = Tail(toReceiver)
      /\ window' = [window EXCEPT ![Conn] = mc, ![s] = mr]
      /\ rqueue' = Requeued(rqueue, q, S)
      /\ rstate' = IF open /\ end THEN [rstate EXCEPT ![s] = "closed"]
                   ELSE ResetState(rstate, reset)
      /\ held' = IF open THEN [held EXCEPT ![s] = @ + n, ![Conn] = @ + n] ELSE held
      /\ failed' = failed \cup (IF c.ok THEN {} ELSE {Error(Conn, "DATA")})
                          \cup (IF r.ok THEN {} ELSE {Error(s, "DATA")})
      /\ UNCHANGED <<auto, lastInitial, inflight, sender, toSender, calls, shrunk>>
  BY DEF RecvData, Arrived, Requeued
<1>2. f \in Frames /\ toReceiver' \in Seq(Frames)
  <2>1. toReceiver \in Seq(Frames)
    BY DEF FlowInv, OtherTypes
  <2>2. toReceiver # <<>> /\ toReceiver' = Tail(toReceiver)
    BY <1>1
  <2> QED
    BY <2>1, <2>2
<1>3. s \in Streams /\ n \in Nat /\ end \in BOOLEAN
  BY <1>1, <1>2, FrameFields DEF DataOf
<1>4. /\ s \in Accounts /\ Conn \in Accounts /\ s # Conn /\ auto \in BOOLEAN
      /\ window[s] \in Window /\ window[Conn] \in Window
      /\ held[s] \in Int /\ held[Conn] \in Int
  BY <1>3, Conns, InvFields DEF FlowInv, OtherTypes
<1>5. toReceiver \in Seq(Frames) /\ failed \subseteq Accounts \X Occasions
  BY DEF FlowInv, OtherTypes
<1> HIDE DEF f, s, n, end
<1>6. /\ ResultOf(c0, window[Conn], n)
      /\ ~auto /\ c0.ok => Unconsumed(c0.window) = Unconsumed(window[Conn]) + n
  BY <1>3, <1>4, ReceivedResult
<1>7. /\ mc \in Window /\ c.grant \in Int
      /\ ~auto /\ c.ok => Unconsumed(mc) >= Unconsumed(window[Conn]) + (IF open THEN n ELSE 0)
  <2> HIDE DEF c0
  <2>1. c0.window \in Window /\ c0.ok \in BOOLEAN
    BY <1>6 DEF ResultOf
  <2>2. CASE open \/ auto \/ ~c0.ok
    <3>1. c = c0
      BY <2>2
    <3>2. mc \in Window /\ c.grant \in Int /\ Unconsumed(mc) = Unconsumed(c0.window)
      BY <1>6, <3>1, MarkedWindow DEF ResultOf
    <3> QED
      BY <1>3, <1>4, <1>6, <2>1, <2>2, <3>1, <3>2, Fields
  <2>3. CASE ~(open \/ auto \/ ~c0.ok)
    <3>1. c = Consumed(c0.window, n)
      BY <2>3
    <3>2. ResultOf(c, c0.window, 0) /\ Unconsumed(c.window) >= Unconsumed(c0.window) - n
      BY <1>3, <2>1, <3>1, ConsumedResult, ConsumedKeeps
    <3>3. mc \in Window /\ c.grant \in Int /\ Unconsumed(mc) = Unconsumed(c.window)
      BY <3>2, MarkedWindow DEF ResultOf
    <3>4. Unconsumed(mc) \in Int /\ Unconsumed(window[Conn]) \in Int
      BY <1>4, <3>3, Fields
    <3>5. Unconsumed(c0.window) = Unconsumed(window[Conn]) + n
      BY <1>6, <2>3
    <3> HIDE DEF c, mc
    <3>6. Unconsumed(mc) >= Unconsumed(window[Conn]) + 0
      BY <1>3, <3>2, <3>3, <3>4, <3>5
    <3> QED
      BY <2>3, <3>3, <3>6
  <2> QED
    BY <2>2, <2>3
<1>8. /\ mr \in Window /\ r.grant \in Int
      /\ ~auto /\ r.ok => Unconsumed(mr) = Unconsumed(window[s]) + (IF open THEN n ELSE 0)
  <2>1. CASE open
    <3>1. r = Received(window[s], n, auto /\ ~end)
      BY <2>1
    <3>2. (auto /\ ~end) \in BOOLEAN /\ (~auto => ~(auto /\ ~end))
      OBVIOUS
    <3> HIDE DEF r
    <3>3. /\ ResultOf(r, window[s], n)
          /\ ~auto /\ r.ok => Unconsumed(r.window) = Unconsumed(window[s]) + n
      BY <1>3, <1>4, <3>1, <3>2, ReceivedResult
    <3>4. mr \in Window /\ r.grant \in Int /\ Unconsumed(mr) = Unconsumed(r.window)
      BY <3>3, MarkedWindow DEF ResultOf
    <3> QED
      BY <2>1, <3>3, <3>4
  <2>2. CASE ~open
    <3>1. r.window = window[s] /\ r.grant = 0
      BY <2>2 DEF Result
    <3> HIDE DEF r
    <3>2. mr \in Window /\ r.grant \in Int /\ Unconsumed(mr) = Unconsumed(window[s])
      BY <1>4, <3>1, MarkedWindow
    <3>3. Unconsumed(window[s]) \in Int
      BY <1>4, Fields
    <3> HIDE DEF mr
    <3> QED
      BY <2>2, <3>2, <3>3
  <2> QED
    BY <2>1, <2>2
<1> HIDE DEF c, r, c0, mc, mr
<1>9. RegOK(q, rstate, held) /\ q \in Seq(Frames)
  <2>1. RegOK(q, rstate, held)
    BY <1>4, <1>7, <1>8, InvFields, RegQueued
  <2> QED
    BY <2>1 DEF RegOK
<1>10. S \in SUBSET Streams /\ reset \subseteq Streams
  BY <1>3, InvFields DEF ResetQueue
<1>11. /\ failed' \subseteq Accounts \X Occasions /\ failed \subseteq failed'
       /\ NoneRefused' => c.ok /\ r.ok
  <2>1. Error(Conn, "DATA") \in Accounts \X Occasions /\ Error(s, "DATA") \in Accounts \X Occasions
    BY <1>4 DEF Error, Occasions
  <2>2. ~c.ok => Error(Conn, "DATA") \in failed'
    BY <1>1
  <2>3. ~r.ok => Error(s, "DATA") \in failed'
    BY <1>1
  <2> HIDE DEF reset, S, q
  <2>4. failed' \subseteq Accounts \X Occasions /\ failed \subseteq failed'
    BY <1>1, <1>5, <2>1
  <2> QED
    BY <1>4, <2>2, <2>3, <2>4 DEF NoneRefused
<1> HIDE DEF q, S, reset
<1>12. rqueue' \in QueueTypes /\ rqueue'.reg = q
  <2>1. rqueue' = Requeued(rqueue, q, S)
    BY <1>1
  <2>2. rqueue \in QueueTypes
    BY InvFields
  <2> QED
    BY <1>9, <1>10, <2>1, <2>2, RequeuedSet
<1>13. OtherTypes' /\ SenderInv'
  <2>1. SenderInv'
    BY <1>1, SenderStays DEF FlowInv
  <2> QED
    BY <1>1, <1>2, <1>11, <2>1 DEF FlowInv, OtherTypes
<1>14. /\ window' \in [Accounts -> Window]
       /\ \A b \in Accounts : window'[b] = IF b = s THEN mr ELSE IF b = Conn THEN mc ELSE window[b]
  BY <1>1, <1>4, <1>7, <1>8, InvFields
<1>15. /\ held' \in [Accounts -> Int]
       /\ \A b \in Accounts :
            held'[b] = IF open /\ b \in {s, Conn} THEN held[b] + n ELSE held[b]
  <2>1. held' = IF open THEN [held EXCEPT ![s] = @ + n, ![Conn] = @ + n] ELSE held
    BY <1>1
  <2>2. held \in [Accounts -> Int] /\ s \in Accounts /\ Conn \in Accounts /\ s # Conn /\ n \in Int
    BY <1>3, <1>4, InvFields
  <2> HIDE DEF open
  <2> QED
    BY <2>1, <2>2
<1>16. rstate \in [Streams -> States]
  BY InvFields
<1>17. /\ rstate' \in [Streams -> States]
       /\ \A t \in Streams : Known(rstate', t) => Known(rstate, t)
       /\ \A t \in Streams : rstate'[t] = "idle" => rstate[t] = "idle"
       /\ \A t \in Streams : rstate[t] \in Waiting => rstate'[t] \in Waiting
  <2>1. CASE open /\ end
    <3>1. \A t \in Streams : rstate'[t] = IF t = s THEN "closed" ELSE rstate[t]
      BY <1>1, <1>16, <2>1
    <3>2. rstate' \in [Streams -> States]
      BY <1>1, <1>16, <2>1 DEF States
    <3> QED
      BY <3>1, <3>2 DEF Known, Waiting
  <2>2. CASE ~(open /\ end)
    <3>1. rstate' = ResetState(rstate, reset)
      BY <1>1, <2>2
    <3>2. rstate' \in [Streams -> States]
      BY <1>16, <3>1, ResetStates
    <3>3. \A t \in Streams : rstate'[t] \in {rstate[t], IF Known(rstate, t) THEN "closing" ELSE rstate[t]}
      BY <1>16, <3>1 DEF ResetState
    <3> QED
      BY <3>2, <3>3 DEF Known, Waiting
  <2> QED
    BY <2>1, <2>2
<1>18. RegOK(rqueue'.reg, rstate', held')
  <2>1. \A t \in Streams : rstate[t] \in Waiting /\ held[t] = 0
                           => rstate'[t] \in Waiting /\ held'[t] = 0
    <3>1. open => rstate[s] \notin Waiting
      BY DEF Waiting
    <3> QED
      BY <1>15, <1>17, <3>1, Conns
  <2> QED
    BY <1>9, <1>12, <2>1, RegState
<1>19. Untouched'
  <2>1. ASSUME NEW t \in Streams, rstate'[t] = "idle" PROVE held'[t] = 0
    <3>1. rstate[t] = "idle" /\ held[t] = 0
      BY <1>17, <2>1 DEF FlowInv, ReceiverInv, Untouched
    <3>2. ~(open /\ t \in {s, Conn})
      BY <3>1, Conns
    <3> QED
      BY <1>15, <3>1, <3>2, Conns
  <2> QED
    BY <2>1 DEF Untouched
<1>20. Owed'
  <2>1. ASSUME ~auto, NoneRefused', NEW b \in Usable'
        PROVE  /\ b \in Usable
               /\ held'[b] - Unconsumed(window'[b]) - calls'.granted
                    <= held[b] - Unconsumed(window[b]) - calls.granted
    <3>1. b \in Usable /\ b \in Accounts
      BY <1>17 DEF Usable, Known, Accounts
    <3>2. window[b] \in Window /\ held[b] \in Int /\ calls.granted \in Nat
      BY <3>1, InvFields
    <3>3. Unconsumed(window[b]) \in Int /\ Unconsumed(window'[b]) \in Int
      BY <1>14, <3>1, <3>2, Fields
    <3>4. Unconsumed(window'[b]) >= Unconsumed(window[b]) + (held'[b] - held[b])
      <4> DEFINE more == IF open THEN n ELSE 0
      <4>1. more \in Int
        BY <1>3
      <4>2. CASE b = s \/ b = Conn
        <5>1. held'[b] = held[b] + more
          BY <1>15, <2>1, <3>1, <3>2, <4>2
        <5>2. Unconsumed(window'[b]) >= Unconsumed(window[b]) + more
          <6>1. c.ok /\ r.ok
            BY <1>11, <2>1
          <6>2. CASE b = s
            <7>1. Unconsumed(window'[b]) = Unconsumed(window[b]) + more
              BY <1>8, <1>14, <2>1, <3>1, <6>1, <6>2
            <7> HIDE DEF more
            <7> QED
              BY <3>3, <4>1, <7>1
          <6>3. CASE b = Conn
            BY <1>4, <1>7, <1>14, <2>1, <3>1, <6>1, <6>3
          <6> QED
            BY <4>2, <6>2, <6>3
        <5> HIDE DEF more
        <5> QED
          BY <3>2, <3>3, <4>1, <5>1, <5>2
      <4>3. CASE b # s /\ b # Conn
        BY <1>14, <1>15, <3>1, <3>2, <3>3, <4>3
      <4> QED
        BY <4>2, <4>3
    <3>5. held'[b] \in Int /\ calls'.granted = calls.granted
      BY <1>1, <1>15, <3>1
    <3> QED
      BY <3>1, <3>2, <3>3, <3>4, <3>5
  <2>2. ReceiverInv /\ OtherTypes
    BY DEF FlowInv
  <2>3. calls'.granted \in Nat /\ calls.granted <= calls'.granted
    <3>1. calls' = calls
      BY <1>1
    <3> QED
      BY <3>1, InvFields
  <2> QED
    BY <1>1, <1>11, <1>14, <1>15, <2>1, <2>2, <2>3, OwedStep
<1>21. ReceiverInv'
  BY <1>1, <1>12, <1>14, <1>15, <1>17, <1>18, <1>19, <1>20, ReceiverStep
     DEF FlowInv, ReceiverInv, ReceiverTypes
<1> QED
  BY <1>13, <1>21 DEF FlowInv

-----------------------------------------------------------------------------
(* The sender: its windows stay within an int32_t, and a stream waits for  *)
(* flow control only while it has no window.                               *)

LEMMA SenderFields ==
  ASSUME FlowInv
  PROVE  /\ remote \in [Accounts -> Width] /\ sstate \in [Streams -> States]
         /\ item \in [Streams -> Items] /\ left \in [Streams -> Nat] /\ peerInitial \in Sizes
         /\ squeue \in [acks : Nat, syn : SUBSET Streams] /\ squeue.syn \in SUBSET Streams
         /\ toSender \in Seq(Frames) /\ toReceiver \in Seq(Frames)
         /\ failed \subseteq Accounts \X Occasions
         /\ \A s \in Streams : item[s] = "flow" => remote[s] <= 0
BY DEF FlowInv, SenderInv, SenderTypes, OtherTypes, NoLostWakeup

LEMMA SenderStep ==
  ASSUME FlowInv, UNCHANGED <<receiver, auto, calls>>, failed \subseteq failed',
         failed' \subseteq Accounts \X Occasions, toSender' \in Seq(Frames),
         toReceiver' \in Seq(Frames), SenderTypes',
         \A s \in Streams : item'[s] = "flow" => remote'[s] <= 0
  PROVE  FlowInv'
BY ReceiverStays DEF FlowInv, OtherTypes, SenderInv, NoLostWakeup

LEMMA Widths ==
  /\ Sizes \subseteq Width /\ Width \subseteq Int
  /\ \A w \in Width, n \in Nat : w <= MaxWindow - n => w + n \in Width
  /\ \A w \in Width, by \in Int : FitsResize(w, by) => w + by \in Width
BY WindowAssumption DEF Sizes, Width, FitsResize

(* The oldest frame of a direction.                                        *)
LEMMA Taken ==
  ASSUME NEW wire \in Seq(Frames), wire # <<>>
  PROVE  Head(wire) \in Frames /\ Tail(wire) \in Seq(Frames)
OBVIOUS

LEMMA RecvRequestStep ==
  ASSUME FlowInv, RecvRequest
  PROVE  FlowInv'
<1> DEFINE f == Head(toSender)
           s == f.of
<1>1. /\ toSender # <<>> /\ f.kind = "HEADERS" /\ toSender' = Tail(toSender)
      /\ sstate' = [sstate EXCEPT ![s] = "open"] /\ item' = [item EXCEPT ![s] = "ready"]
      /\ remote' = [remote EXCEPT ![s] = peerInitial]
      /\ UNCHANGED <<auto, receiver, left, peerInitial, squeue, toReceiver, calls, failed>>
  BY DEF RecvRequest, Arrived
<1>2. f \in Frames /\ toSender' \in Seq(Frames)
  BY <1>1, SenderFields, Taken
<1>3. s \in Streams /\ s \in Accounts
  BY <1>1, <1>2, FrameFields, Conns
<1> HIDE DEF f, s
<1>4. sstate' \in [Streams -> States] /\ item' \in [Streams -> Items]
  BY <1>1, SenderFields DEF States, Items
<1>5. remote' \in [Accounts -> Width]
  BY <1>1, SenderFields, Widths
<1>6. SenderTypes'
  BY <1>1, <1>4, <1>5, SenderFields DEF SenderTypes
<1>7. ASSUME NEW t \in Streams, item'[t] = "flow" PROVE remote'[t] <= 0
  <2>1. t # s /\ t \in Accounts
    BY <1>1, <1>7, SenderFields, Conns
  <2> QED
    BY <1>1, <1>7, <2>1, SenderFields
<1> QED
  BY <1>1, <1>2, <1>6, <1>7, SenderFields, SenderStep

LEMMA RecvSettingsStep ==
  ASSUME FlowInv, RecvSettings
  PROVE  FlowInv'
<1> DEFINE f     == Head(toSender)
           by    == f.n - peerInitial
           known == {s \in Streams : Known(sstate, s)}
           over  == {s \in known : ~FitsResize(remote[s], by)}
           fine  == known \ over
           syn   == ResetQueue(squeue.syn, sstate, over)
<1>1. /\ toSender # <<>> /\ f.kind = "SETTINGS" /\ toSender' = Tail(toSender)
      /\ peerInitial' = f.n
      /\ remote' = [a \in Accounts |-> IF a \in fine THEN remote[a] + by ELSE remote[a]]
      /\ item' = [s \in Streams |-> IF s \in fine THEN Resumed(s, remote[s] + by) ELSE item[s]]
      /\ sstate' = ResetState(sstate, over)
      /\ squeue' = [acks |-> squeue.acks + 1, syn |-> syn]
      /\ failed' = failed \cup {Error(s, "SETTINGS") : s \in over}
      /\ UNCHANGED <<auto, receiver, left, toReceiver, calls>>
  BY DEF RecvSettings, Arrived
<1>2. f \in Frames /\ toSender' \in Seq(Frames)
  BY <1>1, SenderFields, Taken
<1>3. f.n \in Sizes
  BY <1>1, <1>2, FrameFields
<1>4. by \in Int
  BY <1>3, SenderFields DEF Sizes
<1> HIDE DEF f, by
<1>5. \A s \in fine : s \in Streams /\ remote[s] + by \in Width
  BY <1>4, SenderFields, Conns, Widths
<1>6. over \subseteq Streams /\ syn \subseteq Streams
  BY SenderFields DEF ResetQueue
<1> HIDE DEF over, fine, syn
<1>7. remote' \in [Accounts -> Width]
  BY <1>1, <1>5, SenderFields
<1>8. item' \in [Streams -> Items]
  BY <1>1, SenderFields DEF Items, Resumed
<1>9. sstate' \in [Streams -> States]
  BY <1>1, SenderFields, ResetStates
<1>10. squeue' \in [acks : Nat, syn : SUBSET Streams]
  BY <1>1, <1>6, SenderFields
<1>11. SenderTypes'
  BY <1>1, <1>3, <1>7, <1>8, <1>9, <1>10, SenderFields DEF SenderTypes
<1>12. failed \subseteq failed' /\ failed' \subseteq Accounts \X Occasions
  <2>1. \A s \in Streams : Error(s, "SETTINGS") \in Accounts \X Occasions
    BY Conns DEF Error, Occasions
  <2> QED
    BY <1>1, <1>6, <2>1, SenderFields
<1>13. ASSUME NEW t \in Streams, item'[t] = "flow" PROVE remote'[t] <= 0
  <2>1. t \in Accounts
    BY Conns
  <2>2. CASE t \in fine
    <3>1. Resumed(t, remote[t] + by) = "flow" /\ remote'[t] = remote[t] + by
      BY <1>1, <1>13, <2>1, <2>2
    <3>2. remote[t] + by \in Int
      BY <1>5, <2>2, Widths
    <3> QED
      BY <3>1, <3>2 DEF Resumed
  <2>3. CASE t \notin fine
    BY <1>1, <1>13, <2>1, <2>3, SenderFields
  <2> QED
    BY <2>2, <2>3
<1>14. toReceiver' \in Seq(Frames)
  BY <1>1, SenderFields
<1> QED
  BY <1>1, <1>2, <1>11, <1>12, <1>13, <1>14, SenderStep

LEMMA RecvUpdateStep ==
  ASSUME FlowInv, RecvUpdate
  PROVE  FlowInv'
<1> DEFINE f    == Head(toSender)
           a    == f.of
           n    == f.n
           here == a = Conn \/ Known(sstate, a)
           fits == remote[a] <= MaxWindow - n
           over == IF here /\ ~fits /\ a # Conn THEN {a} ELSE {}
           syn  == ResetQueue(squeue.syn, sstate, over)
<1>1. /\ toSender # <<>> /\ toSender' = Tail(toSender)
      /\ remote' = IF here /\ fits THEN [remote EXCEPT ![a] = @ + n] ELSE remote
      /\ item' = IF here /\ fits /\ a # Conn
                 THEN [item EXCEPT ![a] = Resumed(a, remote[a] + n)] ELSE item
      /\ sstate' = ResetState(sstate, over) /\ squeue' = [squeue EXCEPT !.syn = syn]
      /\ failed' = IF here /\ ~fits THEN failed \cup {Error(a, "WINDOW_UPDATE")} ELSE failed
      /\ UNCHANGED <<auto, receiver, left, peerInitial, toReceiver, calls>>
  BY DEF RecvUpdate, Arrived, SenderResets
<1>2. f \in Frames /\ toSender' \in Seq(Frames)
  BY <1>1, SenderFields, Taken
<1>3. a \in Accounts /\ n \in Nat /\ (a # Conn => a \in Streams)
  BY <1>2, FrameFields DEF Accounts
<1>4. remote[a] \in Width /\ (fits => remote[a] + n \in Width)
  BY <1>3, SenderFields, Widths
<1>5. over \subseteq Streams /\ syn \subseteq Streams
  BY <1>3, SenderFields DEF ResetQueue
<1> HIDE DEF f, a, n, here, fits, over, syn
<1>6. remote' \in [Accounts -> Width]
  BY <1>1, <1>3, <1>4, SenderFields
<1>7. item' \in [Streams -> Items]
  <2>1. a # Conn => Resumed(a, remote[a] + n) \in Items
    BY <1>3, SenderFields DEF Resumed, Items
  <2> QED
    BY <1>1, <1>3, <2>1, SenderFields
<1>8. sstate' \in [Streams -> States]
  BY <1>1, SenderFields, ResetStates
<1>9. squeue' \in [acks : Nat, syn : SUBSET Streams]
  BY <1>1, <1>5, SenderFields
<1>10. SenderTypes'
  BY <1>1, <1>6, <1>7, <1>8, <1>9, SenderFields DEF SenderTypes
<1>11. failed \subseteq failed' /\ failed' \subseteq Accounts \X Occasions
  <2>1. Error(a, "WINDOW_UPDATE") \in Accounts \X Occasions
    BY <1>3 DEF Error, Occasions
  <2> QED
    BY <1>1, <2>1, SenderFields
<1>12. ASSUME NEW t \in Streams, item'[t] = "flow" PROVE remote'[t] <= 0
  <2>1. t \in Accounts /\ t # Conn
    BY Conns
  <2>2. CASE t = a /\ here /\ fits
    <3>1. item'[t] = Resumed(a, remote[a] + n) /\ remote'[t] = remote[a] + n
      BY <1>1, <1>3, <2>1, <2>2, SenderFields
    <3>2. remote[a] + n \in Int
      BY <1>4, <2>2, Widths
    <3> QED
      BY <1>12, <3>1, <3>2 DEF Resumed
  <2>3. CASE ~(t = a /\ here /\ fits)
    BY <1>1, <1>3, <1>12, <2>1, <2>3, SenderFields
  <2> QED
    BY <2>2, <2>3
<1>13. toReceiver' \in Seq(Frames)
  BY <1>1, SenderFields
<1> QED
  BY <1>1, <1>2, <1>10, <1>11, <1>12, <1>13, SenderStep

LEMMA RecvCancelStep ==
  ASSUME FlowInv, RecvCancel
  PROVE  FlowInv'
<1> DEFINE f == Head(toSender)
           s == f.of
<1>1. /\ toSender # <<>> /\ f.kind = "RST_STREAM" /\ toSender' = Tail(toSender)
      /\ sstate' = [sstate EXCEPT ![s] = "closed"] /\ item' = [item EXCEPT ![s] = "none"]
      /\ UNCHANGED <<auto, receiver, remote, left, peerInitial, squeue, toReceiver, calls, failed>>
  BY DEF RecvCancel, Arrived
<1>2. toSender' \in Seq(Frames)
  BY <1>1, SenderFields, Taken
<1> HIDE DEF s
<1>3. sstate' \in [Streams -> States] /\ item' \in [Streams -> Items]
  BY <1>1, SenderFields DEF States, Items
<1>4. SenderTypes'
  BY <1>1, <1>3, SenderFields DEF SenderTypes
<1>5. ASSUME NEW t \in Streams, item'[t] = "flow" PROVE remote'[t] <= 0
  BY <1>1, <1>5, SenderFields
<1> QED
  BY <1>1, <1>2, <1>4, <1>5, SenderFields, SenderStep

LEMMA SendAckStep ==
  ASSUME FlowInv, SendAck
  PROVE  FlowInv'
<1>1. /\ squeue.acks > 0 /\ squeue' = [squeue EXCEPT !.acks = @ - 1]
      /\ toReceiver' = Append(toReceiver, Ack)
      /\ UNCHANGED <<auto, receiver, remote, sstate, item, left, peerInitial, toSender, calls,
                     failed>>
  BY DEF SendAck
<1>2. squeue' \in [acks : Nat, syn : SUBSET Streams] /\ toReceiver' \in Seq(Frames)
  <2>1. squeue' \in [acks : Nat, syn : SUBSET Streams]
    <3> DEFINE n == squeue.acks - 1
    <3>1. squeue \in [acks : Nat, syn : SUBSET Streams] /\ squeue' = [squeue EXCEPT !.acks = n]
      BY <1>1, SenderFields
    <3>2. n \in Nat
      BY <1>1, <3>1
    <3> HIDE DEF n
    <3> QED
      BY <3>1, <3>2
  <2>2. toReceiver \in Seq(Frames) /\ Ack \in Frames
    BY SenderFields, FrameTypes
  <2> QED
    BY <1>1, <2>1, <2>2
<1>3. SenderTypes'
  BY <1>1, <1>2, SenderFields DEF SenderTypes
<1> QED
  BY <1>1, <1>2, <1>3, SenderFields, SenderStep

LEMMA SendResetStep ==
  ASSUME FlowInv, NEW s \in Streams, SendReset(s)
  PROVE  FlowInv'
<1>1. /\ sstate' = [sstate EXCEPT ![s] = "closed"] /\ item' = [item EXCEPT ![s] = "none"]
      /\ toReceiver' = Append(toReceiver, Rst(s)) /\ squeue' = [squeue EXCEPT !.syn = @ \ {s}]
      /\ UNCHANGED <<auto, receiver, remote, left, peerInitial, toSender, calls, failed>>
  BY DEF SendReset
<1>2. squeue' \in [acks : Nat, syn : SUBSET Streams] /\ toReceiver' \in Seq(Frames)
  <2>1. squeue' \in [acks : Nat, syn : SUBSET Streams]
    BY <1>1, SenderFields
  <2>2. toReceiver \in Seq(Frames) /\ Rst(s) \in Frames
    BY SenderFields, FrameTypes
  <2> QED
    BY <1>1, <2>1, <2>2
<1>3. sstate' \in [Streams -> States] /\ item' \in [Streams -> Items]
  BY <1>1, SenderFields DEF States, Items
<1>4. SenderTypes'
  BY <1>1, <1>2, <1>3, SenderFields DEF SenderTypes
<1>5. ASSUME NEW t \in Streams, item'[t] = "flow" PROVE remote'[t] <= 0
  BY <1>1, <1>5, SenderFields
<1> QED
  BY <1>1, <1>2, <1>4, <1>5, SenderFields, SenderStep

LEMMA SendDataStep ==
  ASSUME FlowInv, NEW s \in Streams, NEW n \in Nat, SendData(s, n)
  PROVE  FlowInv'
<1> DEFINE last == n = left[s]
<1>1. /\ n <= Least(ReadMax(s), left[s])
      /\ left' = [left EXCEPT ![s] = @ - n]
      /\ remote' = [remote EXCEPT ![Conn] = @ - n, ![s] = @ - n]
      /\ toReceiver' = Append(toReceiver, Data(s, n, last))
      /\ item' = IF last THEN [item EXCEPT ![s] = "none"] ELSE item
      /\ sstate' = IF last THEN [sstate EXCEPT ![s] = "closed"] ELSE sstate
      /\ item[s] = "ready"
      /\ UNCHANGED <<auto, receiver, peerInitial, squeue, toSender, calls, failed>>
  BY DEF SendData, DataTurn
<1>2. /\ s \in Accounts /\ Conn \in Accounts /\ s # Conn
      /\ remote[s] \in Width /\ remote[Conn] \in Width /\ left[s] \in Nat
      /\ remote[s] \in Int /\ remote[Conn] \in Int
  BY Conns, SenderFields, Widths
<1>3. n <= left[s] /\ n <= remote[s] /\ n <= remote[Conn]
  <2>1. MaxFrame \in Int
    BY FlowAssumption
  <2> QED
    BY <1>1, <1>2, <2>1 DEF Least, ReadMax
<1>4. toReceiver' \in Seq(Frames)
  <2>1. last \in BOOLEAN
    OBVIOUS
  <2> HIDE DEF last
  <2>2. Data(s, n, last) \in Frames
    BY <2>1, FrameTypes
  <2> QED
    BY <1>1, <2>2, SenderFields
<1> HIDE DEF last
<1>5. left' \in [Streams -> Nat]
  BY <1>1, <1>2, <1>3, SenderFields
<1>6. remote[s] - n \in Width /\ remote[Conn] - n \in Width
  BY <1>2, <1>3, WindowAssumption DEF Width
<1>7. remote' \in [Accounts -> Width]
  BY <1>1, <1>2, <1>6, SenderFields
<1>8. sstate' \in [Streams -> States] /\ item' \in [Streams -> Items]
  BY <1>1, SenderFields DEF States, Items
<1>9. SenderTypes'
  BY <1>1, <1>5, <1>7, <1>8, SenderFields DEF SenderTypes
<1>10. ASSUME NEW t \in Streams, item'[t] = "flow" PROVE remote'[t] <= 0
  <2>1. t # s /\ item[t] = "flow" /\ t \in Accounts /\ t # Conn
    BY <1>1, <1>10, SenderFields, Conns
  <2>2. remote'[t] = remote[t]
    BY <1>1, <2>1, SenderFields
  <2> QED
    BY <2>1, <2>2, SenderFields
<1> QED
  BY <1>1, <1>4, <1>9, <1>10, SenderFields, SenderStep

LEMMA NoDataStep ==
  ASSUME FlowInv, NEW s \in Streams, Defer(s) \/ Withhold(s)
  PROVE  FlowInv'
<1> PICK why \in {"flow", "user"} :
      /\ item' = [item EXCEPT ![s] = why]
      /\ why = "flow" => ReadMax(s) <= 0
      /\ remote[Conn] > 0
      /\ UNCHANGED <<auto, receiver, remote, sstate, left, peerInitial, squeue, toSender,
                     toReceiver, calls, failed>>
  BY DEF Defer, Withhold, NoData, DataTurn
<1>1. why = "flow" => remote[s] <= 0
  <2>1. remote[s] \in Int /\ remote[Conn] \in Int
    BY Conns, SenderFields, Widths
  <2>2. MaxFrame \in Nat \ {0}
    BY FlowAssumption
  <2> QED
    BY <2>1, <2>2 DEF ReadMax, Least
<1>2. SenderTypes'
  BY SenderFields DEF SenderTypes, Items
<1>3. ASSUME NEW t \in Streams, item'[t] = "flow" PROVE remote'[t] <= 0
  BY <1>1, <1>3, SenderFields
<1> QED
  BY <1>2, <1>3, SenderFields, SenderStep

LEMMA ResumeDataStep ==
  ASSUME FlowInv, NEW s \in Streams, ResumeData(s)
  PROVE  FlowInv'
<1>1. /\ item' = [item EXCEPT ![s] = "ready"]
      /\ UNCHANGED <<auto, receiver, remote, sstate, left, peerInitial, squeue, toSender,
                     toReceiver, calls, failed>>
  BY DEF ResumeData
<1>2. SenderTypes'
  BY <1>1, SenderFields DEF SenderTypes, Items
<1>3. ASSUME NEW t \in Streams, item'[t] = "flow" PROVE remote'[t] <= 0
  BY <1>1, <1>3, SenderFields
<1> QED
  BY <1>1, <1>2, <1>3, SenderFields, SenderStep

-----------------------------------------------------------------------------
(* The initial state, every step, and the theorems.                        *)

LEMMA FlowInitInv == FlowInit => FlowInv
<1> SUFFICES ASSUME FlowInit PROVE FlowInv
  OBVIOUS
<1>1. Conn \in Accounts /\ ConnSize \in Sizes /\ StreamSize \in Sizes /\ Body \in Nat
      /\ Changes \in Nat /\ Cancels \in Nat /\ Modes \subseteq BOOLEAN
  BY FlowAssumption, Conns
<1>2. NewWindow(ConnSize) \in Window /\ NewWindow(StreamSize) \in Window
  BY <1>1, FreshWindow
<1>3. OtherTypes
  BY <1>1 DEF FlowInit, OtherTypes
<1>4. ReceiverTypes
  <2>1. window \in [Accounts -> Window]
    BY <1>2 DEF FlowInit
  <2>2. rstate \in [Streams -> States] /\ held \in [Accounts -> Int]
    BY DEF FlowInit, States
  <2>3. rqueue \in [urgent : Seq(Frames), reg : Seq(Frames), syn : SUBSET Streams]
    BY DEF FlowInit
  <2>4. lastInitial \in Sizes /\ inflight \in Seq(Sizes) /\ shrunk \in BOOLEAN
    <3>1. lastInitial = StreamSize /\ inflight = <<>> /\ shrunk = FALSE
      BY DEF FlowInit
    <3>2. <<>> \in Seq(Sizes)
      OBVIOUS
    <3> QED
      BY <1>1, <3>1, <3>2
  <2> QED
    BY <2>1, <2>2, <2>3, <2>4 DEF ReceiverTypes
<1>5. RegOK(rqueue.reg, rstate, held)
  BY DEF FlowInit, RegOK
<1>6. Untouched
  BY Conns DEF FlowInit, Untouched
<1>7. Owed
  <2>1. \A a \in Accounts : held[a] = 0 /\ Unconsumed(window[a]) = 0
    BY <1>1, FreshWindow DEF FlowInit
  <2>2. Usable \subseteq Accounts /\ calls.granted = 0
    BY DEF Usable, Accounts, FlowInit
  <2> QED
    BY <2>1, <2>2 DEF Owed
<1>8. SenderTypes
  BY <1>1, Widths DEF FlowInit, SenderTypes, States, Items
<1>9. NoLostWakeup
  BY DEF FlowInit, NoLostWakeup
<1> QED
  BY <1>3, <1>4, <1>5, <1>6, <1>7, <1>8, <1>9 DEF FlowInv, ReceiverInv, SenderInv

LEMMA FlowStep == FlowInv /\ [FlowNext]_flowVars => FlowInv'
<1> SUFFICES ASSUME FlowInv, [FlowNext]_flowVars PROVE FlowInv'
  OBVIOUS
<1>1. CASE UNCHANGED flowVars
  <2>1. SenderInv'
    BY <1>1, SenderStays DEF FlowInv, flowVars, sender
  <2>2. ReceiverInv'
    BY <1>1, ReceiverStays DEF FlowInv, flowVars, receiver
  <2>3. OtherTypes'
    BY <1>1 DEF FlowInv, OtherTypes, flowVars
  <2> QED
    BY <2>1, <2>2, <2>3 DEF FlowInv
<1>2. CASE ReceiverSends
  BY <1>2, SendSettingsStep, SendRequestStep, SendUpdateStep, SendRstStep DEF ReceiverSends
<1>3. CASE ReceiverReceives
  BY <1>3, RecvDataStep, RecvAckStep, RecvRstStep DEF ReceiverReceives
<1>4. CASE SenderReceives
  BY <1>4, RecvRequestStep, RecvSettingsStep, RecvUpdateStep, RecvCancelStep DEF SenderReceives
<1>5. \A n \in 1 .. Body : n \in Nat
  OBVIOUS
<1>6. CASE SenderSends
  BY <1>5, <1>6, SendAckStep, SendResetStep, SendDataStep, NoDataStep
     DEF SenderSends, SendsControl, SendsBytes
<1>7. ASSUME NEW s \in Streams,
             SubmitRequest(s) \/ Consumes(s) \/ Cancel(s) \/ Withhold(s) \/ ResumeData(s)
      PROVE  FlowInv'
  BY <1>5, <1>7, SubmitRequestStep, ConsumeStep, CancelStep, NoDataStep, ResumeDataStep
     DEF Consumes
<1>8. ASSUME NEW v \in Initials, SubmitSettings(v) PROVE FlowInv'
  BY <1>8, SubmitSettingsStep
<1>9. ASSUME NEW a \in Tuned, NEW size \in NewSizes, SetLocalWindowSize(a, size) PROVE FlowInv'
  BY <1>9, SetLocalWindowSizeStep
<1>10. ASSUME NEW a \in Tuned, NEW i \in Increments, SubmitWindowUpdate(a, i) PROVE FlowInv'
  BY <1>10, SubmitWindowUpdateStep
<1> QED
  BY <1>1, <1>2, <1>3, <1>4, <1>6, <1>7, <1>8, <1>9, <1>10 DEF FlowNext

LEMMA FlowInvariant == FlowSpec => []FlowInv
BY FlowInitInv, FlowStep, PTL DEF FlowSpec

(* The windows of both sides, moved by any sequence of frames and calls of *)
(* two sessions, stay within an int32_t, and every state is of its type.   *)
THEOREM FlowTypeCorrect == FlowSpec => []FlowTypeOK
BY FlowInvariant, InvImplies, PTL

(* nghttp2_stream_resume_deferred_item is called at every place where a    *)
(* stream's window may become positive.                                    *)
THEOREM WakeupsKept == FlowSpec => []NoLostWakeup
BY FlowInvariant, InvImplies, PTL

(* With NO_AUTO_WINDOW_UPDATE what the application holds and what the peer *)
(* may still send never exceed what it asked for, for windows of any size. *)
THEOREM HeldWithinWindow == FlowSpec => []BackPressure
BY FlowInvariant, InvImplies, PTL

-----------------------------------------------------------------------------
(* Sums over the natural numbers up to n: they exist, and there is one.    *)

(* Every non-empty set of natural numbers has a least element.             *)
LEMMA LeastElement ==
  ASSUME NEW T \in SUBSET Nat, T # {}
  PROVE  \E m \in T : \A k \in T : m <= k
<1>1. PICK top \in T : TRUE
  OBVIOUS
<1> DEFINE S == 0 .. top
           W == {0 .. m : m \in T \cap S}
<1>2. IsWellFoundedOn(StrictSubsetOrdering(S), SUBSET S)
  <2>1. IsFiniteSet(S)
    BY FS_Interval
  <2>2. FiniteSubsetsOf(S) = SUBSET S
    BY <2>1, FS_FiniteSubsetsOfFinite
  <2>3. IsWellFoundedOn(StrictSubsetOrdering(S), FiniteSubsetsOf(S))
    BY FS_StrictSubsetOrderingWellFounded
  <2> QED
    BY <2>2, <2>3
<1>3. W \subseteq SUBSET S /\ W # {}
  BY <1>1
<1>4. PICK w \in W : \A y \in W : ~ (<<y, w>> \in StrictSubsetOrdering(S))
  <2> HIDE DEF W, S
  <2> QED
    BY <1>2, <1>3, WFMin
<1>5. PICK m \in T \cap S : w = 0 .. m
  BY <1>4
<1>6. ASSUME NEW k \in T, k < m PROVE FALSE
  <2>1. k \in T \cap S
    BY <1>5, <1>6
  <2>2. 0 .. k \in W
    BY <2>1
  <2>3. 0 .. k \subseteq w /\ 0 .. k # w /\ m \in w /\ m \notin 0 .. k
    BY <1>5, <1>6
  <2>4. 0 .. k \subseteq S /\ w \subseteq S
    BY <1>5, <2>1
  <2>5. <<0 .. k, w>> \in StrictSubsetOrdering(S)
    BY <2>3, <2>4, Zenon DEF StrictSubsetOrdering
  <2> QED
    BY <1>4, <2>2, <2>5
<1> QED
  BY <1>5, <1>6

(* g adds up the first n of the numbers v.                                 *)
Adds(g, v, n) ==
  g = [i \in 0 .. n |-> IF i = 0 THEN 0 ELSE g[i - 1] + v[i]]

LEMMA SumsExist ==
  ASSUME NEW n \in Nat, NEW v \in [1 .. n -> Nat]
  PROVE  \E g \in [0 .. n -> Nat] : Adds(g, v, n)
<1> DEFINE Has(m) == \E g \in [0 .. m -> Nat] : Adds(g, v, m)
           T == {m \in 0 .. n : ~Has(m)}
<1>1. ASSUME T # {} PROVE FALSE
  <2>1. PICK m \in T : \A k \in T : m <= k
    <3>1. T \in SUBSET Nat
      OBVIOUS
    <3> HIDE DEF T
    <3> QED
      BY <1>1, <3>1, LeastElement
  <2>2. CASE m = 0
    <3>1. [i \in 0 .. 0 |-> 0] \in [0 .. 0 -> Nat] /\ Adds([i \in 0 .. 0 |-> 0], v, 0)
      BY DEF Adds
    <3> QED
      BY <2>1, <2>2, <3>1
  <2>3. CASE m # 0
    <3>1. m - 1 \in 0 .. n /\ m - 1 < m /\ m \in 1 .. n /\ m \in Nat
      BY <2>1, <2>3
    <3>2. Has(m - 1)
      <4> HIDE DEF Has
      <4> QED
        BY <2>1, <3>1
    <3>3. PICK g \in [0 .. m - 1 -> Nat] : Adds(g, v, m - 1)
      BY <3>2
    <3> DEFINE h == [i \in 0 .. m |-> IF i = m THEN g[m - 1] + v[m] ELSE g[i]]
    <3>4. h \in [0 .. m -> Nat]
      BY <3>1, <3>3
    <3>5. ASSUME NEW i \in 0 .. m
          PROVE  h[i] = IF i = 0 THEN 0 ELSE h[i - 1] + v[i]
      <4>1. CASE i = m
        BY <2>3, <3>1, <4>1
      <4>2. CASE i # m
        <5>1. i \in 0 .. m - 1
          BY <3>1, <4>2
        <5>2. g[i] = IF i = 0 THEN 0 ELSE g[i - 1] + v[i]
          BY <3>3, <5>1 DEF Adds
        <5>3. i # 0 => i - 1 \in 0 .. m - 1 /\ i - 1 # m
          BY <3>1, <5>1
        <5> QED
          BY <4>2, <5>1, <5>2, <5>3
      <4> QED
        BY <4>1, <4>2
    <3>6. h = [i \in 0 .. m |-> IF i = 0 THEN 0 ELSE h[i - 1] + v[i]]
      BY <3>4, <3>5
    <3> QED
      BY <2>1, <3>4, <3>6 DEF Adds
  <2> QED
    BY <2>2, <2>3
<1>2. n \in 0 .. n
  OBVIOUS
<1> QED
  BY <1>1, <1>2

LEMMA SumsAgree ==
  ASSUME NEW n \in Nat, NEW k \in Nat, NEW m \in 0 .. n, m <= k,
         NEW v, NEW u, \A i \in 1 .. m : v[i] = u[i],
         NEW g, NEW h, Adds(g, v, n), Adds(h, u, k)
  PROVE  g[m] = h[m]
<1> DEFINE T == {i \in 0 .. m : g[i] # h[i]}
<1>1. ASSUME T # {} PROVE FALSE
  <2>1. PICK i \in T : \A j \in T : i <= j
    <3>1. T \in SUBSET Nat
      OBVIOUS
    <3> HIDE DEF T
    <3> QED
      BY <1>1, <3>1, LeastElement
  <2>2. i # 0
    BY <2>1 DEF Adds
  <2>3. i - 1 \in 0 .. m /\ i \in 1 .. m /\ i \in 0 .. n /\ i \in 0 .. k
    BY <2>1, <2>2
  <2>4. g[i - 1] = h[i - 1]
    BY <2>1, <2>3
  <2>5. g[i] = g[i - 1] + v[i] /\ h[i] = h[i - 1] + u[i]
    BY <2>2, <2>3 DEF Adds
  <2> QED
    BY <2>1, <2>3, <2>4, <2>5
<1> QED
  BY <1>1

LEMMA SumsMatch ==
  \A n \in Nat : \A k \in Nat : n <= k =>
    \A v, u : (\A i \in 1 .. n : v[i] = u[i]) =>
      \A g, h : Adds(g, v, n) /\ Adds(h, u, k) => g[n] = h[n]
<1> SUFFICES ASSUME NEW n \in Nat, NEW k \in Nat, n <= k,
                    NEW v, NEW u, \A i \in 1 .. n : v[i] = u[i],
                    NEW g, NEW h, Adds(g, v, n), Adds(h, u, k)
             PROVE  g[n] = h[n]
  OBVIOUS
<1>1. n \in 0 .. n
  OBVIOUS
<1> QED
  BY <1>1, SumsAgree

-----------------------------------------------------------------------------
(* Bytes: what a sequence of frames carries, piece by piece.               *)

Weights(q, K, A) == [i \in 1 .. Len(q) |-> Counted(q[i], K, A)]

LEMMA CountedNat ==
  ASSUME NEW f \in Frames, NEW K, NEW A
  PROVE  Counted(f, K, A) \in Nat
BY FrameFields DEF Counted

(* Bytes is a sum, whatever the sequence.                                  *)
LEMMA BytesSum ==
  ASSUME NEW q \in Seq(Frames), NEW K, NEW A
  PROVE  \E g \in [0 .. Len(q) -> Nat] :
           Adds(g, Weights(q, K, A), Len(q)) /\ Bytes(q, K, A) = g[Len(q)]
<1> DEFINE n == Len(q)
           v == Weights(q, K, A)
           sum == CHOOSE f : f = [i \in 0 .. n |->
                    IF i = 0 THEN 0 ELSE f[i - 1] + Counted(q[i], K, A)]
<1>1. n \in Nat /\ v \in [1 .. n -> Nat]
  BY CountedNat DEF Weights
<1>2. PICK g \in [0 .. n -> Nat] : Adds(g, v, n)
  BY <1>1, SumsExist
<1>3. ASSUME NEW f PROVE
        f = [i \in 0 .. n |-> IF i = 0 THEN 0 ELSE f[i - 1] + Counted(q[i], K, A)]
        <=> Adds(f, v, n)
  <2>1. \A i \in 0 .. n : i # 0 => v[i] = Counted(q[i], K, A)
    BY <1>1 DEF Weights
  <2> DEFINE a == [i \in 0 .. n |-> IF i = 0 THEN 0 ELSE f[i - 1] + Counted(q[i], K, A)]
             b == [i \in 0 .. n |-> IF i = 0 THEN 0 ELSE f[i - 1] + v[i]]
  <2>2. a = b
    <3> HIDE DEF v, n
    <3> QED
      BY <2>1
  <2> HIDE DEF v, n
  <2> QED
    BY <2>2 DEF Adds
<1>4. Adds(sum, v, n)
  <2>1. g = [i \in 0 .. n |-> IF i = 0 THEN 0 ELSE g[i - 1] + Counted(q[i], K, A)]
    BY <1>2, <1>3
  <2>2. sum = [i \in 0 .. n |-> IF i = 0 THEN 0 ELSE sum[i - 1] + Counted(q[i], K, A)]
    <3> HIDE DEF n
    <3> QED
      BY <2>1, Zenon
  <2> HIDE DEF sum
  <2> QED
    BY <1>3, <2>2
<1>5. Bytes(q, K, A) = sum[n]
  BY Zenon DEF Bytes
<1>6. sum[n] = g[n]
  <2> HIDE DEF sum, v, n
  <2> QED
    BY <1>1, <1>2, <1>4, SumsAgree
<1> HIDE DEF sum
<1> QED
  BY <1>2, <1>5, <1>6

LEMMA BytesNat ==
  ASSUME NEW q \in Seq(Frames), NEW K, NEW A
  PROVE  Bytes(q, K, A) \in Nat
BY BytesSum

LEMMA BytesEmpty ==
  ASSUME NEW K, NEW A
  PROVE  Bytes(<<>>, K, A) = 0
<1>1. <<>> \in Seq(Frames) /\ Len(<<>>) = 0
  OBVIOUS
<1>2. PICK g \in [0 .. 0 -> Nat] : Adds(g, Weights(<<>>, K, A), 0) /\ Bytes(<<>>, K, A) = g[0]
  BY <1>1, BytesSum
<1> QED
  BY <1>2 DEF Adds

LEMMA BytesAppend ==
  ASSUME NEW q \in Seq(Frames), NEW f \in Frames, NEW K, NEW A
  PROVE  Bytes(Append(q, f), K, A) = Bytes(q, K, A) + Counted(f, K, A)
<1> DEFINE p == Append(q, f)
           n == Len(q)
           u == Weights(p, K, A)
           v == Weights(q, K, A)
<1>1. p \in Seq(Frames) /\ Len(p) = n + 1 /\ n \in Nat /\ p[n + 1] = f
      /\ \A i \in 1 .. n : p[i] = q[i]
  OBVIOUS
<1>2. PICK g : Adds(g, v, n) /\ Bytes(q, K, A) = g[n]
  BY BytesSum
<1> HIDE DEF p
<1>3. PICK h : Adds(h, u, n + 1) /\ Bytes(p, K, A) = h[n + 1]
  <2>1. p \in Seq(Frames) /\ Len(p) = n + 1
    BY <1>1
  <2>2. PICK h : Adds(h, u, Len(p)) /\ Bytes(p, K, A) = h[Len(p)]
    BY <2>1, BytesSum, Zenon
  <2> QED
    BY <2>1, <2>2, Zenon
<1>4. \A i \in 1 .. n : v[i] = u[i]
  BY <1>1 DEF Weights
<1>5. u[n + 1] = Counted(f, K, A)
  BY <1>1 DEF Weights
<1> HIDE DEF n, u, v
<1>6. g[n] = h[n]
  <2>1. n \in Nat /\ n <= n + 1 /\ n + 1 \in Nat
    BY <1>1
  <2>2. \A a, b : (\A i \in 1 .. n : a[i] = b[i]) =>
          \A x, y : Adds(x, a, n) /\ Adds(y, b, n + 1) => x[n] = y[n]
    <3>1. \A k \in Nat : n <= k => \A a, b : (\A i \in 1 .. n : a[i] = b[i]) =>
            \A x, y : Adds(x, a, n) /\ Adds(y, b, k) => x[n] = y[n]
      BY <2>1, SumsMatch
    <3> QED
      BY <2>1, <3>1
  <2>3. \A x, y : Adds(x, v, n) /\ Adds(y, u, n + 1) => x[n] = y[n]
    BY <1>4, <2>2
  <2> QED
    BY <1>2, <1>3, <2>3
<1>7. h[n + 1] = h[n] + u[n + 1]
  <2>1. n + 1 \in 0 .. n + 1 /\ n + 1 # 0 /\ (n + 1) - 1 = n
    BY <1>1
  <2> QED
    BY <1>3, <2>1 DEF Adds
<1>8. Bytes(p, K, A) = Bytes(q, K, A) + Counted(f, K, A)
  BY <1>2, <1>3, <1>5, <1>6, <1>7
<1> QED
  BY <1>8 DEF p

LEMMA BytesTail ==
  ASSUME NEW q \in Seq(Frames), q # <<>>, NEW K, NEW A
  PROVE  Bytes(q, K, A) = Counted(Head(q), K, A) + Bytes(Tail(q), K, A)
<1> DEFINE p == Tail(q)
           n == Len(p)
           u == Weights(q, K, A)
           v == Weights(p, K, A)
           c == Counted(Head(q), K, A)
<1>1. p \in Seq(Frames) /\ Len(q) = n + 1 /\ n \in Nat /\ Head(q) = q[1] /\ Head(q) \in Frames
      /\ \A i \in 1 .. n : p[i] = q[i + 1]
  OBVIOUS
<1> HIDE DEF p
<1>2. PICK g \in [0 .. n -> Nat] : Adds(g, v, n) /\ Bytes(p, K, A) = g[n]
  <2>1. p \in Seq(Frames)
    BY <1>1
  <2> QED
    BY <2>1, BytesSum, Zenon
<1>3. PICK h : Adds(h, u, n + 1) /\ Bytes(q, K, A) = h[n + 1]
  <2>1. PICK h : Adds(h, u, Len(q)) /\ Bytes(q, K, A) = h[Len(q)]
    BY BytesSum, Zenon
  <2>2. Len(q) = n + 1
    BY <1>1
  <2> QED
    BY <2>1, <2>2, Zenon
<1>4. \A i \in 1 .. n : v[i] = u[i + 1]
  BY <1>1 DEF Weights
<1>5. u[1] = c /\ c \in Nat
  BY <1>1, CountedNat DEF Weights
<1> HIDE DEF n, u, v, c
<1> DEFINE T == {i \in 0 .. n : h[i + 1] # c + g[i]}
<1>6. ASSUME T # {} PROVE FALSE
  <2>1. PICK i \in T : \A j \in T : i <= j
    <3>1. T \in SUBSET Nat
      OBVIOUS
    <3> HIDE DEF T
    <3> QED
      BY <1>6, <3>1, LeastElement
  <2>2. i # 0
    <3>1. h[1] = 0 + u[1] /\ g[0] = 0
      BY <1>1, <1>2, <1>3 DEF Adds
    <3> QED
      BY <2>1, <1>5, <3>1
  <2>3. i \in 1 .. n /\ i - 1 \in 0 .. n /\ i + 1 \in 0 .. n + 1 /\ i + 1 # 0 /\ i \in 0 .. n
        /\ (i + 1) - 1 = i /\ (i - 1) + 1 = i
    BY <1>1, <2>1, <2>2
  <2>4. h[i] = c + g[i - 1]
    BY <2>1, <2>3
  <2>5. g[i] = g[i - 1] + v[i] /\ h[i + 1] = h[i] + u[i + 1]
    BY <1>2, <1>3, <2>2, <2>3 DEF Adds
  <2>6. v[i] = u[i + 1] /\ v[i] \in Nat /\ g[i - 1] \in Nat
    <3>1. v \in [1 .. n -> Nat]
      BY <1>1, CountedNat DEF Weights, v, n
    <3> QED
      BY <1>2, <1>4, <2>3, <3>1
  <2> QED
    BY <2>1, <2>4, <2>5, <2>6, <1>5
<1>7. n \in 0 .. n
  BY <1>1
<1>8. Bytes(q, K, A) = c + Bytes(p, K, A)
  BY <1>2, <1>3, <1>6, <1>7
<1> QED
  BY <1>8 DEF p, c

(* What no frame counts for adds nothing.                                  *)
LEMMA BytesNone ==
  ASSUME NEW q \in Seq(Frames), NEW K, NEW A,
         \A i \in 1 .. Len(q) : Counted(q[i], K, A) = 0
  PROVE  Bytes(q, K, A) = 0
<1> DEFINE n == Len(q)
           v == Weights(q, K, A)
           g == [i \in 0 .. n |-> 0]
<1>1. n \in Nat /\ \A i \in 1 .. n : v[i] = 0
  BY DEF Weights
<1>2. Adds(g, v, n)
  <2> HIDE DEF v, n
  <2> QED
    BY <1>1 DEF Adds
<1>3. PICK h : Adds(h, v, n) /\ Bytes(q, K, A) = h[n]
  BY BytesSum
<1>4. g[n] = h[n]
  <2>1. n \in Nat
    BY <1>1
  <2> HIDE DEF v, n, g
  <2>2. \A a, b : (\A i \in 1 .. n : a[i] = b[i]) =>
          \A x, y : Adds(x, a, n) /\ Adds(y, b, n) => x[n] = y[n]
    <3>1. \A k \in Nat : n <= k => \A a, b : (\A i \in 1 .. n : a[i] = b[i]) =>
            \A x, y : Adds(x, a, n) /\ Adds(y, b, k) => x[n] = y[n]
      BY <2>1, SumsMatch
    <3>2. n <= n
      BY <2>1
    <3> QED
      BY <2>1, <3>1, <3>2
  <2>3. \A x, y : Adds(x, v, n) /\ Adds(y, v, n) => x[n] = y[n]
    BY <2>2
  <2> QED
    BY <1>2, <1>3, <2>3
<1>5. g[n] = 0
  BY <1>1
<1> QED
  BY <1>3, <1>4, <1>5

(* The sum of a sequence and of what follows it.                           *)
LEMMA BytesConcat ==
  ASSUME NEW q \in Seq(Frames), NEW p \in Seq(Frames), NEW K, NEW A
  PROVE  Bytes(q \o p, K, A) = Bytes(q, K, A) + Bytes(p, K, A)
<1> DEFINE Part(k) == SubSeq(p, 1, k)
           T == {k \in 0 .. Len(p) :
                   Bytes(q \o Part(k), K, A) # Bytes(q, K, A) + Bytes(Part(k), K, A)}
<1>1. ASSUME T # {} PROVE FALSE
  <2>1. PICK k \in T : \A j \in T : k <= j
    <3>1. T \in SUBSET Nat
      OBVIOUS
    <3> HIDE DEF T
    <3> QED
      BY <1>1, <3>1, LeastElement
  <2>2. k # 0
    <3> DEFINE x == q \o Part(0)
    <3>1. Part(0) = <<>> /\ x = q
      OBVIOUS
    <3> HIDE DEF Part, x
    <3>2. Bytes(q, K, A) \in Nat /\ Bytes(Part(0), K, A) = 0
      BY <3>1, BytesNat, BytesEmpty
    <3>3. Bytes(x, K, A) = Bytes(q, K, A) + Bytes(Part(0), K, A)
      BY <3>1, <3>2
    <3>4. Bytes(q \o Part(0), K, A) = Bytes(q, K, A) + Bytes(Part(0), K, A)
      BY <3>3 DEF x
    <3> HIDE DEF Part
    <3> QED
      BY <2>1, <3>4
  <2>3. k \in 1 .. Len(p) /\ k - 1 \in 0 .. Len(p)
    BY <2>1, <2>2
  <2>4. Bytes(q \o Part(k - 1), K, A) = Bytes(q, K, A) + Bytes(Part(k - 1), K, A)
    <3> HIDE DEF Part
    <3> QED
      BY <2>1, <2>3
  <2>5. /\ Part(k - 1) \in Seq(Frames) /\ p[k] \in Frames
        /\ Part(k) = Append(Part(k - 1), p[k])
        /\ q \o Part(k) = Append(q \o Part(k - 1), p[k])
        /\ q \o Part(k - 1) \in Seq(Frames)
    BY <2>3
  <2> HIDE DEF Part, T
  <2>6. Bytes(Part(k), K, A) = Bytes(Part(k - 1), K, A) + Counted(p[k], K, A)
    BY <2>5, BytesAppend
  <2>7. Bytes(q \o Part(k), K, A) = Bytes(q \o Part(k - 1), K, A) + Counted(p[k], K, A)
    <3> DEFINE x == q \o Part(k - 1)
               y == q \o Part(k)
    <3>1. x \in Seq(Frames) /\ y = Append(x, p[k])
      BY <2>5
    <3> HIDE DEF x, y
    <3>2. Bytes(y, K, A) = Bytes(x, K, A) + Counted(p[k], K, A)
      BY <2>5, <3>1, BytesAppend
    <3> QED
      BY <3>2 DEF x, y
  <2>8. /\ Bytes(q, K, A) \in Nat /\ Bytes(Part(k - 1), K, A) \in Nat
        /\ Counted(p[k], K, A) \in Nat
    BY <2>5, BytesNat, CountedNat
  <2> QED
    BY <2>1, <2>4, <2>6, <2>7, <2>8 DEF T
<1>2. Len(p) \in 0 .. Len(p) /\ Part(Len(p)) = p
  OBVIOUS
<1> QED
  BY <1>1, <1>2

-----------------------------------------------------------------------------
(* The inductive invariant of CreditConserved. A stream has credit as soon *)
(* as its request is sent, before the sender has heard of it, so what holds *)
(* of the order of the frames comes with it.                               *)

(* The sender's window of a stream it has not heard of is its initial one. *)
May(s) == IF sstate[s] = "idle" THEN peerInitial ELSE remote[s]

(* The connection: a reduction never hides more than the window allows.    *)
Sound(w) == w.local + w.reduction <= MaxWindow /\ w.recv + w.reduction >= 0

ConnCredit ==
  /\ remote[Conn] + DataTo(Conn) + Granted(Conn) = Room(window[Conn])
  /\ remote[Conn] >= 0 /\ Sound(window[Conn])

StreamCredit ==
  \A s \in Streams : rstate[s] = "open" /\ sstate[s] \in {"idle", "open"} =>
    May(s) + DataTo(s) + Granted(s) = Room(window[s]) + peerInitial - lastInitial

(* Nothing of a stream is under way before its request is, and nothing     *)
(* overtakes the request.                                                  *)
Unsent == {"idle", "queued"}
In(q)  == {q[i] : i \in 1 .. Len(q)}
IsRequest(f, s) == f.kind = "HEADERS" /\ f.of = s

NotYet ==
  \A s \in Streams : rstate[s] \in Unsent =>
    /\ sstate[s] = "idle" /\ s \notin rqueue.syn
    /\ \A f \in In(toSender) : f.of # s
    /\ \A f \in In(rqueue.reg) : f.of = s => f.kind = "HEADERS"

Requests == \A f \in In(rqueue.reg) : f.kind = "HEADERS" => rstate[f.of] = "queued"

Unheard ==
  \A s \in Streams : sstate[s] = "idle" =>
    s \notin squeue.syn /\ \A f \in In(toReceiver) : f.of # s

FirstOK(q, sent, heard) ==
  /\ \A s \in Streams : \A i, j \in 1 .. Len(q) :
       IsRequest(q[i], s) => heard[s] = "idle" /\ (q[j].of = s => i <= j)
  /\ \A s \in Streams : heard[s] = "idle" /\ sent[s] \notin Unsent =>
       \E i \in 1 .. Len(q) : IsRequest(q[i], s)

First == FirstOK(toSender, rstate, sstate)

Urgent == \A f \in In(rqueue.urgent) : f.kind = "SETTINGS" /\ f.of = Conn

OrderInv  == NotYet /\ Requests /\ Unheard /\ First /\ Urgent
CreditInv == ConnCredit /\ StreamCredit /\ OrderInv

LEMMA ShrinkSound ==
  ASSUME NEW w \in Window, NEW d \in Nat
  PROVE  Shrink(w, d).grant = 0 /\ (Sound(w) => Sound(Shrink(w, d).window))
BY DEF Shrink, Result, Refused, Sound, Window, Width

LEMMA WidenSound ==
  ASSUME NEW w \in Window, NEW d \in Nat
  PROVE  Widen(w, d).grant \in Nat /\ (Sound(w) => Sound(Widen(w, d).window))
<1> DEFINE paid == Least(w.reduction, d)
           v == [w EXCEPT !.local = @ + d, !.reduction = @ - paid, !.recv = @ + paid]
<1>1. paid \in Nat /\ paid <= w.reduction /\ paid <= d /\ (paid = w.reduction \/ paid = d)
  BY Fields DEF Least
<1>2. \/ Widen(w, d) = Refused(w)
      \/ Widen(w, d) = Result(v, d - paid) /\ w.local <= MaxWindow - d
  BY Fields, WindowAssumption DEF Widen
<1> HIDE DEF paid
<1>3. /\ v.local = w.local + d /\ v.reduction = w.reduction - paid /\ v.recv = w.recv + paid
  BY DEF Window
<1> HIDE DEF v
<1>4. w.local <= MaxWindow - d /\ Sound(w) => Sound(v)
  BY <1>1, <1>3, Fields, WindowAssumption DEF Sound
<1>5. CASE Widen(w, d) = Refused(w)
  BY <1>5 DEF Refused
<1>6. CASE Widen(w, d) = Result(v, d - paid) /\ w.local <= MaxWindow - d
  BY <1>1, <1>4, <1>6 DEF Result
<1> QED
  BY <1>2, <1>5, <1>6

LEMMA GrantSound ==
  ASSUME NEW w \in Window, NEW d \in Nat \ {0}
  PROVE  Grant(w, d).grant \in Nat /\ (Sound(w) => Sound(Grant(w, d).window))
<1> DEFINE unacked == Greatest(0, w.recv)
           extra   == d - unacked
           paid    == Least(w.reduction, extra)
           less(g) == Greatest(0, w.consumed - g)
           u == [w EXCEPT !.recv = unacked - d, !.consumed = less(d)]
           v == [w EXCEPT !.local = @ + extra, !.reduction = @ - paid,
                          !.recv = IF @ < 0 THEN @ + paid ELSE paid,
                          !.consumed = IF d > paid THEN less(d - paid) ELSE @]
<1>1. /\ unacked \in Nat /\ unacked >= w.recv /\ extra \in Int
      /\ extra = d - unacked
  BY Fields DEF Greatest
<1>2. /\ paid \in Int /\ paid <= w.reduction /\ paid <= extra
      /\ paid = w.reduction \/ paid = extra
  BY <1>1, Fields DEF Least
<1>3. \/ Grant(w, d) = Refused(w)
      \/ Grant(w, d) = Result(u, d) /\ extra <= 0
      \/ Grant(w, d) = Result(v, d - paid) /\ extra > 0 /\ w.local <= MaxWindow - extra
  BY <1>1, Fields, WindowAssumption DEF Grant
<1> HIDE DEF paid, unacked, less
<1>4. u.local = w.local /\ u.reduction = w.reduction /\ u.recv = unacked - d
  BY DEF Window
<1>5. /\ v.local = w.local + extra /\ v.reduction = w.reduction - paid
      /\ v.recv = IF w.recv < 0 THEN w.recv + paid ELSE paid
  BY DEF Window
<1> HIDE DEF u, v, extra
<1>6. extra <= 0 /\ Sound(w) => Sound(u)
  BY <1>1, <1>4, Fields, WindowAssumption DEF Sound
<1>7. extra > 0 /\ w.local <= MaxWindow - extra /\ Sound(w) => Sound(v)
  BY <1>1, <1>2, <1>5, Fields, WindowAssumption DEF Sound
<1>8. extra > 0 => d - paid \in Nat
  BY <1>1, <1>2, Fields
<1>9. CASE Grant(w, d) = Refused(w)
  BY <1>9 DEF Refused
<1>10. CASE Grant(w, d) = Result(u, d) /\ extra <= 0
  BY <1>6, <1>10 DEF Result
<1>11. CASE Grant(w, d) = Result(v, d - paid) /\ extra > 0 /\ w.local <= MaxWindow - extra
  BY <1>7, <1>8, <1>11 DEF Result
<1> QED
  BY <1>3, <1>9, <1>10, <1>11

LEMMA ReceivedSound ==
  ASSUME NEW w \in Window, NEW n \in Nat, NEW updates \in BOOLEAN
  PROVE  /\ Received(w, n, updates).grant \in Nat
         /\ Sound(w) => Sound(Received(w, n, updates).window)
BY DEF Received, ShouldUpdate, Result, Refused, Sound, Window, Width

LEMMA ConsumedSound ==
  ASSUME NEW w \in Window, NEW n \in Nat
  PROVE  /\ Consumed(w, n).grant \in Nat
         /\ Sound(w) => Sound(Consumed(w, n).window)
BY DEF Consumed, ShouldUpdate, Result, Refused, Sound, Window, Width, Least

LEMMA ResizeSound ==
  ASSUME NEW w \in Window, NEW by \in Int, NEW updates \in BOOLEAN
  PROVE  Resize(w, by, updates).grant \in Nat
BY DEF Resize, ShouldUpdate, Result, Refused, Window, Width

LEMMA SetSizeSound ==
  ASSUME NEW w \in Window, NEW size \in Sizes
  PROVE  SetSize(w, size).grant \in Nat /\ (Sound(w) => Sound(SetSize(w, size).window))
<1>1. CASE size >= w.local
  <2>1. size - w.local \in Nat
    BY <1>1, Fields DEF Sizes
  <2> QED
    BY <1>1, <2>1, WidenSound DEF SetSize
<1>2. CASE ~(size >= w.local)
  <2>1. w.local - size \in Nat
    BY <1>2, Fields DEF Sizes
  <2> QED
    BY <1>2, <2>1, ShrinkSound DEF SetSize
<1> QED
  BY <1>1, <1>2

LEMMA UpdateSentSound ==
  ASSUME auto \in BOOLEAN, NEW w \in Window
  PROVE  UpdateSent(w).grant \in Nat /\ (Sound(w) => Sound(UpdateSent(w).window))
<1> DEFINE v == [w EXCEPT !.queued = FALSE]
<1>1. v \in Window /\ (Sound(w) => Sound(v))
  BY DEF Window, Sound
<1>2. UpdateSent(w) = IF auto THEN Received(v, 0, TRUE) ELSE Consumed(v, 0)
  BY DEF UpdateSent
<1> HIDE DEF v
<1> QED
  BY <1>1, <1>2, ReceivedSound, ConsumedSound

(* What a call leaves of a window, once marked.                            *)
LEMMA MarkedFields ==
  ASSUME NEW r, r.window \in Window
  PROVE  /\ Room(Marked(r)) = Room(r.window)
         /\ Sound(r.window) => Sound(Marked(r))
BY DEF Marked, Room, Sound, Window

-----------------------------------------------------------------------------
(* The order of the frames.                                                *)

LEMMA InEmpty == In(<<>>) = {}
BY DEF In

LEMMA InAppend ==
  ASSUME NEW q \in Seq(Frames), NEW f \in Frames
  PROVE  In(Append(q, f)) = In(q) \cup {f}
<1> DEFINE p == Append(q, f)
<1>1. /\ Len(q) \in Nat /\ Len(p) = Len(q) + 1 /\ p[Len(q) + 1] = f
      /\ \A i \in 1 .. Len(q) : p[i] = q[i]
  OBVIOUS
<1> HIDE DEF p
<1>2. In(p) = In(q) \cup {f}
  BY <1>1 DEF In
<1> QED
  BY <1>2 DEF p

LEMMA InTail ==
  ASSUME NEW q \in Seq(Frames), q # <<>>
  PROVE  In(Tail(q)) \subseteq In(q) /\ Head(q) \in In(q) /\ Head(q) \in Frames /\ Tail(q) \in Seq(Frames)
BY DEF In

LEMMA InFrames ==
  ASSUME NEW q \in Seq(Frames)
  PROVE  In(q) \subseteq Frames
BY DEF In

LEMMA InQueued ==
  ASSUME NEW q \in Seq(Frames), NEW a \in Accounts, NEW n \in Nat
  PROVE  In(Queued(q, a, n)) \subseteq In(q) \cup {Update(a, n)} /\ Queued(q, a, n) \in Seq(Frames)
<1>1. Update(a, n) \in Frames
  BY FrameTypes
<1> QED
  BY <1>1, InAppend DEF Queued

LEMMA InConcat ==
  ASSUME NEW q \in Seq(Frames), NEW p \in Seq(Frames)
  PROVE  In(q \o p) = In(q) \cup In(p)
<1> DEFINE r == q \o p
<1>1. /\ Len(q) \in Nat /\ Len(p) \in Nat /\ Len(r) = Len(q) + Len(p)
      /\ \A i \in 1 .. Len(q) : r[i] = q[i]
      /\ \A i \in 1 .. Len(p) : r[Len(q) + i] = p[i]
      /\ \A i \in 1 .. Len(r) : i \in 1 .. Len(q) \/ i - Len(q) \in 1 .. Len(p)
  OBVIOUS
<1> HIDE DEF r
<1>2. In(r) \subseteq In(q) \cup In(p)
  <2> SUFFICES ASSUME NEW i \in 1 .. Len(r) PROVE r[i] \in In(q) \cup In(p)
    BY DEF In
  <2>1. CASE i \in 1 .. Len(q)
    BY <1>1, <2>1 DEF In
  <2>2. CASE i - Len(q) \in 1 .. Len(p)
    <3>1. r[Len(q) + (i - Len(q))] = p[i - Len(q)] /\ Len(q) + (i - Len(q)) = i
      BY <1>1, <2>2
    <3> QED
      BY <2>2, <3>1 DEF In
  <2> QED
    BY <1>1, <2>1, <2>2
<1>3. In(q) \subseteq In(r)
  BY <1>1 DEF In
<1>4. In(p) \subseteq In(r)
  <2> SUFFICES ASSUME NEW i \in 1 .. Len(p) PROVE p[i] \in In(r)
    BY DEF In
  <2>1. Len(q) + i \in 1 .. Len(r) /\ r[Len(q) + i] = p[i]
    BY <1>1
  <2> QED
    BY <2>1 DEF In
<1> QED
  BY <1>2, <1>3, <1>4 DEF r

-----------------------------------------------------------------------------
(* Requests come first.                                                    *)

LEMMA FirstState ==
  ASSUME NEW q, NEW sent, NEW heard, NEW sent1, NEW heard1, FirstOK(q, sent, heard),
         \A s \in Streams : heard1[s] = "idle" <=> heard[s] = "idle",
         \A s \in Streams : sent1[s] \notin Unsent => sent[s] \notin Unsent
  PROVE  FirstOK(q, sent1, heard1)
BY DEF FirstOK

LEMMA FirstAppend ==
  ASSUME NEW q \in Seq(Frames), NEW sent, NEW heard, FirstOK(q, sent, heard),
         NEW f \in Frames, f.kind # "HEADERS"
  PROVE  FirstOK(Append(q, f), sent, heard)
<1> DEFINE p == Append(q, f)
<1>1. /\ Len(q) \in Nat /\ Len(p) = Len(q) + 1 /\ p[Len(p)] = f
      /\ \A i \in 1 .. Len(q) : p[i] = q[i]
      /\ \A i \in 1 .. Len(p) : i \in 1 .. Len(q) \/ i = Len(p)
  OBVIOUS
<1> HIDE DEF p
<1>2. FirstOK(p, sent, heard)
  <2>1. ASSUME NEW s \in Streams, NEW i \in 1 .. Len(p), NEW j \in 1 .. Len(p), IsRequest(p[i], s)
        PROVE  heard[s] = "idle" /\ (p[j].of = s => i <= j)
    <3>1. i \in 1 .. Len(q) /\ IsRequest(q[i], s)
      BY <1>1, <2>1 DEF IsRequest
    <3>2. heard[s] = "idle" /\ \A k \in 1 .. Len(q) : q[k].of = s => i <= k
      BY <3>1 DEF FirstOK
    <3> QED
      BY <1>1, <3>1, <3>2
  <2>2. ASSUME NEW s \in Streams, heard[s] = "idle", sent[s] \notin Unsent
        PROVE  \E i \in 1 .. Len(p) : IsRequest(p[i], s)
    <3>1. PICK i \in 1 .. Len(q) : IsRequest(q[i], s)
      BY <2>2 DEF FirstOK
    <3> QED
      BY <1>1, <3>1
  <2> QED
    BY <2>1, <2>2 DEF FirstOK
<1> QED
  BY <1>2 DEF p

LEMMA FirstRequest ==
  ASSUME NEW q \in Seq(Frames), NEW sent \in [Streams -> States], NEW heard,
         FirstOK(q, sent, heard),
         NEW s \in Streams, heard[s] = "idle", \A f \in In(q) : f.of # s
  PROVE  FirstOK(Append(q, Headers(s)), [sent EXCEPT ![s] = "open"], heard)
<1> DEFINE p == Append(q, Headers(s))
           sent1 == [sent EXCEPT ![s] = "open"]
<1>1. /\ Len(q) \in Nat /\ Len(p) = Len(q) + 1 /\ p[Len(p)] = Headers(s)
      /\ \A i \in 1 .. Len(q) : p[i] = q[i]
      /\ \A i \in 1 .. Len(p) : i \in 1 .. Len(q) \/ i = Len(p)
  BY FrameTypes
<1>2. \A t \in Streams : t # s => sent1[t] = sent[t]
  OBVIOUS
<1>3. IsRequest(Headers(s), s) /\ \A t \in Streams : IsRequest(Headers(s), t) => t = s
  BY DEF IsRequest, Headers
<1>4. \A i \in 1 .. Len(q) : q[i].of # s
  BY DEF In
<1> HIDE DEF p, sent1
<1>5. FirstOK(p, sent1, heard)
  <2>1. ASSUME NEW t \in Streams, NEW i \in 1 .. Len(p), NEW j \in 1 .. Len(p), IsRequest(p[i], t)
        PROVE  heard[t] = "idle" /\ (p[j].of = t => i <= j)
    <3>1. CASE i \in 1 .. Len(q)
      <4>1. heard[t] = "idle" /\ \A k \in 1 .. Len(q) : q[k].of = t => i <= k
        BY <1>1, <2>1, <3>1 DEF FirstOK
      <4> QED
        BY <1>1, <3>1, <4>1
    <3>2. CASE i = Len(p)
      <4>1. t = s
        BY <1>1, <1>3, <2>1, <3>2
      <4> QED
        BY <1>1, <1>4, <3>2, <4>1
    <3> QED
      BY <1>1, <3>1, <3>2
  <2>2. ASSUME NEW t \in Streams, heard[t] = "idle", sent1[t] \notin Unsent
        PROVE  \E i \in 1 .. Len(p) : IsRequest(p[i], t)
    <3>1. CASE t = s
      <4>1. Len(p) \in 1 .. Len(p) /\ IsRequest(p[Len(p)], t)
        BY <1>1, <1>3, <3>1
      <4> QED
        BY <4>1
    <3>2. CASE t # s
      <4>1. PICK i \in 1 .. Len(q) : IsRequest(q[i], t)
        BY <1>2, <2>2, <3>2 DEF FirstOK
      <4> QED
        BY <1>1, <4>1
    <3> QED
      BY <3>1, <3>2
  <2> QED
    BY <2>1, <2>2 DEF FirstOK
<1> QED
  BY <1>5 DEF p, sent1

(* What is not a request is of a stream that has been heard of.            *)
LEMMA FirstHead ==
  ASSUME NEW q \in Seq(Frames), q # <<>>, NEW sent, NEW heard, FirstOK(q, sent, heard),
         NEW s \in Streams, Head(q).of = s, Head(q).kind # "HEADERS", sent[s] \notin Unsent
  PROVE  heard[s] # "idle"
<1> SUFFICES ASSUME heard[s] = "idle" PROVE FALSE
  OBVIOUS
<1>1. PICK i \in 1 .. Len(q) : IsRequest(q[i], s)
  BY DEF FirstOK
<1>2. 1 \in 1 .. Len(q) /\ Head(q) = q[1]
  OBVIOUS
<1>3. i <= 1
  BY <1>1, <1>2 DEF FirstOK
<1> QED
  BY <1>1, <1>2, <1>3 DEF IsRequest

LEMMA FirstTail ==
  ASSUME NEW q \in Seq(Frames), q # <<>>, NEW sent, NEW heard, FirstOK(q, sent, heard),
         NEW heard1, \A t \in Streams : heard1[t] = "idle" => heard[t] = "idle",
         \A t \in Streams : IsRequest(Head(q), t) => heard1[t] # "idle",
         \A t \in Streams : ~IsRequest(Head(q), t) => heard1[t] = heard[t] \/ heard[t] # "idle"
  PROVE  FirstOK(Tail(q), sent, heard1)
<1> DEFINE p == Tail(q)
<1>1. /\ Len(p) \in Nat /\ Len(q) = Len(p) + 1 /\ Head(q) = q[1]
      /\ \A i \in 1 .. Len(p) : p[i] = q[i + 1]
      /\ \A i \in 1 .. Len(p) : i + 1 \in 1 .. Len(q)
      /\ \A i \in 1 .. Len(q) : i # 1 => i - 1 \in 1 .. Len(p) /\ (i - 1) + 1 = i
  OBVIOUS
<1> HIDE DEF p
<1>2. FirstOK(p, sent, heard1)
  <2>1. ASSUME NEW s \in Streams, NEW i \in 1 .. Len(p), NEW j \in 1 .. Len(p), IsRequest(p[i], s)
        PROVE  heard1[s] = "idle" /\ (p[j].of = s => i <= j)
    <3>1. IsRequest(q[i + 1], s) /\ i + 1 \in 1 .. Len(q) /\ 1 \in 1 .. Len(q)
      BY <1>1, <2>1
    <3>2. heard[s] = "idle" /\ \A k \in 1 .. Len(q) : q[k].of = s => i + 1 <= k
      BY <3>1 DEF FirstOK
    <3>3. ~IsRequest(Head(q), s)
      BY <1>1, <3>1, <3>2 DEF IsRequest
    <3>4. p[j].of = s => i + 1 <= j + 1
      BY <1>1, <3>2
    <3> QED
      BY <3>2, <3>3, <3>4
  <2>2. ASSUME NEW s \in Streams, heard1[s] = "idle", sent[s] \notin Unsent
        PROVE  \E i \in 1 .. Len(p) : IsRequest(p[i], s)
    <3>1. PICK i \in 1 .. Len(q) : IsRequest(q[i], s)
      BY <2>2 DEF FirstOK
    <3>2. i # 1
      BY <1>1, <2>2, <3>1
    <3>3. i - 1 \in 1 .. Len(p) /\ IsRequest(p[i - 1], s)
      BY <1>1, <3>1, <3>2
    <3> QED
      BY <3>3
  <2> QED
    BY <2>1, <2>2 DEF FirstOK
<1> QED
  BY <1>2 DEF p

LEMMA SenderOrder ==
  ASSUME OrderInv, UNCHANGED <<rstate, rqueue>>,
         In(toSender') \subseteq In(toSender), FirstOK(toSender', rstate, sstate'),
         \A f \in In(toReceiver') :
           f \in In(toReceiver) \/ \A s \in Streams : f.of = s => sstate'[s] # "idle",
         \A s \in Streams : sstate'[s] = "idle" => sstate[s] = "idle" /\ s \notin squeue'.syn,
         \A s \in Streams : rstate[s] \in Unsent => sstate'[s] = "idle"
  PROVE  OrderInv'
<1>1. NotYet'
  BY DEF OrderInv, NotYet
<1>2. Requests' /\ Urgent'
  BY DEF OrderInv, Requests, Urgent, In
<1>3. Unheard'
  BY DEF OrderInv, Unheard
<1>4. First'
  BY DEF First
<1> QED
  BY <1>1, <1>2, <1>3, <1>4 DEF OrderInv

LEMMA ReceiverOrder ==
  ASSUME OrderInv, UNCHANGED <<sstate, squeue>>,
         In(toReceiver') \subseteq In(toReceiver), FirstOK(toSender', rstate', sstate),
         \A s \in Streams : rstate'[s] \in Unsent => rstate[s] \in Unsent /\ s \notin rqueue'.syn,
         \A f \in In(toSender') :
           f \in In(toSender) \/ \A s \in Streams : f.of = s => rstate'[s] \notin Unsent,
         \A f \in In(rqueue'.reg) :
           \/ /\ f \in In(rqueue.reg)
              /\ f.kind = "HEADERS" /\ rstate[f.of] = "queued" => rstate'[f.of] = "queued"
           \/ /\ f.kind = "HEADERS" => rstate'[f.of] = "queued"
              /\ f.kind # "HEADERS" => \A s \in Streams : f.of = s => rstate'[s] \notin Unsent,
         \A f \in In(rqueue'.urgent) : f \in In(rqueue.urgent) \/ (f.kind = "SETTINGS" /\ f.of = Conn)
  PROVE  OrderInv'
<1>1. NotYet'
  BY DEF OrderInv, NotYet
<1>2. Requests'
  BY DEF OrderInv, Requests
<1>3. Urgent'
  BY DEF OrderInv, Urgent
<1>4. Unheard'
  BY DEF OrderInv, Unheard
<1>5. First'
  BY DEF First
<1> QED
  BY <1>1, <1>2, <1>3, <1>4, <1>5 DEF OrderInv

LEMMA OrderFields ==
  ASSUME FlowInv
  PROVE  /\ rqueue.urgent \in Seq(Frames) /\ rqueue.reg \in Seq(Frames)
         /\ toSender \in Seq(Frames) /\ toReceiver \in Seq(Frames)
         /\ rstate \in [Streams -> States] /\ sstate \in [Streams -> States]
         /\ rqueue \in QueueTypes /\ squeue \in [acks : Nat, syn : SUBSET Streams]
         /\ rqueue.syn \subseteq Streams /\ auto \in BOOLEAN
         /\ window \in [Accounts -> Window] /\ remote \in [Accounts -> Width]
         /\ peerInitial \in Sizes /\ lastInitial \in Sizes
         /\ In(rqueue.reg) \subseteq Frames /\ In(toSender) \subseteq Frames
         /\ In(toReceiver) \subseteq Frames
BY InvFields, InFrames DEF FlowInv, SenderInv, SenderTypes, OtherTypes, ReceiverInv, ReceiverTypes

(* A reset leaves what was not open, and resets what was.                  *)
LEMMA ResetOrder ==
  ASSUME NEW state \in [Streams -> States], NEW S
  PROVE  \A s \in Streams :
           /\ ResetState(state, S)[s] = state[s]
              \/ (s \in S /\ Known(state, s) /\ ResetState(state, S)[s] = "closing")
           /\ ResetState(state, S)[s] \in Unsent <=> state[s] \in Unsent
           /\ ResetState(state, S)[s] = "idle" <=> state[s] = "idle"
           /\ ResetState(state, S)[s] = "queued" <=> state[s] = "queued"
           /\ ResetState(state, S)[s] = "open" => state[s] = "open" /\ s \notin S
BY DEF ResetState, Known, Unsent

LEMMA ResetQueued ==
  ASSUME NEW state, NEW S, NEW q
  PROVE  \A s \in ResetQueue(q, state, S) : s \in q \/ (s \in S /\ state[s] = "open")
BY DEF ResetQueue

(* A call that only queues frames that are no requests.                    *)
LEMMA QueuedOrder ==
  ASSUME FlowInv, OrderInv, UNCHANGED <<sstate, squeue, toSender>>,
         In(toReceiver') \subseteq In(toReceiver),
         \A s \in Streams : /\ rstate'[s] \in Unsent <=> rstate[s] \in Unsent
                            /\ rstate[s] = "queued" => rstate'[s] = "queued",
         \A s \in rqueue'.syn : s \in rqueue.syn \/ rstate[s] \notin Unsent,
         \A f \in In(rqueue'.reg) : f \in In(rqueue.reg) \/
           (f.kind # "HEADERS" /\ \A s \in Streams : f.of = s => rstate[s] \notin Unsent),
         In(rqueue'.urgent) \subseteq In(rqueue.urgent)
  PROVE  OrderInv'
<1>1. FirstOK(toSender', rstate', sstate)
  <2>1. FirstOK(toSender, rstate, sstate)
    BY DEF OrderInv, First
  <2>2. FirstOK(toSender, rstate', sstate)
    BY <2>1, FirstState
  <2> QED
    BY <2>2
<1>2. \A s \in Streams : rstate'[s] \in Unsent => rstate[s] \in Unsent /\ s \notin rqueue'.syn
  BY DEF OrderInv, NotYet
<1>3. \A f \in In(rqueue'.reg) :
           \/ /\ f \in In(rqueue.reg)
              /\ f.kind = "HEADERS" /\ rstate[f.of] = "queued" => rstate'[f.of] = "queued"
           \/ /\ f.kind = "HEADERS" => rstate'[f.of] = "queued"
              /\ f.kind # "HEADERS" => \A s \in Streams : f.of = s => rstate'[s] \notin Unsent
  <2> SUFFICES ASSUME NEW f \in In(rqueue'.reg), f \in In(rqueue.reg), f.kind = "HEADERS"
               PROVE  rstate[f.of] = "queued" => rstate'[f.of] = "queued"
    OBVIOUS
  <2>1. f \in Frames
    BY OrderFields
  <2>2. f.of \in Streams
    BY <2>1, FrameFields
  <2> QED
    BY <2>2
<1> QED
  BY <1>1, <1>2, <1>3, ReceiverOrder

LEMMA SubmitRequestOrder ==
  ASSUME FlowInv, OrderInv, NEW s \in Streams, SubmitRequest(s)
  PROVE  OrderInv'
<1>1. /\ rstate[s] = "idle" /\ rstate' = [rstate EXCEPT ![s] = "queued"]
      /\ rqueue' = [rqueue EXCEPT !.reg = Append(@, Headers(s))]
      /\ UNCHANGED <<sstate, squeue, toSender, toReceiver>>
  BY DEF SubmitRequest, sender
<1>2. /\ \A t \in Streams : rstate'[t] = IF t = s THEN "queued" ELSE rstate[t]
      /\ rqueue'.reg = Append(rqueue.reg, Headers(s)) /\ rqueue'.syn = rqueue.syn
      /\ rqueue'.urgent = rqueue.urgent
  BY <1>1, OrderFields DEF QueueTypes
<1>3. In(rqueue'.reg) = In(rqueue.reg) \cup {Headers(s)}
  BY <1>2, OrderFields, FrameTypes, InAppend
<1>4. FirstOK(toSender', rstate', sstate)
  <2>1. FirstOK(toSender, rstate, sstate)
    BY DEF OrderInv, First
  <2>2. \A t \in Streams : rstate'[t] \notin Unsent => rstate[t] \notin Unsent
    BY <1>1, <1>2 DEF Unsent
  <2>3. FirstOK(toSender, rstate', sstate)
    BY <2>1, <2>2, FirstState
  <2> QED
    BY <1>1, <2>3
<1>5. \A t \in Streams : rstate'[t] \in Unsent => rstate[t] \in Unsent /\ t \notin rqueue'.syn
  BY <1>1, <1>2 DEF OrderInv, NotYet, Unsent
<1>6. \A f \in In(rqueue'.reg) :
           \/ /\ f \in In(rqueue.reg)
              /\ f.kind = "HEADERS" /\ rstate[f.of] = "queued" => rstate'[f.of] = "queued"
           \/ /\ f.kind = "HEADERS" => rstate'[f.of] = "queued"
              /\ f.kind # "HEADERS" => \A t \in Streams : f.of = t => rstate'[t] \notin Unsent
  <2> SUFFICES ASSUME NEW f \in In(rqueue'.reg)
               PROVE  \/ f \in In(rqueue.reg) /\ (f.kind = "HEADERS" => rstate'[f.of] = "queued")
                      \/ f.kind = "HEADERS" /\ rstate'[f.of] = "queued"
                      \/ f \in In(rqueue.reg) /\ f.kind # "HEADERS"
    OBVIOUS
  <2>1. CASE f = Headers(s)
    <3>1. f.kind = "HEADERS" /\ f.of = s
      BY <2>1 DEF Headers
    <3> QED
      BY <1>2, <3>1
  <2>2. CASE f \in In(rqueue.reg) /\ f.kind = "HEADERS"
    <3>1. f.of \in Streams /\ rstate[f.of] = "queued"
      BY <2>2, OrderFields, FrameFields DEF OrderInv, Requests
    <3> QED
      BY <1>2, <2>2, <3>1
  <2> QED
    BY <1>3, <2>1, <2>2
<1>7. In(rqueue'.urgent) \subseteq In(rqueue.urgent) /\ In(toReceiver') \subseteq In(toReceiver)
      /\ In(toSender') \subseteq In(toSender)
  BY <1>1, <1>2
<1> QED
  BY <1>1, <1>4, <1>5, <1>6, <1>7, ReceiverOrder

LEMMA SubmitSettingsOrder ==
  ASSUME FlowInv, OrderInv, NEW v \in Initials, SubmitSettings(v)
  PROVE  OrderInv'
<1>1. /\ rqueue' = [rqueue EXCEPT !.urgent = Append(@, Settings(v))]
      /\ UNCHANGED <<sstate, squeue, toSender, toReceiver, rstate>>
  BY DEF SubmitSettings, sender
<1>2. rqueue'.reg = rqueue.reg /\ rqueue'.syn = rqueue.syn
      /\ rqueue'.urgent = Append(rqueue.urgent, Settings(v))
  BY <1>1, OrderFields DEF QueueTypes
<1>3. In(rqueue'.urgent) = In(rqueue.urgent) \cup {Settings(v)}
  BY <1>2, OrderFields, FrameTypes, FlowAssumption, InAppend
<1>4. FirstOK(toSender', rstate', sstate)
  BY <1>1 DEF OrderInv, First
<1>5. \A t \in Streams : rstate'[t] \in Unsent => rstate[t] \in Unsent /\ t \notin rqueue'.syn
  BY <1>1, <1>2 DEF OrderInv, NotYet
<1>6. \A f \in In(rqueue'.urgent) : f \in In(rqueue.urgent) \/ (f.kind = "SETTINGS" /\ f.of = Conn)
  BY <1>3 DEF Settings
<1> QED
  BY <1>1, <1>2, <1>4, <1>5, <1>6, ReceiverOrder

LEMMA UsableSent ==
  ASSUME NEW a \in Usable
  PROVE  a \in Accounts /\ \A s \in Streams : a = s => rstate[s] \notin Unsent
BY Conns DEF Usable, Known, Unsent, Accounts

(* An increment of a usable window is queued.                              *)
LEMMA ChangeOrder ==
  ASSUME FlowInv, OrderInv, NEW a, NEW r, r.grant \in Nat, Change(a, r)
  PROVE  OrderInv'
<1>1. /\ a \in Usable /\ rqueue' = [rqueue EXCEPT !.reg = Queued(@, a, r.grant)]
      /\ UNCHANGED <<sstate, squeue, toSender, toReceiver, rstate>>
  BY DEF Change, sender
<1>2. rqueue'.reg = Queued(rqueue.reg, a, r.grant) /\ rqueue'.syn = rqueue.syn
      /\ rqueue'.urgent = rqueue.urgent
  BY <1>1, OrderFields DEF QueueTypes
<1>3. In(rqueue'.reg) \subseteq In(rqueue.reg) \cup {Update(a, r.grant)}
  BY <1>1, <1>2, OrderFields, UsableSent, InQueued
<1>4. \A f \in In(rqueue'.reg) : f \in In(rqueue.reg) \/
           (f.kind # "HEADERS" /\ \A s \in Streams : f.of = s => rstate[s] \notin Unsent)
  <2> SUFFICES ASSUME NEW f \in In(rqueue'.reg), f \notin In(rqueue.reg)
               PROVE  f.kind # "HEADERS" /\ \A s \in Streams : f.of = s => rstate[s] \notin Unsent
    OBVIOUS
  <2>1. f.kind = "WINDOW_UPDATE" /\ f.of = a
    BY <1>3 DEF Update
  <2> QED
    BY <1>1, <2>1, UsableSent
<1>5. \A s \in rqueue'.syn : s \in rqueue.syn \/ rstate[s] \notin Unsent
  BY <1>2
<1> QED
  BY <1>1, <1>2, <1>4, <1>5, QueuedOrder

LEMMA SetLocalWindowSizeOrder ==
  ASSUME FlowInv, OrderInv, NEW a \in Tuned, NEW size \in NewSizes, SetLocalWindowSize(a, size)
  PROVE  OrderInv'
<1>1. size \in Sizes /\ window[a] \in Window
  BY FlowAssumption, OrderFields
<1>2. SetSize(window[a], size).grant \in Nat
  BY <1>1, SetSizeSound
<1> QED
  BY <1>2, ChangeOrder DEF SetLocalWindowSize

LEMMA SubmitWindowUpdateOrder ==
  ASSUME FlowInv, OrderInv, NEW a \in Tuned, NEW i \in Increments, SubmitWindowUpdate(a, i)
  PROVE  OrderInv'
<1> DEFINE r == IF i > 0 THEN Grant(window[a], i) ELSE Shrink(window[a], -i)
<1>1. i \in Int /\ i # 0 /\ window[a] \in Window /\ Change(a, r)
  BY FlowAssumption, OrderFields DEF SubmitWindowUpdate
<1>2. r.grant \in Nat
  <2>1. CASE i > 0
    BY <1>1, <2>1, GrantSound
  <2>2. CASE ~(i > 0)
    <3>1. -i \in Nat
      BY <1>1, <2>2
    <3> QED
      BY <1>1, <2>2, <3>1, ShrinkSound
  <2> QED
    BY <2>1, <2>2
<1> HIDE DEF r
<1> QED
  BY <1>1, <1>2, ChangeOrder

LEMMA ConsumeOrder ==
  ASSUME FlowInv, OrderInv, NEW s \in Streams, NEW n \in 1 .. Body, Consume(s, n)
  PROVE  OrderInv'
<1> DEFINE c == Consumed(window[Conn], n)
           r == IF Known(rstate, s) THEN Consumed(window[s], n) ELSE Result(window[s], 0)
           p == Queued(rqueue.reg, Conn, c.grant)
<1>1. /\ rqueue' = [rqueue EXCEPT !.reg = Queued(p, s, r.grant)]
      /\ UNCHANGED <<sstate, squeue, toSender, toReceiver, rstate>>
  BY DEF Consume, sender
<1>2. n \in Nat /\ window[Conn] \in Window /\ window[s] \in Window
  BY FlowAssumption, OrderFields, Conns
<1>3. c.grant \in Nat
  BY <1>2, ConsumedSound
<1>4. r.grant \in Nat /\ (~Known(rstate, s) => r.grant = 0)
  BY <1>2, ConsumedSound DEF Result
<1> HIDE DEF c, r
<1>5. In(p) \subseteq In(rqueue.reg) \cup {Update(Conn, c.grant)} /\ p \in Seq(Frames)
  BY <1>3, OrderFields, Conns, InQueued
<1>6. In(Queued(p, s, r.grant)) \subseteq In(p) \cup {Update(s, r.grant)}
  BY <1>4, <1>5, Conns, InQueued
<1>7. ~Known(rstate, s) => Queued(p, s, r.grant) = p
  BY <1>4 DEF Queued
<1> HIDE DEF p
<1>8. rqueue'.reg = Queued(p, s, r.grant) /\ rqueue'.syn = rqueue.syn
      /\ rqueue'.urgent = rqueue.urgent
  BY <1>1, OrderFields DEF QueueTypes
<1>9. \A f \in In(rqueue'.reg) : f \in In(rqueue.reg) \/
           (f.kind # "HEADERS" /\ \A t \in Streams : f.of = t => rstate[t] \notin Unsent)
  <2>1. Known(rstate, s) => rstate[s] \notin Unsent
    BY DEF Known, Unsent
  <2> SUFFICES ASSUME NEW f \in In(rqueue'.reg), f \notin In(rqueue.reg)
               PROVE  f.kind # "HEADERS" /\ \A t \in Streams : f.of = t => rstate[t] \notin Unsent
    OBVIOUS
  <2>2. f = Update(Conn, c.grant) \/ (f = Update(s, r.grant) /\ Known(rstate, s))
    BY <1>5, <1>6, <1>7, <1>8
  <2>3. f.kind = "WINDOW_UPDATE" /\ (f.of = Conn \/ (f.of = s /\ Known(rstate, s)))
    BY <2>2 DEF Update
  <2> QED
    BY <2>1, <2>3, Conns
<1>10. \A t \in rqueue'.syn : t \in rqueue.syn \/ rstate[t] \notin Unsent
  BY <1>8
<1> QED
  BY <1>1, <1>8, <1>9, <1>10, QueuedOrder

LEMMA CancelOrder ==
  ASSUME FlowInv, OrderInv, NEW s \in Streams, Cancel(s)
  PROVE  OrderInv'
<1>1. /\ rstate[s] = "open" /\ rstate' = ResetState(rstate, {s})
      /\ rqueue' = [rqueue EXCEPT !.syn = @ \cup {s}]
      /\ UNCHANGED <<sstate, squeue, toSender, toReceiver>>
  BY DEF Cancel, sender
<1>2. rqueue'.reg = rqueue.reg /\ rqueue'.syn = rqueue.syn \cup {s}
      /\ rqueue'.urgent = rqueue.urgent
  BY <1>1, OrderFields DEF QueueTypes
<1>3. \A t \in Streams : /\ rstate'[t] \in Unsent <=> rstate[t] \in Unsent
                         /\ rstate[t] = "queued" => rstate'[t] = "queued"
  BY <1>1, OrderFields, ResetOrder
<1>4. \A t \in rqueue'.syn : t \in rqueue.syn \/ rstate[t] \notin Unsent
  BY <1>1, <1>2 DEF Unsent
<1>5. \A f \in In(rqueue'.reg) : f \in In(rqueue.reg)
  BY <1>2
<1> QED
  BY <1>1, <1>2, <1>3, <1>4, <1>5, QueuedOrder

LEMMA SendSettingsOrder ==
  ASSUME FlowInv, OrderInv, SendSettings
  PROVE  OrderInv'
<1> DEFINE f == Head(rqueue.urgent)
<1>1. /\ rqueue.urgent # <<>> /\ rqueue' = [rqueue EXCEPT !.urgent = Tail(@)]
      /\ toSender' = Append(toSender, f)
      /\ UNCHANGED <<sstate, squeue, toReceiver, rstate>>
  BY DEF SendSettings, sender
<1>2. rqueue'.reg = rqueue.reg /\ rqueue'.syn = rqueue.syn /\ rqueue'.urgent = Tail(rqueue.urgent)
  BY <1>1, OrderFields DEF QueueTypes
<1>3. f \in Frames /\ f \in In(rqueue.urgent) /\ In(rqueue'.urgent) \subseteq In(rqueue.urgent)
  BY <1>1, <1>2, OrderFields, InTail
<1>4. f.kind = "SETTINGS" /\ f.of = Conn
  BY <1>3 DEF OrderInv, Urgent
<1> HIDE DEF f
<1>5. FirstOK(toSender', rstate', sstate)
  BY <1>1, <1>3, <1>4, OrderFields, FirstAppend DEF OrderInv, First
<1>6. \A g \in In(toSender') :
           g \in In(toSender) \/ \A s \in Streams : g.of = s => rstate'[s] \notin Unsent
  BY <1>1, <1>3, <1>4, OrderFields, InAppend, Conns
<1>7. \A t \in Streams : rstate'[t] \in Unsent => rstate[t] \in Unsent /\ t \notin rqueue'.syn
  BY <1>1, <1>2 DEF OrderInv, NotYet
<1> QED
  BY <1>1, <1>2, <1>3, <1>5, <1>6, <1>7, ReceiverOrder

LEMMA SendRequestOrder ==
  ASSUME FlowInv, OrderInv, SendRequest
  PROVE  OrderInv'
<1> DEFINE f == Head(rqueue.reg)
           s == f.of
<1>1. /\ rqueue.reg # <<>> /\ f.kind = "HEADERS" /\ rstate' = [rstate EXCEPT ![s] = "open"]
      /\ rqueue' = [rqueue EXCEPT !.reg = Tail(@)]
      /\ toSender' = Append(toSender, f)
      /\ UNCHANGED <<sstate, squeue, toReceiver>>
  BY DEF SendRequest, RegTurn, sender
<1>2. rqueue'.urgent = rqueue.urgent /\ rqueue'.syn = rqueue.syn /\ rqueue'.reg = Tail(rqueue.reg)
  BY <1>1, OrderFields DEF QueueTypes
<1>3. f \in Frames /\ f \in In(rqueue.reg) /\ In(rqueue'.reg) \subseteq In(rqueue.reg)
  BY <1>1, <1>2, OrderFields, InTail
<1>4. s \in Streams /\ rstate[s] = "queued"
  BY <1>1, <1>3, FrameFields DEF OrderInv, Requests
<1>5. sstate[s] = "idle" /\ s \notin rqueue.syn /\ \A g \in In(toSender) : g.of # s
  BY <1>4 DEF OrderInv, NotYet, Unsent
<1>6. FirstOK(toSender', rstate', sstate)
  <2> DEFINE p == Append(toSender, f)
             sent == [rstate EXCEPT ![s] = "open"]
  <2>1. /\ toSender \in Seq(Frames) /\ rstate \in [Streams -> States]
        /\ FirstOK(toSender, rstate, sstate)
    BY OrderFields DEF OrderInv, First
  <2>2. FirstOK(Append(toSender, Headers(s)), sent, sstate)
    BY <1>4, <1>5, <2>1, FirstRequest
  <2> HIDE DEF f
  <2>3. /\ Len(toSender) \in Nat /\ Len(p) = Len(toSender) + 1 /\ p[Len(p)] = f
        /\ \A i \in 1 .. Len(toSender) : p[i] = toSender[i]
        /\ \A i \in 1 .. Len(p) : i \in 1 .. Len(toSender) \/ i = Len(p)
    BY <1>3, <2>1
  <2>4. Len(Append(toSender, Headers(s))) = Len(p)
        /\ \A i \in 1 .. Len(p) :
             /\ Append(toSender, Headers(s))[i].kind = p[i].kind
             /\ Append(toSender, Headers(s))[i].of = p[i].of
    <3>1. /\ Len(Append(toSender, Headers(s))) = Len(toSender) + 1
          /\ Append(toSender, Headers(s))[Len(toSender) + 1] = Headers(s)
          /\ \A i \in 1 .. Len(toSender) : Append(toSender, Headers(s))[i] = toSender[i]
      BY <1>4, <2>1, FrameTypes
    <3>2. Headers(s).kind = f.kind /\ Headers(s).of = f.of
      BY <1>1 DEF Headers
    <3> HIDE DEF p
    <3> QED
      BY <2>3, <3>1, <3>2
  <2> HIDE DEF p, sent
  <2>5. FirstOK(p, sent, sstate)
    BY <2>2, <2>4 DEF FirstOK, IsRequest
  <2> QED
    BY <1>1, <2>5 DEF p, sent
<1>7. \A t \in Streams : rstate'[t] = IF t = s THEN "open" ELSE rstate[t]
  BY <1>1, OrderFields
<1>8. \A g \in In(toSender') :
           g \in In(toSender) \/ \A t \in Streams : g.of = t => rstate'[t] \notin Unsent
  <2>1. In(toSender') = In(toSender) \cup {f}
    BY <1>1, <1>3, OrderFields, InAppend
  <2>2. "open" \notin Unsent
    BY DEF Unsent
  <2> HIDE DEF f
  <2> QED
    BY <1>7, <2>1, <2>2
<1>9. \A t \in Streams : rstate'[t] \in Unsent => rstate[t] \in Unsent /\ t \notin rqueue'.syn
  <2>1. "open" \notin Unsent
    BY DEF Unsent
  <2> QED
    BY <1>2, <1>7, <2>1 DEF OrderInv, NotYet
<1>10. \A g \in In(rqueue'.reg) : g.kind = "HEADERS" => rstate'[g.of] = "queued"
  <2>1. RegOK(rqueue.reg, rstate, held) /\ rstate \in [Streams -> States] /\ rqueue.reg # <<>>
    BY <1>1, InvFields
  <2>2. RegOK(Tail(rqueue.reg), rstate', held)
    BY <1>1, <2>1, RegSent
  <2>3. rstate'[s] \notin Waiting
    BY <1>4, <1>7 DEF Waiting
  <2> SUFFICES ASSUME NEW g \in In(rqueue'.reg), g.kind = "HEADERS" PROVE rstate'[g.of] = "queued"
    OBVIOUS
  <2>4. g.of # s
    <3>1. PICK i \in 1 .. Len(Tail(rqueue.reg)) : g = Tail(rqueue.reg)[i]
      BY <1>2 DEF In
    <3>2. rstate'[g.of] \in Waiting
      BY <2>2, <3>1 DEF RegOK
    <3> QED
      BY <2>3, <3>2
  <2>5. g \in In(rqueue.reg) /\ g \in Frames
    BY <1>3, OrderFields
  <2>6. g.of \in Streams /\ rstate[g.of] = "queued"
    BY <2>5, FrameFields DEF OrderInv, Requests
  <2> QED
    BY <1>7, <2>4, <2>6
<1>11. \A g \in In(rqueue'.reg) :
           \/ /\ g \in In(rqueue.reg)
              /\ g.kind = "HEADERS" /\ rstate[g.of] = "queued" => rstate'[g.of] = "queued"
           \/ /\ g.kind = "HEADERS" => rstate'[g.of] = "queued"
              /\ g.kind # "HEADERS" => \A t \in Streams : g.of = t => rstate'[t] \notin Unsent
  BY <1>3, <1>10
<1>12. In(toReceiver') \subseteq In(toReceiver) /\ UNCHANGED <<sstate, squeue>>
       /\ \A g \in In(rqueue'.urgent) : g \in In(rqueue.urgent)
  BY <1>1, <1>2
<1> HIDE DEF f, s
<1> QED
  BY <1>6, <1>8, <1>9, <1>11, <1>12, ReceiverOrder

LEMMA SendRstOrder ==
  ASSUME FlowInv, OrderInv, NEW s \in Streams, SendRst(s)
  PROVE  OrderInv'
<1>1. /\ s \in rqueue.syn /\ rstate' = [rstate EXCEPT ![s] = "closed"]
      /\ toSender' = Append(toSender, Rst(s))
      /\ rqueue' = [rqueue EXCEPT !.syn = @ \ {s}] /\ rqueue.reg = <<>>
      /\ UNCHANGED <<sstate, squeue, toReceiver>>
  BY DEF SendRst, sender
<1>2. rqueue'.urgent = rqueue.urgent /\ rqueue'.syn = rqueue.syn \ {s} /\ rqueue'.reg = rqueue.reg
  BY <1>1, OrderFields DEF QueueTypes
<1>3. rstate[s] \notin Unsent
  BY <1>1 DEF OrderInv, NotYet
<1>4. \A t \in Streams : rstate'[t] = IF t = s THEN "closed" ELSE rstate[t]
  BY <1>1, OrderFields
<1>5. "closed" \notin Unsent
  BY DEF Unsent
<1>6. FirstOK(toSender', rstate', sstate)
  <2>1. FirstOK(toSender, rstate, sstate)
    BY DEF OrderInv, First
  <2>2. \A t \in Streams : rstate'[t] \notin Unsent => rstate[t] \notin Unsent
    BY <1>3, <1>4
  <2>3. FirstOK(toSender, rstate', sstate)
    BY <2>1, <2>2, FirstState
  <2>4. Rst(s) \in Frames /\ Rst(s).kind # "HEADERS"
    BY FrameTypes DEF Rst
  <2> QED
    BY <1>1, <2>3, <2>4, OrderFields, FirstAppend
<1>7. \A g \in In(toSender') :
           g \in In(toSender) \/ \A t \in Streams : g.of = t => rstate'[t] \notin Unsent
  <2>1. In(toSender') = In(toSender) \cup {Rst(s)} /\ Rst(s).of = s
    BY <1>1, OrderFields, FrameTypes, InAppend DEF Rst
  <2> QED
    BY <1>4, <1>5, <2>1
<1>8. \A t \in Streams : rstate'[t] \in Unsent => rstate[t] \in Unsent /\ t \notin rqueue'.syn
  BY <1>2, <1>4, <1>5 DEF OrderInv, NotYet
<1>9. In(rqueue'.reg) = {}
  BY <1>1, <1>2, InEmpty
<1> QED
  BY <1>1, <1>2, <1>6, <1>7, <1>8, <1>9, ReceiverOrder

LEMMA SendUpdateOrder ==
  ASSUME FlowInv, OrderInv, SendUpdate
  PROVE  OrderInv'
<1> DEFINE f == Head(rqueue.reg)
           a == f.of
           r == UpdateSent(window[a])
           send == a = Conn \/ rstate[a] = "open"
           reset == IF r.ok \/ a = Conn \/ ~send THEN {} ELSE {a}
           p == IF send THEN Queued(Tail(rqueue.reg), a, r.grant) ELSE Tail(rqueue.reg)
           S == ResetQueue(rqueue.syn, rstate, reset)
<1>1. /\ rqueue.reg # <<>> /\ f.kind = "WINDOW_UPDATE" /\ rstate' = ResetState(rstate, reset)
      /\ rqueue' = Requeued(rqueue, p, S)
      /\ toSender' = IF send THEN Append(toSender, f) ELSE toSender
      /\ UNCHANGED <<sstate, squeue, toReceiver>>
  BY DEF SendUpdate, RegTurn, sender, Requeued
<1>2. f \in Frames /\ f \in In(rqueue.reg) /\ Tail(rqueue.reg) \in Seq(Frames)
      /\ In(Tail(rqueue.reg)) \subseteq In(rqueue.reg)
  BY <1>1, OrderFields, InTail
<1>3. a \in Accounts /\ window[a] \in Window
  BY <1>2, FrameFields, OrderFields
<1> HIDE DEF f, a
<1>4. r.grant \in Nat
  BY <1>3, OrderFields, UpdateSentSound
<1> HIDE DEF r
<1>5. rqueue'.urgent = rqueue.urgent /\ rqueue'.syn = S /\ rqueue'.reg = p
  BY <1>1, OrderFields DEF QueueTypes, Requeued
<1>6. In(p) \subseteq In(rqueue.reg) \cup (IF send THEN {Update(a, r.grant)} ELSE {})
  BY <1>2, <1>3, <1>4, InQueued
<1> HIDE DEF p
<1>7. send => \A t \in Streams : a = t => rstate[t] \notin Unsent
  BY Conns DEF Unsent
<1> HIDE DEF send
<1>8. \A t \in S : t \in rqueue.syn \/ rstate[t] \notin Unsent
  BY ResetQueued DEF Unsent
<1> HIDE DEF S, reset
<1>9. \A t \in Streams : /\ rstate'[t] \in Unsent <=> rstate[t] \in Unsent
                         /\ rstate[t] = "queued" => rstate'[t] = "queued"
  <2>1. rstate \in [Streams -> States] /\ rstate' = ResetState(rstate, reset)
    BY <1>1, OrderFields
  <2>2. \A t \in Streams : /\ ResetState(rstate, reset)[t] \in Unsent <=> rstate[t] \in Unsent
                           /\ ResetState(rstate, reset)[t] = "queued" <=> rstate[t] = "queued"
    BY <2>1, ResetOrder
  <2> QED
    BY <2>1, <2>2
<1>10. FirstOK(toSender', rstate', sstate)
  <2>1. FirstOK(toSender, rstate, sstate)
    BY DEF OrderInv, First
  <2>2. FirstOK(toSender, rstate', sstate)
    BY <2>1, <1>9, FirstState
  <2> QED
    BY <1>1, <1>2, <2>2, OrderFields, FirstAppend
<1>11. \A g \in In(toSender') :
           g \in In(toSender) \/ \A t \in Streams : g.of = t => rstate'[t] \notin Unsent
  <2>1. In(toSender') \subseteq In(toSender) \cup (IF send THEN {f} ELSE {})
    BY <1>1, <1>2, OrderFields, InAppend
  <2>2. f.of = a
    BY DEF a
  <2> QED
    BY <1>7, <1>9, <2>1, <2>2
<1>12. \A g \in In(rqueue'.reg) :
           \/ /\ g \in In(rqueue.reg)
              /\ g.kind = "HEADERS" /\ rstate[g.of] = "queued" => rstate'[g.of] = "queued"
           \/ /\ g.kind = "HEADERS" => rstate'[g.of] = "queued"
              /\ g.kind # "HEADERS" => \A t \in Streams : g.of = t => rstate'[t] \notin Unsent
  <2> SUFFICES ASSUME NEW g \in In(p)
               PROVE  \/ g \in In(rqueue.reg) /\ (g.kind = "HEADERS" => g.of \in Streams)
                      \/ g.kind # "HEADERS" /\ \A t \in Streams : g.of = t => rstate'[t] \notin Unsent
    BY <1>5, <1>9
  <2>1. CASE g \in In(rqueue.reg)
    BY <2>1, OrderFields, FrameFields
  <2>2. CASE send /\ g = Update(a, r.grant)
    <3>1. g.kind = "WINDOW_UPDATE" /\ g.of = a
      BY <2>2 DEF Update
    <3> QED
      BY <1>7, <1>9, <2>2, <3>1
  <2> QED
    BY <1>6, <2>1, <2>2
<1>13. \A t \in Streams : rstate'[t] \in Unsent => rstate[t] \in Unsent /\ t \notin rqueue'.syn
  BY <1>5, <1>8, <1>9 DEF OrderInv, NotYet
<1> QED
  BY <1>1, <1>5, <1>10, <1>11, <1>12, <1>13, ReceiverOrder

LEMMA RecvRstOrder ==
  ASSUME FlowInv, OrderInv, RecvRst
  PROVE  OrderInv'
<1> DEFINE s == Head(toReceiver).of
<1>1. /\ toReceiver # <<>> /\ Head(toReceiver).kind = "RST_STREAM" /\ toReceiver' = Tail(toReceiver)
      /\ rstate' = [rstate EXCEPT ![s] = "closed"]
      /\ UNCHANGED <<sstate, squeue, toSender, rqueue>>
  BY DEF RecvRst, Arrived, sender
<1>2. Head(toReceiver) \in In(toReceiver) /\ In(toReceiver') \subseteq In(toReceiver)
  BY <1>1, OrderFields, InTail
<1>3. s \in Streams
  BY <1>1, <1>2, OrderFields, FrameFields
<1>4. rstate[s] \notin Unsent
  BY <1>2, <1>3 DEF OrderInv, NotYet, Unheard
<1> HIDE DEF s
<1>5. \A t \in Streams : rstate'[t] = IF t = s THEN "closed" ELSE rstate[t]
  BY <1>1, OrderFields
<1>6. "closed" \notin Unsent /\ "queued" \in Unsent
  BY DEF Unsent
<1>7. \A t \in Streams : /\ rstate'[t] \in Unsent <=> rstate[t] \in Unsent
                         /\ rstate[t] = "queued" => rstate'[t] = "queued"
  BY <1>4, <1>5, <1>6
<1>8. /\ \A t \in rqueue'.syn : t \in rqueue.syn
      /\ \A f \in In(rqueue'.reg) : f \in In(rqueue.reg)
      /\ In(rqueue'.urgent) \subseteq In(rqueue.urgent)
  BY <1>1
<1> QED
  BY <1>1, <1>2, <1>7, <1>8, QueuedOrder

LEMMA RecvDataOrder ==
  ASSUME FlowInv, OrderInv, RecvData
  PROVE  OrderInv'
<1> DEFINE s    == Head(toReceiver).of
           n    == Head(toReceiver).n
           end  == DataOf(Head(toReceiver))
           open == rstate[s] = "open"
           c0   == Received(window[Conn], n, auto)
           c    == IF open \/ auto \/ ~c0.ok THEN c0 ELSE Consumed(c0.window, n)
           r    == IF open THEN Received(window[s], n, auto /\ ~end) ELSE Result(window[s], 0)
           reset == IF r.ok THEN {} ELSE {s}
           p == Queued(rqueue.reg, Conn, c.grant)
           S == ResetQueue(rqueue.syn, rstate, reset)
<1>1. /\ toReceiver # <<>> /\ Head(toReceiver).kind \in {"DATA", "DATA END_STREAM"}
      /\ toReceiver' = Tail(toReceiver)
      /\ rqueue' = Requeued(rqueue, Queued(p, s, r.grant), S)
      /\ rstate' = IF open /\ end THEN [rstate EXCEPT ![s] = "closed"]
                   ELSE ResetState(rstate, reset)
      /\ UNCHANGED <<sstate, squeue, toSender>>
  BY DEF RecvData, Arrived, sender, Requeued
<1>2. Head(toReceiver) \in In(toReceiver) /\ In(toReceiver') \subseteq In(toReceiver)
  BY <1>1, OrderFields, InTail
<1>3. s \in Streams /\ n \in Nat
  BY <1>1, <1>2, OrderFields, FrameFields
<1>4. end \in BOOLEAN /\ window[Conn] \in Window /\ window[s] \in Window /\ auto \in BOOLEAN
  BY <1>3, OrderFields, Conns DEF DataOf
<1> HIDE DEF s, n, end
<1>5. c0.grant \in Nat /\ c0.window \in Window
  BY <1>3, <1>4, ReceivedSound, ReceivedResult DEF ResultOf
<1> HIDE DEF c0
<1>6. c.grant \in Nat
  BY <1>3, <1>5, ConsumedSound
<1>7. r.grant \in Nat /\ (~open => r.grant = 0)
  BY <1>3, <1>4, ReceivedSound DEF Result
<1> HIDE DEF c, r
<1>8. In(p) \subseteq In(rqueue.reg) \cup {Update(Conn, c.grant)} /\ p \in Seq(Frames)
  BY <1>6, OrderFields, Conns, InQueued
<1>9. /\ In(Queued(p, s, r.grant)) \subseteq In(p) \cup {Update(s, r.grant)}
      /\ ~open => Queued(p, s, r.grant) = p
  <2> HIDE DEF p, open
  <2>1. In(Queued(p, s, r.grant)) \subseteq In(p) \cup {Update(s, r.grant)}
    BY <1>3, <1>7, <1>8, Conns, InQueued
  <2>2. ~open => Queued(p, s, r.grant) = p
    BY <1>7 DEF Queued
  <2> QED
    BY <2>1, <2>2
<1> HIDE DEF p
<1>10. \A t \in S : t \in rqueue.syn \/ rstate[t] \notin Unsent
  BY ResetQueued DEF Unsent
<1>11. rqueue'.reg = Queued(p, s, r.grant) /\ rqueue'.syn = S /\ rqueue'.urgent = rqueue.urgent
  BY <1>1, OrderFields DEF QueueTypes, Requeued
<1> HIDE DEF S
<1>12. open => rstate[s] \notin Unsent
  BY DEF Unsent
<1>13. \A t \in Streams : /\ rstate'[t] \in Unsent <=> rstate[t] \in Unsent
                          /\ rstate[t] = "queued" => rstate'[t] = "queued"
  <2>1. CASE open /\ end
    <3>1. \A t \in Streams : rstate'[t] = IF t = s THEN "closed" ELSE rstate[t]
      BY <1>1, <2>1, OrderFields
    <3>2. "closed" \notin Unsent /\ "queued" \in Unsent
      BY DEF Unsent
    <3> QED
      BY <1>12, <2>1, <3>1, <3>2
  <2>2. CASE ~(open /\ end)
    <3>1. rstate \in [Streams -> States] /\ rstate' = ResetState(rstate, reset)
      BY <1>1, <2>2, OrderFields
    <3> HIDE DEF reset
    <3>2. \A t \in Streams : /\ ResetState(rstate, reset)[t] \in Unsent <=> rstate[t] \in Unsent
                             /\ ResetState(rstate, reset)[t] = "queued" <=> rstate[t] = "queued"
      BY <3>1, ResetOrder
    <3> QED
      BY <3>1, <3>2
  <2> QED
    BY <2>1, <2>2
<1> HIDE DEF open
<1>14. \A f \in In(rqueue'.reg) : f \in In(rqueue.reg) \/
           (f.kind # "HEADERS" /\ \A t \in Streams : f.of = t => rstate[t] \notin Unsent)
  <2> SUFFICES ASSUME NEW f \in In(rqueue'.reg), f \notin In(rqueue.reg)
               PROVE  f.kind # "HEADERS" /\ \A t \in Streams : f.of = t => rstate[t] \notin Unsent
    OBVIOUS
  <2>1. f = Update(Conn, c.grant) \/ (f = Update(s, r.grant) /\ open)
    BY <1>8, <1>9, <1>11
  <2>2. f.kind = "WINDOW_UPDATE" /\ (f.of = Conn \/ (f.of = s /\ open))
    BY <2>1 DEF Update
  <2> QED
    BY <1>12, <2>2, Conns
<1> QED
  BY <1>1, <1>2, <1>10, <1>11, <1>13, <1>14, QueuedOrder

LEMMA RecvAckOrder ==
  ASSUME FlowInv, OrderInv, RecvAck
  PROVE  OrderInv'
<1> DEFINE by == Head(inflight) - lastInitial
           r == [s \in Streams |-> IF Known(rstate, s) THEN Resize(window[s], by, auto)
                                                       ELSE Result(window[s], 0)]
           reset == {s \in Streams : ~r[s].ok}
           S == ResetQueue(rqueue.syn, rstate, reset)
           G == {s \in Streams : r[s].grant > 0}
           ups(q) == [i \in DOMAIN q |-> Update(q[i], r[q[i]].grant)]
<1>1. /\ toReceiver # <<>> /\ toReceiver' = Tail(toReceiver)
      /\ inflight # <<>>
      /\ rstate' = ResetState(rstate, reset)
      /\ \E q \in Orders(G) : rqueue' = Requeued(rqueue, rqueue.reg \o ups(q), S)
      /\ UNCHANGED <<sstate, squeue, toSender>>
  BY DEF RecvAck, Arrived, Requeued, sender
<1>2. by \in Int
  <2>1. inflight \in Seq(Sizes) /\ lastInitial \in Sizes
    BY DEF FlowInv, ReceiverInv, ReceiverTypes
  <2>2. Head(inflight) \in Sizes
    BY <1>1, <2>1
  <2> QED
    BY <2>1, <2>2 DEF Sizes
<1> HIDE DEF by
<1>3. \A s \in Streams : r[s].grant \in Nat /\ (r[s].grant > 0 => rstate[s] \notin Unsent)
  <2> SUFFICES ASSUME NEW s \in Streams
               PROVE  r[s].grant \in Nat /\ (r[s].grant > 0 => rstate[s] \notin Unsent)
    OBVIOUS
  <2>1. window[s] \in Window /\ auto \in BOOLEAN
    BY OrderFields, Conns
  <2>2. CASE Known(rstate, s)
    <3>1. r[s] = Resize(window[s], by, auto)
      BY <2>2
    <3> HIDE DEF r
    <3>2. rstate[s] \notin Unsent
      BY <2>2 DEF Known, Unsent
    <3> QED
      BY <1>2, <2>1, <3>1, <3>2, ResizeSound
  <2>3. CASE ~Known(rstate, s)
    <3>1. r[s].grant = 0
      BY <2>3 DEF Result
    <3> HIDE DEF r
    <3> QED
      BY <3>1
  <2> QED
    BY <2>2, <2>3
<1>4. PICK q \in Orders(G) : rqueue' = Requeued(rqueue, rqueue.reg \o ups(q), S)
  BY <1>1
<1> HIDE DEF r
<1>5. q \in Seq(Streams) /\ \A i \in DOMAIN q : q[i] \in G
  BY OrderTypes
<1>6. ups(q) \in Seq(Frames) /\ Len(ups(q)) = Len(q)
  <2>1. ASSUME NEW i \in DOMAIN q PROVE Update(q[i], r[q[i]].grant) \in Frames
    BY <1>3, <1>5, FrameTypes, Conns
  <2>2. Len(q) \in Nat /\ DOMAIN q = 1 .. Len(q)
    BY <1>5
  <2> QED
    BY <2>1, <2>2
<1>7. \A f \in In(ups(q)) :
        f.kind # "HEADERS" /\ \A s \in Streams : f.of = s => rstate[s] \notin Unsent
  <2> SUFFICES ASSUME NEW i \in 1 .. Len(q)
               PROVE  /\ ups(q)[i].kind # "HEADERS"
                      /\ \A s \in Streams : ups(q)[i].of = s => rstate[s] \notin Unsent
    BY <1>6 DEF In
  <2>1. i \in DOMAIN q
    BY <1>5
  <2>2. ups(q)[i].kind = "WINDOW_UPDATE" /\ ups(q)[i].of = q[i]
    BY <2>1 DEF Update
  <2> HIDE DEF ups
  <2> QED
    BY <1>3, <1>5, <2>1, <2>2
<1> DEFINE p == rqueue.reg \o ups(q)
<1>8. In(p) = In(rqueue.reg) \cup In(ups(q))
  <2> HIDE DEF ups
  <2> QED
    BY <1>6, OrderFields, InConcat
<1>9. rqueue'.reg = p /\ rqueue'.syn = S /\ rqueue'.urgent = rqueue.urgent
  <2> HIDE DEF p, S
  <2>1. rqueue' = Requeued(rqueue, p, S)
    BY <1>4 DEF p
  <2> QED
    BY <2>1, OrderFields DEF QueueTypes, Requeued
<1> HIDE DEF p, ups
<1>10. \A t \in S : t \in rqueue.syn \/ rstate[t] \notin Unsent
  BY ResetQueued DEF Unsent
<1> HIDE DEF S, reset
<1>11. \A t \in Streams : /\ rstate'[t] \in Unsent <=> rstate[t] \in Unsent
                          /\ rstate[t] = "queued" => rstate'[t] = "queued"
  <2>1. rstate \in [Streams -> States] /\ rstate' = ResetState(rstate, reset)
    BY <1>1, OrderFields
  <2>2. \A t \in Streams : /\ ResetState(rstate, reset)[t] \in Unsent <=> rstate[t] \in Unsent
                           /\ ResetState(rstate, reset)[t] = "queued" <=> rstate[t] = "queued"
    BY <2>1, ResetOrder
  <2> QED
    BY <2>1, <2>2
<1>12. In(toReceiver') \subseteq In(toReceiver)
  BY <1>1, OrderFields, InTail
<1> QED
  BY <1>1, <1>7, <1>8, <1>9, <1>10, <1>11, <1>12, QueuedOrder

(* A step of the sender that takes nothing off the wire.                   *)
LEMMA SentOrder ==
  ASSUME FlowInv, OrderInv, UNCHANGED <<rstate, rqueue, toSender>>,
         \A f \in In(toReceiver') :
           f \in In(toReceiver) \/ \A s \in Streams : f.of = s => sstate[s] # "idle",
         \A s \in Streams : sstate'[s] = "idle" <=> sstate[s] = "idle",
         squeue'.syn \subseteq squeue.syn
  PROVE  OrderInv'
<1>1. FirstOK(toSender', rstate, sstate')
  BY FirstState DEF OrderInv, First
<1>2. \A s \in Streams : sstate'[s] = "idle" => sstate[s] = "idle" /\ s \notin squeue'.syn
  BY DEF OrderInv, Unheard
<1>3. \A s \in Streams : rstate[s] \in Unsent => sstate'[s] = "idle"
  BY DEF OrderInv, NotYet
<1>4. In(toSender') \subseteq In(toSender)
  OBVIOUS
<1> QED
  BY <1>1, <1>2, <1>3, <1>4, SenderOrder

LEMMA SendAckOrder ==
  ASSUME FlowInv, OrderInv, SendAck
  PROVE  OrderInv'
<1>1. /\ squeue' = [squeue EXCEPT !.acks = @ - 1] /\ toReceiver' = Append(toReceiver, Ack)
      /\ UNCHANGED <<rstate, rqueue, toSender, sstate>>
  BY DEF SendAck, receiver
<1>2. squeue'.syn = squeue.syn
  BY <1>1, OrderFields
<1>3. In(toReceiver') = In(toReceiver) \cup {Ack}
  BY <1>1, OrderFields, FrameTypes, InAppend
<1>4. Ack.of = Conn
  BY DEF Ack
<1> QED
  BY <1>1, <1>2, <1>3, <1>4, SentOrder, Conns

LEMMA SendResetOrder ==
  ASSUME FlowInv, OrderInv, NEW s \in Streams, SendReset(s)
  PROVE  OrderInv'
<1>1. /\ s \in squeue.syn /\ sstate' = [sstate EXCEPT ![s] = "closed"]
      /\ toReceiver' = Append(toReceiver, Rst(s)) /\ squeue' = [squeue EXCEPT !.syn = @ \ {s}]
      /\ UNCHANGED <<rstate, rqueue, toSender>>
  BY DEF SendReset, receiver
<1>2. squeue'.syn = squeue.syn \ {s}
  BY <1>1, OrderFields
<1>3. In(toReceiver') = In(toReceiver) \cup {Rst(s)}
  BY <1>1, OrderFields, FrameTypes, InAppend
<1>4. Rst(s).of = s /\ sstate[s] # "idle"
  BY <1>1 DEF Rst, OrderInv, Unheard
<1>5. \A t \in Streams : sstate'[t] = "idle" <=> sstate[t] = "idle"
  BY <1>1, <1>4, OrderFields
<1> QED
  BY <1>1, <1>2, <1>3, <1>4, <1>5, SentOrder

LEMMA SendDataOrder ==
  ASSUME FlowInv, OrderInv, NEW s \in Streams, NEW n \in 1 .. Body, SendData(s, n)
  PROVE  OrderInv'
<1> DEFINE f == Data(s, n, n = left[s])
<1>1. /\ sstate[s] = "open" /\ toReceiver' = Append(toReceiver, f)
      /\ sstate' = IF n = left[s] THEN [sstate EXCEPT ![s] = "closed"] ELSE sstate
      /\ UNCHANGED <<rstate, rqueue, toSender, squeue>>
  BY DEF SendData, receiver
<1>2. f \in Frames /\ f.of = s
  <2>1. n \in Nat /\ (n = left[s]) \in BOOLEAN
    BY FlowAssumption
  <2> QED
    BY <2>1, FrameTypes DEF Data
<1> HIDE DEF f
<1>3. In(toReceiver') = In(toReceiver) \cup {f}
  BY <1>1, <1>2, OrderFields, InAppend
<1>4. \A t \in Streams : sstate'[t] = "idle" <=> sstate[t] = "idle"
  BY <1>1, OrderFields
<1>5. squeue'.syn \subseteq squeue.syn
  BY <1>1
<1> QED
  BY <1>1, <1>2, <1>3, <1>4, <1>5, SentOrder

LEMMA IdleOrder ==
  ASSUME FlowInv, OrderInv, UNCHANGED <<rstate, rqueue, toSender, toReceiver, sstate, squeue>>
  PROVE  OrderInv'
<1>1. squeue'.syn \subseteq squeue.syn /\ \A f \in In(toReceiver') : f \in In(toReceiver)
  OBVIOUS
<1> QED
  BY <1>1, SentOrder

(* The sender takes the next frame.                                        *)
LEMMA TakenOrder ==
  ASSUME FlowInv, OrderInv, UNCHANGED <<rstate, rqueue, toReceiver>>,
         toSender # <<>>, toSender' = Tail(toSender), Head(toSender).kind # "HEADERS",
         \A s \in Streams : sstate'[s] = "idle" <=> sstate[s] = "idle",
         \A s \in squeue'.syn : s \in squeue.syn \/ sstate[s] # "idle"
  PROVE  OrderInv'
<1>1. In(toSender') \subseteq In(toSender)
  BY OrderFields, InTail
<1>2. \A s \in Streams : ~IsRequest(Head(toSender), s)
  BY DEF IsRequest
<1>3. FirstOK(toSender', rstate, sstate)
  <2>1. FirstOK(toSender, rstate, sstate)
    BY DEF OrderInv, First
  <2> QED
    BY <1>2, <2>1, OrderFields, FirstTail
<1>4. FirstOK(toSender', rstate, sstate')
  BY <1>3, FirstState
<1>5. \A s \in Streams : sstate'[s] = "idle" => sstate[s] = "idle" /\ s \notin squeue'.syn
  BY DEF OrderInv, Unheard
<1>6. \A s \in Streams : rstate[s] \in Unsent => sstate'[s] = "idle"
  BY DEF OrderInv, NotYet
<1> QED
  BY <1>1, <1>4, <1>5, <1>6, SenderOrder

LEMMA SenderResetsOrder ==
  ASSUME FlowInv, NEW S, SenderResets(S)
  PROVE  /\ \A s \in Streams : sstate'[s] = "idle" <=> sstate[s] = "idle"
         /\ \A s \in squeue'.syn : s \in squeue.syn \/ sstate[s] # "idle"
         /\ \A s \in Streams : sstate'[s] = "open" => sstate[s] = "open" /\ s \notin S
<1>1. sstate' = ResetState(sstate, S) /\ squeue'.syn = ResetQueue(squeue.syn, sstate, S)
  BY OrderFields DEF SenderResets
<1>2. \A s \in Streams : /\ ResetState(sstate, S)[s] = "idle" <=> sstate[s] = "idle"
                         /\ ResetState(sstate, S)[s] = "open" => sstate[s] = "open" /\ s \notin S
  BY OrderFields, ResetOrder
<1>3. \A s \in ResetQueue(squeue.syn, sstate, S) : s \in squeue.syn \/ sstate[s] = "open"
  BY ResetQueued
<1> QED
  BY <1>1, <1>2, <1>3

LEMMA RecvUpdateOrder ==
  ASSUME FlowInv, OrderInv, RecvUpdate
  PROVE  OrderInv'
<1>1. PICK S : SenderResets(S)
  BY DEF RecvUpdate
<1>2. /\ UNCHANGED <<rstate, rqueue, toReceiver>>
      /\ toSender # <<>> /\ toSender' = Tail(toSender) /\ Head(toSender).kind # "HEADERS"
  BY DEF RecvUpdate, Arrived, receiver
<1> QED
  BY <1>1, <1>2, SenderResetsOrder, TakenOrder

LEMMA RecvSettingsOrder ==
  ASSUME FlowInv, OrderInv, RecvSettings
  PROVE  OrderInv'
<1>1. PICK S : /\ sstate' = ResetState(sstate, S)
               /\ squeue' = [acks |-> squeue.acks + 1, syn |-> ResetQueue(squeue.syn, sstate, S)]
  BY DEF RecvSettings
<1>2. /\ UNCHANGED <<rstate, rqueue, toReceiver>>
      /\ toSender # <<>> /\ toSender' = Tail(toSender) /\ Head(toSender).kind # "HEADERS"
  BY DEF RecvSettings, Arrived, receiver
<1>3. squeue'.syn = ResetQueue(squeue.syn, sstate, S)
  BY <1>1
<1>4. \A s \in Streams : ResetState(sstate, S)[s] = "idle" <=> sstate[s] = "idle"
  BY OrderFields, ResetOrder
<1>5. \A s \in squeue'.syn : s \in squeue.syn \/ sstate[s] # "idle"
  BY <1>3, ResetQueued
<1> QED
  BY <1>1, <1>2, <1>4, <1>5, TakenOrder

LEMMA RecvCancelOrder ==
  ASSUME FlowInv, OrderInv, RecvCancel
  PROVE  OrderInv'
<1> DEFINE s == Head(toSender).of
<1>1. /\ toSender # <<>> /\ toSender' = Tail(toSender) /\ Head(toSender).kind = "RST_STREAM"
      /\ sstate' = [sstate EXCEPT ![s] = "closed"]
      /\ UNCHANGED <<rstate, rqueue, toReceiver, squeue>>
  BY DEF RecvCancel, Arrived, receiver
<1>2. Head(toSender) \in In(toSender)
  BY <1>1, OrderFields, InTail
<1>3. s \in Streams
  BY <1>1, <1>2, OrderFields, FrameFields
<1>4. rstate[s] \notin Unsent
  BY <1>2, <1>3 DEF OrderInv, NotYet
<1>5. sstate[s] # "idle"
  BY <1>1, <1>3, <1>4, OrderFields, FirstHead DEF OrderInv, First
<1>6. \A t \in Streams : sstate'[t] = "idle" <=> sstate[t] = "idle"
  BY <1>1, <1>5, OrderFields
<1>7. \A t \in squeue'.syn : t \in squeue.syn
  BY <1>1
<1> QED
  BY <1>1, <1>6, <1>7, TakenOrder

LEMMA RecvRequestOrder ==
  ASSUME FlowInv, OrderInv, RecvRequest
  PROVE  OrderInv'
<1> DEFINE f == Head(toSender)
           s == f.of
<1>1. /\ toSender # <<>> /\ toSender' = Tail(toSender) /\ f.kind = "HEADERS"
      /\ sstate' = [sstate EXCEPT ![s] = "open"]
      /\ UNCHANGED <<rstate, rqueue, toReceiver, squeue>>
  BY DEF RecvRequest, Arrived, receiver
<1>2. f \in In(toSender) /\ In(toSender') \subseteq In(toSender)
  BY <1>1, OrderFields, InTail
<1>3. s \in Streams
  BY <1>1, <1>2, OrderFields, FrameFields
<1>4. rstate[s] \notin Unsent
  BY <1>2, <1>3 DEF OrderInv, NotYet
<1>5. \A t \in Streams : sstate'[t] = IF t = s THEN "open" ELSE sstate[t]
  BY <1>1, OrderFields
<1>6. \A t \in Streams : IsRequest(f, t) <=> t = s
  BY <1>1 DEF IsRequest
<1> HIDE DEF s
<1>7. FirstOK(toSender', rstate, sstate')
  <2>1. FirstOK(toSender, rstate, sstate) /\ toSender \in Seq(Frames)
    BY OrderFields DEF OrderInv, First
  <2>2. /\ \A t \in Streams : sstate'[t] = "idle" => sstate[t] = "idle"
        /\ \A t \in Streams : IsRequest(f, t) => sstate'[t] # "idle"
        /\ \A t \in Streams : ~IsRequest(f, t) => sstate'[t] = sstate[t] \/ sstate[t] # "idle"
    BY <1>5, <1>6
  <2> QED
    BY <1>1, <2>1, <2>2, FirstTail
<1>8. \A t \in Streams : sstate'[t] = "idle" => sstate[t] = "idle" /\ t \notin squeue'.syn
  BY <1>1, <1>5 DEF OrderInv, Unheard
<1>9. \A t \in Streams : rstate[t] \in Unsent => sstate'[t] = "idle"
  BY <1>4, <1>5 DEF OrderInv, NotYet
<1>10. \A g \in In(toReceiver') : g \in In(toReceiver)
  BY <1>1
<1> QED
  BY <1>1, <1>2, <1>7, <1>8, <1>9, <1>10, SenderOrder

LEMMA OrderNext == FlowInv /\ OrderInv /\ [FlowNext]_flowVars => OrderInv'
<1> SUFFICES ASSUME FlowInv, OrderInv, [FlowNext]_flowVars PROVE OrderInv'
  OBVIOUS
<1>1. CASE UNCHANGED flowVars
  BY <1>1, IdleOrder DEF flowVars
<1>2. ASSUME NEW s \in Streams, Withhold(s) \/ ResumeData(s) \/ Defer(s) PROVE OrderInv'
  BY <1>2, IdleOrder DEF Withhold, Defer, NoData, ResumeData, receiver
<1>3. CASE ReceiverSends
  BY <1>3, SendSettingsOrder, SendRequestOrder, SendUpdateOrder, SendRstOrder DEF ReceiverSends
<1>4. CASE ReceiverReceives
  BY <1>4, RecvDataOrder, RecvAckOrder, RecvRstOrder DEF ReceiverReceives
<1>5. CASE SenderReceives
  BY <1>5, RecvRequestOrder, RecvSettingsOrder, RecvUpdateOrder, RecvCancelOrder DEF SenderReceives
<1>6. CASE SenderSends
  BY <1>2, <1>6, SendAckOrder, SendResetOrder, SendDataOrder DEF SenderSends, SendsControl, SendsBytes
<1>7. ASSUME NEW s \in Streams, SubmitRequest(s) \/ Consumes(s) \/ Cancel(s) PROVE OrderInv'
  BY <1>7, SubmitRequestOrder, ConsumeOrder, CancelOrder DEF Consumes
<1>8. ASSUME NEW v \in Initials, SubmitSettings(v) PROVE OrderInv'
  BY <1>8, SubmitSettingsOrder
<1>9. ASSUME NEW a \in Tuned, \/ \E size \in NewSizes : SetLocalWindowSize(a, size)
                              \/ \E i \in Increments : SubmitWindowUpdate(a, i)
      PROVE  OrderInv'
  BY <1>9, SetLocalWindowSizeOrder, SubmitWindowUpdateOrder
<1> QED
  BY <1>1, <1>2, <1>3, <1>4, <1>5, <1>6, <1>7, <1>8, <1>9 DEF FlowNext

LEMMA OrderInit == FlowInit => OrderInv
<1> SUFFICES ASSUME FlowInit PROVE OrderInv
  OBVIOUS
<1>1. /\ rqueue.urgent = <<>> /\ rqueue.reg = <<>> /\ rqueue.syn = {} /\ squeue.syn = {}
      /\ toSender = <<>> /\ toReceiver = <<>>
      /\ \A s \in Streams : rstate[s] = "idle" /\ sstate[s] = "idle"
  BY DEF FlowInit
<1>2. FirstOK(toSender, rstate, sstate)
  BY <1>1 DEF FirstOK, Unsent
<1> QED
  BY <1>1, <1>2, InEmpty DEF OrderInv, NotYet, Requests, Unheard, First, Urgent

-----------------------------------------------------------------------------
(* The credit of a window, as its two ends and what is under way change.   *)

DataKinds == {"DATA", "DATA END_STREAM"}
Updates   == {"WINDOW_UPDATE"}
Of(a)     == IF a = Conn THEN Streams ELSE {a}

LEMMA CreditTypes ==
  ASSUME FlowInv
  PROVE  \A a \in Accounts : /\ DataTo(a) \in Nat /\ Granted(a) \in Nat
                             /\ remote[a] \in Int /\ Room(window[a]) \in Int
                             /\ window[a] \in Window
         
<1> SUFFICES ASSUME NEW a \in Accounts
             PROVE  /\ DataTo(a) \in Nat /\ Granted(a) \in Nat
                    /\ remote[a] \in Int /\ Room(window[a]) \in Int /\ window[a] \in Window
  OBVIOUS
<1>1. DataTo(a) \in Nat
  BY OrderFields, BytesNat DEF DataTo
<1>2. Bytes(rqueue.reg, Updates, {a}) \in Nat /\ Bytes(toSender, Updates, {a}) \in Nat
  BY OrderFields, BytesNat
<1>3. Granted(a) \in Nat
  BY <1>2 DEF Granted, Updates
<1>4. window[a] \in Window /\ remote[a] \in Width
  BY OrderFields
<1> QED
  BY <1>1, <1>3, <1>4, Fields DEF Width

LEMMA DataParts ==
  ASSUME NEW a
  PROVE  /\ DataTo(a) = Bytes(toReceiver, DataKinds, Of(a))
         /\ DataTo(a)' = Bytes(toReceiver', DataKinds, Of(a))
BY DEF DataTo, DataKinds, Of

LEMMA DataAppended ==
  ASSUME FlowInv, NEW f \in Frames, toReceiver' = Append(toReceiver, f), NEW a
  PROVE  DataTo(a)' = DataTo(a) + Counted(f, DataKinds, Of(a))
<1>1. toReceiver \in Seq(Frames)
  BY OrderFields
<1>2. Bytes(Append(toReceiver, f), DataKinds, Of(a))
        = Bytes(toReceiver, DataKinds, Of(a)) + Counted(f, DataKinds, Of(a))
  BY <1>1, BytesAppend
<1> QED
  BY <1>2, DataParts

LEMMA DataTaken ==
  ASSUME FlowInv, toReceiver # <<>>, toReceiver' = Tail(toReceiver), NEW a
  PROVE  DataTo(a) = Counted(Head(toReceiver), DataKinds, Of(a)) + DataTo(a)'
<1>1. toReceiver \in Seq(Frames)
  BY OrderFields
<1>2. Bytes(toReceiver, DataKinds, Of(a))
        = Counted(Head(toReceiver), DataKinds, Of(a)) + Bytes(Tail(toReceiver), DataKinds, Of(a))
  BY <1>1, BytesTail
<1> QED
  BY <1>2, DataParts

LEMMA DataSame ==
  ASSUME UNCHANGED toReceiver, NEW a
  PROVE  DataTo(a)' = DataTo(a)
BY DEF DataTo

Waits(a)  == Bytes(rqueue.reg, Updates, {a})
OnWire(a) == Bytes(toSender, Updates, {a})

LEMMA GrantedParts ==
  ASSUME NEW a
  PROVE  Granted(a) = Waits(a) + OnWire(a) /\ Granted(a)' = Waits(a)' + OnWire(a)'
BY DEF Granted, Waits, OnWire, Updates

LEMMA PartTypes ==
  ASSUME FlowInv, NEW a
  PROVE  Waits(a) \in Nat /\ OnWire(a) \in Nat
BY OrderFields, BytesNat DEF Waits, OnWire

LEMMA WireAppended ==
  ASSUME FlowInv, NEW f \in Frames, toSender' = Append(toSender, f), NEW a
  PROVE  OnWire(a)' = OnWire(a) + Counted(f, Updates, {a})
BY OrderFields, BytesAppend DEF OnWire

LEMMA WireTaken ==
  ASSUME FlowInv, toSender # <<>>, toSender' = Tail(toSender), NEW a
  PROVE  OnWire(a) = Counted(Head(toSender), Updates, {a}) + OnWire(a)'
BY OrderFields, BytesTail DEF OnWire

LEMMA RegAppended ==
  ASSUME FlowInv, NEW f \in Frames, rqueue'.reg = Append(rqueue.reg, f), NEW a
  PROVE  Waits(a)' = Waits(a) + Counted(f, Updates, {a})
BY OrderFields, BytesAppend DEF Waits

LEMMA RegTaken ==
  ASSUME FlowInv, rqueue.reg # <<>>, rqueue'.reg = Tail(rqueue.reg), NEW a
  PROVE  Waits(a) = Counted(Head(rqueue.reg), Updates, {a}) + Waits(a)'
BY OrderFields, BytesTail DEF Waits

(* What an increment of n for a is for b.                                  *)
Share(a, b, n) == IF a = b THEN n ELSE 0

LEMMA BytesQueued ==
  ASSUME NEW q \in Seq(Frames), NEW a \in Accounts, NEW n \in Nat, NEW b
  PROVE  /\ Queued(q, a, n) \in Seq(Frames)
         /\ Bytes(Queued(q, a, n), Updates, {b})
              = Bytes(q, Updates, {b}) + Share(a, b, n)
         /\ Share(a, b, n) \in Nat
<1>1. Update(a, n) \in Frames
  BY FrameTypes
<1>2. Counted(Update(a, n), Updates, {b}) = Share(a, b, n)
  BY DEF Counted, Update, Updates, Share
<1>6. Share(a, b, n) \in Nat
  BY DEF Share
<1>3. Bytes(q, Updates, {b}) \in Nat
  BY BytesNat
<1>4. CASE n > 0
  <2>1. Queued(q, a, n) = Append(q, Update(a, n))
    BY <1>4 DEF Queued
  <2>2. Bytes(Append(q, Update(a, n)), Updates, {b})
          = Bytes(q, Updates, {b}) + Counted(Update(a, n), Updates, {b})
    BY <1>1, BytesAppend
  <2> QED
    BY <1>1, <1>2, <1>6, <2>1, <2>2
<1>5. CASE ~(n > 0)
  <2>1. Queued(q, a, n) = q /\ n = 0
    BY <1>5 DEF Queued
  <2>2. Share(a, b, n) = 0
    BY <2>1 DEF Share
  <2> QED
    BY <1>3, <2>1, <2>2
<1> QED
  BY <1>4, <1>5

(* A frame that is counted once.                                           *)
LEMMA BytesOnce ==
  ASSUME NEW q \in Seq(Frames), NEW K, NEW A, NEW j \in 1 .. Len(q),
         \A i \in 1 .. Len(q) : i # j => Counted(q[i], K, A) = 0
  PROVE  Bytes(q, K, A) = Counted(q[j], K, A)
<1> DEFINE p == SubSeq(q, 1, j - 1)
           f == q[j]
           t == SubSeq(q, j + 1, Len(q))
           c == Counted(f, K, A)
<1>1. /\ p \in Seq(Frames) /\ t \in Seq(Frames) /\ f \in Frames
      /\ Len(p) = j - 1 /\ \A i \in 1 .. Len(p) : p[i] = q[i] /\ i \in 1 .. Len(q) /\ i # j
      /\ Append(p, f) \in Seq(Frames)
  OBVIOUS
<1>2. Len(t) \in Nat /\ \A i \in 1 .. Len(t) : t[i] = q[i + j] /\ i + j \in 1 .. Len(q) /\ i + j # j
  OBVIOUS
<1> DEFINE x == Append(p, f)
<1>3. q = x \o t
  <2>1. /\ x \in Seq(Frames) /\ Len(x) = j /\ \A i \in 1 .. j : x[i] = q[i]
        /\ Len(t) = Len(q) - j /\ \A i \in 1 .. Len(t) : t[i] = q[i + j]
    OBVIOUS
  <2> HIDE DEF x, t
  <2>2. x \o t \in Seq(Frames)
    BY <1>1, <2>1
  <2>3. Len(x \o t) = Len(q)
    <3>3. x \in Seq(Frames) /\ t \in Seq(Frames)
      BY <1>1, <2>1
    <3>1. Len(x \o t) = Len(x) + Len(t)
      BY <3>3
    <3>2. Len(x) = j /\ Len(t) = Len(q) - j /\ j \in Int /\ Len(q) \in Int
      BY <2>1
    <3> QED
      BY <3>1, <3>2
  <2>4. ASSUME NEW i \in 1 .. Len(q) PROVE (x \o t)[i] = q[i]
    <3>1. CASE i <= j
      BY <1>1, <2>1, <3>1
    <3>2. CASE ~(i <= j)
      <4>1. i - j \in 1 .. Len(t) /\ (x \o t)[i] = t[i - j]
        BY <1>1, <2>1, <3>2
      <4>2. t[i - j] = q[(i - j) + j] /\ (i - j) + j = i
        BY <2>1, <4>1
      <4> QED
        BY <4>1, <4>2
    <3> QED
      BY <3>1, <3>2
  <2> DEFINE y == x \o t
  <2> HIDE DEF y
  <2>5. y \in Seq(Frames) /\ Len(y) = Len(q) /\ \A i \in 1 .. Len(q) : y[i] = q[i]
    BY <2>2, <2>3, <2>4 DEF y
  <2>6. y = q
    BY <2>5
  <2> QED
    BY <2>6 DEF y
<1> HIDE DEF p, f, t
<1>4. Bytes(p, K, A) = 0 /\ Bytes(t, K, A) = 0
  BY <1>1, <1>2, BytesNone
<1>5. Bytes(x, K, A) = Bytes(p, K, A) + c
  BY <1>1, BytesAppend
<1>9. x \in Seq(Frames)
  BY <1>1
<1> HIDE DEF x
<1>6. Bytes(x \o t, K, A) = Bytes(x, K, A) + Bytes(t, K, A)
  BY <1>1, <1>9, BytesConcat
<1>7. c \in Nat
  BY <1>1, CountedNat
<1>8. Bytes(q, K, A) = c
  BY <1>3, <1>4, <1>5, <1>6, <1>7
<1> QED
  BY <1>8 DEF f

LEMMA OrderCovers ==
  ASSUME NEW S \in SUBSET Streams, NEW q \in Orders(S), NEW s \in S
  PROVE  \E j \in 1 .. Len(q) : q[j] = s /\ \A i \in 1 .. Len(q) : i # j => q[i] # s
<1>1. IsFiniteSet(S)
  <2>1. IsFiniteSet(1 .. NumStreams)
    BY FlowAssumption, FS_Interval
  <2> QED
    BY <2>1, FS_Subset DEF Streams
<1> DEFINE n == Cardinality(S)
<1>2. n \in Nat
  BY <1>1, FS_CardinalityType
<1>3. q \in [1 .. n -> S] /\ \A i, j \in 1 .. n : q[i] = q[j] => i = j
  BY DEF Orders
<1> HIDE DEF n
<1>4. q \in Injection(1 .. n, S)
  BY <1>3 DEF Injection, IsInjective
<1>5. Cardinality(1 .. n) = n
  BY <1>2, FS_Interval
<1>6. q \in Surjection(1 .. n, S)
  BY <1>1, <1>4, <1>5, FS_Injection DEF n
<1>7. PICK j \in 1 .. n : q[j] = s
  BY <1>6 DEF Surjection
<1>8. Len(q) = n
  BY <1>2, <1>3
<1> QED
  BY <1>3, <1>7, <1>8

(* A frame that carries no credit.                                         *)
LEMMA NoCredit ==
  ASSUME FlowInv, UNCHANGED toReceiver, NEW f \in Frames, f.kind # "WINDOW_UPDATE",
         \/ rqueue'.reg = Append(rqueue.reg, f) /\ UNCHANGED toSender
         \/ toSender' = Append(toSender, f) /\ rqueue'.reg = rqueue.reg
         \/ toSender # <<>> /\ f = Head(toSender) /\ toSender' = Tail(toSender)
            /\ rqueue'.reg = rqueue.reg,
         NEW a \in Accounts
  PROVE  Granted(a)' = Granted(a) /\ DataTo(a)' = DataTo(a)
<1>1. Counted(f, Updates, {a}) = 0
  BY DEF Counted, Updates
<1>2. Waits(a) \in Nat /\ OnWire(a) \in Nat
  BY PartTypes
<1>3. CASE rqueue'.reg = Append(rqueue.reg, f) /\ UNCHANGED toSender
  <2>1. Waits(a)' = Waits(a) + 0
    BY <1>1, <1>3, RegAppended
  <2>2. OnWire(a)' = OnWire(a)
    BY <1>3 DEF OnWire
  <2> QED
    BY <1>2, <2>1, <2>2, GrantedParts, DataSame
<1>4. CASE toSender' = Append(toSender, f) /\ rqueue'.reg = rqueue.reg
  <2>1. OnWire(a)' = OnWire(a) + 0
    BY <1>1, <1>4, WireAppended
  <2>2. Waits(a)' = Waits(a)
    BY <1>4 DEF Waits
  <2> QED
    BY <1>2, <2>1, <2>2, GrantedParts, DataSame
<1>5. CASE toSender # <<>> /\ f = Head(toSender) /\ toSender' = Tail(toSender)
           /\ rqueue'.reg = rqueue.reg
  <2>1. OnWire(a) = 0 + OnWire(a)'
    BY <1>1, <1>5, WireTaken
  <2>2. Waits(a)' = Waits(a)
    BY <1>5 DEF Waits
  <2>3. OnWire(a)' \in Nat
    <3>1. Tail(toSender) \in Seq(Frames)
      BY <1>5, OrderFields
    <3>2. toSender' \in Seq(Frames)
      BY <1>5, <3>1
    <3> QED
      BY <3>2, BytesNat DEF OnWire
  <2> QED
    BY <1>2, <2>1, <2>2, <2>3, GrantedParts, DataSame
<1> QED
  BY <1>3, <1>4, <1>5

LEMMA NoData0 ==
  ASSUME FlowInv, UNCHANGED toSender, rqueue'.reg = rqueue.reg,
         NEW f \in Frames, f.kind \notin DataKinds,
         \/ toReceiver' = Append(toReceiver, f)
         \/ toReceiver # <<>> /\ f = Head(toReceiver) /\ toReceiver' = Tail(toReceiver),
         NEW a \in Accounts
  PROVE  Granted(a)' = Granted(a) /\ DataTo(a)' = DataTo(a)
<1>1. Counted(f, DataKinds, Of(a)) = 0
  BY DEF Counted
<1>2. DataTo(a) \in Nat
  BY CreditTypes
<1>3. Granted(a)' = Granted(a)
  BY DEF Granted
<1>4. CASE toReceiver' = Append(toReceiver, f)
  BY <1>1, <1>2, <1>3, <1>4, DataAppended
<1>5. CASE toReceiver # <<>> /\ f = Head(toReceiver) /\ toReceiver' = Tail(toReceiver)
  <2>1. DataTo(a) = 0 + DataTo(a)'
    BY <1>1, <1>5, DataTaken
  <2>2. DataTo(a)' \in Nat
    <3>1. toReceiver' \in Seq(Frames)
      BY <1>5, OrderFields
    <3> QED
      BY <3>1, BytesNat DEF DataTo
  <2> QED
    BY <1>3, <2>1, <2>2
<1> QED
  BY <1>4, <1>5

LEMMA CreditStays ==
  ASSUME ConnCredit, StreamCredit, UNCHANGED <<window, remote, peerInitial, lastInitial>>,
         \A a \in Accounts : Granted(a)' = Granted(a) /\ DataTo(a)' = DataTo(a),
         \A s \in Streams : /\ rstate'[s] = "open" => rstate[s] = "open"
                            /\ sstate'[s] \in {"idle", "open"} => sstate[s] = sstate'[s]
  PROVE  ConnCredit' /\ StreamCredit'
<1>1. ConnCredit'
  BY Conns DEF ConnCredit
<1>2. StreamCredit'
  <2> SUFFICES ASSUME NEW s \in Streams, rstate'[s] = "open", sstate'[s] \in {"idle", "open"}
               PROVE  May(s)' + DataTo(s)' + Granted(s)'
                        = Room(window'[s]) + peerInitial' - lastInitial'
    BY DEF StreamCredit
  <2>1. May(s)' = May(s)
    BY DEF May
  <2>2. May(s) + DataTo(s) + Granted(s) = Room(window[s]) + peerInitial - lastInitial
    BY DEF StreamCredit
  <2> QED
    BY <2>1, <2>2, Conns
<1> QED
  BY <1>1, <1>2

LEMMA SubmitRequestCredit ==
  ASSUME FlowInv, ConnCredit, StreamCredit, NEW s \in Streams, SubmitRequest(s)
  PROVE  ConnCredit' /\ StreamCredit'
<1>1. /\ rqueue'.reg = Append(rqueue.reg, Headers(s)) /\ Headers(s) \in Frames
      /\ Headers(s).kind # "WINDOW_UPDATE"
  <2>1. rqueue' = [rqueue EXCEPT !.reg = Append(@, Headers(s))] /\ rqueue \in QueueTypes
    BY OrderFields DEF SubmitRequest
  <2>2. rqueue'.reg = Append(rqueue.reg, Headers(s))
    BY <2>1 DEF QueueTypes
  <2> QED
    BY <2>2, FrameTypes
<1>2. UNCHANGED <<toSender, toReceiver, window, remote, peerInitial, lastInitial, sstate>>
  BY DEF SubmitRequest, sender
<1>3. \A a \in Accounts : Granted(a)' = Granted(a) /\ DataTo(a)' = DataTo(a)
  BY <1>1, <1>2, NoCredit
<1>4. \A t \in Streams : rstate'[t] = "open" => rstate[t] = "open"
  BY OrderFields DEF SubmitRequest
<1> QED
  BY <1>2, <1>3, <1>4, CreditStays

LEMMA SameCredit ==
  ASSUME UNCHANGED <<toSender, toReceiver>>, rqueue'.reg = rqueue.reg, NEW a \in Accounts
  PROVE  Granted(a)' = Granted(a) /\ DataTo(a)' = DataTo(a)
BY DEF Granted, DataTo

LEMMA SubmitSettingsCredit ==
  ASSUME FlowInv, ConnCredit, StreamCredit, NEW v \in Initials, SubmitSettings(v)
  PROVE  ConnCredit' /\ StreamCredit'
<1>1. rqueue'.reg = rqueue.reg
  BY OrderFields DEF SubmitSettings, QueueTypes
<1>2. UNCHANGED <<toSender, toReceiver, window, remote, peerInitial, lastInitial, rstate, sstate>>
  BY DEF SubmitSettings, sender
<1>3. \A a \in Accounts : Granted(a)' = Granted(a) /\ DataTo(a)' = DataTo(a)
  BY <1>1, <1>2, SameCredit
<1> QED
  BY <1>2, <1>3, CreditStays

LEMMA CancelCredit ==
  ASSUME FlowInv, ConnCredit, StreamCredit, NEW s \in Streams, Cancel(s)
  PROVE  ConnCredit' /\ StreamCredit'
<1>1. rqueue'.reg = rqueue.reg
  BY OrderFields DEF Cancel, QueueTypes
<1>2. UNCHANGED <<toSender, toReceiver, window, remote, peerInitial, lastInitial, sstate>>
  BY DEF Cancel, sender
<1>3. \A a \in Accounts : Granted(a)' = Granted(a) /\ DataTo(a)' = DataTo(a)
  BY <1>1, <1>2, SameCredit
<1>4. \A t \in Streams : rstate'[t] = "open" => rstate[t] = "open"
  BY OrderFields DEF Cancel, ResetState
<1> QED
  BY <1>2, <1>3, <1>4, CreditStays

LEMMA SendSettingsCredit ==
  ASSUME FlowInv, ConnCredit, StreamCredit, OrderInv, SendSettings
  PROVE  ConnCredit' /\ StreamCredit'
<1>1. rqueue'.reg = rqueue.reg
  BY OrderFields DEF SendSettings, QueueTypes
<1>2. UNCHANGED <<toReceiver, window, remote, peerInitial, lastInitial, rstate, sstate>>
  BY DEF SendSettings, sender
<1> DEFINE f == Head(rqueue.urgent)
<1>3. f \in Frames /\ f.kind # "WINDOW_UPDATE" /\ toSender' = Append(toSender, f)
  <2>1. rqueue.urgent # <<>> /\ toSender' = Append(toSender, f)
    BY DEF SendSettings
  <2>2. f \in In(rqueue.urgent) /\ f \in Frames
    BY <2>1, OrderFields, InTail
  <2> QED
    BY <2>1, <2>2 DEF OrderInv, Urgent
<1> HIDE DEF f
<1>4. \A a \in Accounts : Granted(a)' = Granted(a) /\ DataTo(a)' = DataTo(a)
  BY <1>1, <1>2, <1>3, NoCredit
<1> QED
  BY <1>2, <1>4, CreditStays

LEMMA SendRstCredit ==
  ASSUME FlowInv, ConnCredit, StreamCredit, NEW s \in Streams, SendRst(s)
  PROVE  ConnCredit' /\ StreamCredit'
<1>1. rqueue'.reg = rqueue.reg
  BY OrderFields DEF SendRst, QueueTypes
<1>2. UNCHANGED <<toReceiver, window, remote, peerInitial, lastInitial, sstate>>
  BY DEF SendRst, sender
<1>3. Rst(s) \in Frames /\ Rst(s).kind # "WINDOW_UPDATE" /\ toSender' = Append(toSender, Rst(s))
  <2>1. Rst(s).kind # "WINDOW_UPDATE"
    BY DEF Rst
  <2> QED
    BY <2>1, FrameTypes DEF SendRst
<1>4. \A a \in Accounts : Granted(a)' = Granted(a) /\ DataTo(a)' = DataTo(a)
  BY <1>1, <1>2, <1>3, NoCredit
<1>5. \A t \in Streams : rstate'[t] = "open" => rstate[t] = "open"
  BY OrderFields DEF SendRst
<1> QED
  BY <1>2, <1>4, <1>5, CreditStays

LEMMA RecvRstCredit ==
  ASSUME FlowInv, ConnCredit, StreamCredit, RecvRst
  PROVE  ConnCredit' /\ StreamCredit'
<1> DEFINE f == Head(toReceiver)
<1>1. /\ toReceiver # <<>> /\ f.kind = "RST_STREAM" /\ toReceiver' = Tail(toReceiver)
      /\ rstate' = [rstate EXCEPT ![f.of] = "closed"]
      /\ UNCHANGED <<rqueue, toSender, window, remote, peerInitial, lastInitial, sstate>>
  BY DEF RecvRst, Arrived, sender
<1>2. f \in Frames /\ f.kind \notin DataKinds
  <2>1. f \in Frames
    BY <1>1, OrderFields, InTail
  <2> QED
    BY <1>1, <2>1 DEF DataKinds
<1>3. \A t \in Streams : rstate'[t] = "open" => rstate[t] = "open"
  BY <1>1, OrderFields
<1>4. \A a \in Accounts : Granted(a)' = Granted(a) /\ DataTo(a)' = DataTo(a)
  BY <1>1, <1>2, NoData0
<1> QED
  BY <1>1, <1>3, <1>4, CreditStays

LEMMA RecvCancelCredit ==
  ASSUME FlowInv, ConnCredit, StreamCredit, RecvCancel
  PROVE  ConnCredit' /\ StreamCredit'
<1> DEFINE f == Head(toSender)
<1>1. /\ toSender # <<>> /\ f.kind = "RST_STREAM" /\ toSender' = Tail(toSender)
      /\ sstate' = [sstate EXCEPT ![f.of] = "closed"]
      /\ UNCHANGED <<rqueue, toReceiver, window, remote, peerInitial, lastInitial, rstate>>
  BY DEF RecvCancel, Arrived, receiver
<1>2. f \in Frames /\ f.kind # "WINDOW_UPDATE" /\ rqueue'.reg = rqueue.reg
  BY <1>1, OrderFields
<1>3. \A t \in Streams : sstate'[t] \in {"idle", "open"} => sstate[t] = sstate'[t]
  BY <1>1, OrderFields
<1>4. \A a \in Accounts : Granted(a)' = Granted(a) /\ DataTo(a)' = DataTo(a)
  BY <1>1, <1>2, NoCredit
<1> QED
  BY <1>1, <1>3, <1>4, CreditStays

LEMMA SendAckCredit ==
  ASSUME FlowInv, ConnCredit, StreamCredit, SendAck
  PROVE  ConnCredit' /\ StreamCredit'
<1>1. /\ toReceiver' = Append(toReceiver, Ack)
      /\ UNCHANGED <<rqueue, toSender, window, remote, peerInitial, lastInitial, rstate, sstate>>
  BY DEF SendAck, receiver
<1>2. Ack \in Frames /\ Ack.kind \notin DataKinds
  BY FrameTypes DEF Ack, DataKinds
<1>3. \A a \in Accounts : Granted(a)' = Granted(a) /\ DataTo(a)' = DataTo(a)
  BY <1>1, <1>2, NoData0
<1> QED
  BY <1>1, <1>3, CreditStays

LEMMA SendResetCredit ==
  ASSUME FlowInv, ConnCredit, StreamCredit, NEW s \in Streams, SendReset(s)
  PROVE  ConnCredit' /\ StreamCredit'
<1>1. /\ toReceiver' = Append(toReceiver, Rst(s))
      /\ sstate' = [sstate EXCEPT ![s] = "closed"]
      /\ UNCHANGED <<rqueue, toSender, window, remote, peerInitial, lastInitial, rstate>>
  BY DEF SendReset, receiver
<1>2. Rst(s) \in Frames /\ Rst(s).kind \notin DataKinds
  BY FrameTypes DEF Rst, DataKinds
<1>3. \A a \in Accounts : Granted(a)' = Granted(a) /\ DataTo(a)' = DataTo(a)
  BY <1>1, <1>2, NoData0
<1>4. \A t \in Streams : sstate'[t] \in {"idle", "open"} => sstate[t] = sstate'[t]
  BY <1>1, OrderFields
<1> QED
  BY <1>1, <1>3, <1>4, CreditStays

LEMMA IdleCredit ==
  ASSUME ConnCredit, StreamCredit,
         UNCHANGED <<rqueue, toSender, toReceiver, window, remote, peerInitial, lastInitial,
                     rstate, sstate>>
  PROVE  ConnCredit' /\ StreamCredit'
<1>1. \A a \in Accounts : Granted(a)' = Granted(a) /\ DataTo(a)' = DataTo(a)
  BY SameCredit
<1> QED
  BY <1>1, CreditStays

LEMMA TypesOfCredit ==
  FlowInv => \A a \in Accounts : /\ DataTo(a) \in Nat /\ Granted(a) \in Nat
                                 /\ remote[a] \in Int /\ Room(window[a]) \in Int
                                 /\ window[a] \in Window
BY CreditTypes

LEMMA NextTypes ==
  FlowInv' => (\A a \in Accounts : /\ DataTo(a) \in Nat /\ Granted(a) \in Nat
                                   /\ remote[a] \in Int /\ Room(window[a]) \in Int
                                   /\ window[a] \in Window)'
BY TypesOfCredit, PTL

LEMMA NumberTypes ==
  ASSUME FlowInv
  PROVE  peerInitial \in Int /\ lastInitial \in Int
BY WindowAssumption DEF FlowInv, SenderInv, SenderTypes, ReceiverInv, ReceiverTypes, Sizes

Open(s) == rstate[s] = "open"

(* The window of the receiver, with what is under way for it.              *)
LEMMA CreditMoves ==
  ASSUME FlowInv, FlowInv', ConnCredit, StreamCredit,
         UNCHANGED <<remote, sstate, peerInitial, lastInitial>>,
         Sound(window[Conn]) => Sound(window'[Conn]),
         \A s \in Streams : Open(s)' => Open(s),
         \A a \in Accounts : a = Conn \/ Open(a)' =>
           Room(window'[a]) - Granted(a)' - DataTo(a)' = Room(window[a]) - Granted(a) - DataTo(a)
  PROVE  ConnCredit' /\ StreamCredit'
<1>1. \A a \in Accounts : /\ DataTo(a) \in Nat /\ Granted(a) \in Nat
                          /\ remote[a] \in Int /\ Room(window[a]) \in Int
  BY TypesOfCredit
<1>2. \A a \in Accounts : /\ DataTo(a)' \in Nat /\ Granted(a)' \in Nat
                          /\ Room(window'[a]) \in Int
  BY NextTypes
<1>3. ConnCredit'
  <2>1. Room(window'[Conn]) - Granted(Conn)' - DataTo(Conn)'
          = Room(window[Conn]) - Granted(Conn) - DataTo(Conn)
    BY Conns
  <2>2. remote'[Conn] + DataTo(Conn)' + Granted(Conn)' = Room(window'[Conn])
    BY <1>1, <1>2, <2>1, Conns DEF ConnCredit
  <2> QED
    BY <2>2 DEF ConnCredit
<1>4. StreamCredit'
  <2>0. SUFFICES ASSUME NEW s \in Streams, rstate'[s] = "open", sstate'[s] \in {"idle", "open"}
                 PROVE  May(s)' + DataTo(s)' + Granted(s)'
                          = Room(window'[s]) + peerInitial' - lastInitial'
    BY DEF StreamCredit
  <2> DEFINE r  == Room(window[s])
             r1 == Room(window'[s])
  <2>1. May(s)' = May(s) /\ May(s) \in Int
    BY <1>1, Conns, NumberTypes DEF May
  <2>2. May(s) + DataTo(s) + Granted(s) = r + peerInitial - lastInitial
    BY <2>0 DEF StreamCredit, Open
  <2>3. r1 - Granted(s)' - DataTo(s)' = r - Granted(s) - DataTo(s)
    BY <2>0, Conns DEF Open
  <2>4. /\ DataTo(s) \in Nat /\ Granted(s) \in Nat /\ r \in Int
        /\ DataTo(s)' \in Nat /\ Granted(s)' \in Nat /\ r1 \in Int
        /\ peerInitial' = peerInitial /\ lastInitial' = lastInitial
        /\ peerInitial \in Int /\ lastInitial \in Int
    BY <1>1, <1>2, Conns, NumberTypes
  <2> HIDE DEF r, r1
  <2>5. May(s)' + DataTo(s)' + Granted(s)' = r1 + peerInitial' - lastInitial'
    BY <2>1, <2>2, <2>3, <2>4
  <2> QED
    BY <2>5 DEF r, r1
<1> QED
  BY <1>3, <1>4

(* An increment is granted and queued.                                     *)
LEMMA ChangeCredit ==
  ASSUME FlowInv, FlowInv', ConnCredit, StreamCredit, NEW a \in Accounts, NEW r, Change(a, r),
         ResultOf(r, window[a], 0), r.grant \in Nat, Sound(window[a]) => Sound(r.window)
  PROVE  ConnCredit' /\ StreamCredit'
<1>1. /\ window' = [window EXCEPT ![a] = Marked(r)]
      /\ UNCHANGED <<toSender, toReceiver, remote, sstate, peerInitial, lastInitial, rstate>>
  BY DEF Change, sender
<1>2. rqueue'.reg = Queued(rqueue.reg, a, r.grant)
  BY OrderFields DEF Change, QueueTypes
<1>3. r.window \in Window /\ Room(r.window) = Room(window[a]) + r.grant
  BY TypesOfCredit DEF ResultOf
<1>4. Room(Marked(r)) = Room(r.window) /\ (Sound(r.window) => Sound(Marked(r)))
  BY <1>3, MarkedFields
<1>5. Sound(window[Conn]) => Sound(window'[Conn])
  BY <1>1, <1>4, OrderFields, Conns
<1>6. ASSUME NEW b \in Accounts
      PROVE  Room(window'[b]) - Granted(b)' - DataTo(b)' = Room(window[b]) - Granted(b) - DataTo(b)
  <2> DEFINE g == Share(a, b, r.grant)
  <2>1. Waits(b)' = Waits(b) + g
    <3>0. rqueue.reg \in Seq(Frames)
      BY OrderFields
    <3>1. Bytes(Queued(rqueue.reg, a, r.grant), Updates, {b}) = Bytes(rqueue.reg, Updates, {b}) + g
      BY <3>0, BytesQueued
    <3> QED
      BY <1>2, <3>1 DEF Waits
  <2>2. OnWire(b)' = OnWire(b) /\ DataTo(b)' = DataTo(b)
    BY <1>1, DataSame DEF OnWire
  <2>3. Room(window'[b]) = Room(window[b]) + g
    <3>1. CASE a = b
      BY <1>1, <1>3, <1>4, <3>1, OrderFields DEF Share
    <3>2. CASE a # b
      BY <1>1, <3>2, OrderFields, TypesOfCredit DEF Share
    <3> QED
      BY <3>1, <3>2
  <2>4. g \in Nat
    BY DEF Share
  <2> HIDE DEF g
  <2> QED
    BY <2>1, <2>2, <2>3, <2>4, PartTypes, TypesOfCredit, GrantedParts
<1>7. \A s \in Streams : Open(s)' => Open(s)
  BY <1>1 DEF Open
<1> QED
  BY <1>1, <1>5, <1>6, <1>7, CreditMoves

LEMMA SetLocalWindowSizeCredit ==
  ASSUME FlowInv, FlowInv', ConnCredit, StreamCredit,
         NEW a \in Tuned, NEW size \in NewSizes, SetLocalWindowSize(a, size)
  PROVE  ConnCredit' /\ StreamCredit'
<1>1. a \in Accounts /\ size \in Sizes /\ window[a] \in Window
  BY FlowAssumption, OrderFields
<1> QED
  BY <1>1, SetSizeResult, SetSizeSound, ChangeCredit DEF SetLocalWindowSize

LEMMA SubmitWindowUpdateCredit ==
  ASSUME FlowInv, FlowInv', ConnCredit, StreamCredit,
         NEW a \in Tuned, NEW i \in Increments, SubmitWindowUpdate(a, i)
  PROVE  ConnCredit' /\ StreamCredit'
<1> DEFINE r == IF i > 0 THEN Grant(window[a], i) ELSE Shrink(window[a], -i)
<1>1. a \in Accounts /\ i \in Int /\ i # 0 /\ window[a] \in Window /\ Change(a, r)
  BY FlowAssumption, OrderFields DEF SubmitWindowUpdate
<1>2. ResultOf(r, window[a], 0) /\ r.grant \in Nat /\ (Sound(window[a]) => Sound(r.window))
  <2>1. CASE i > 0
    <3>1. i \in Nat \ {0}
      BY <1>1, <2>1
    <3> QED
      BY <1>1, <2>1, <3>1, GrantResult, GrantSound
  <2>2. CASE ~(i > 0)
    <3>1. -i \in Nat
      BY <1>1, <2>2
    <3> QED
      BY <1>1, <2>2, <3>1, ShrinkResult, ShrinkSound
  <2> QED
    BY <2>1, <2>2
<1> HIDE DEF r
<1> QED
  BY <1>1, <1>2, ChangeCredit

(* The result of a call for the connection and of one for a stream, both   *)
(* queued: what RecvData and Consume do.                                   *)
LEMMA BothCredit ==
  ASSUME FlowInv, NEW s \in Streams, NEW c, NEW r,
         r.window \in Window, c.window \in Window, c.grant \in Nat, r.grant \in Nat,
         window' = [window EXCEPT ![Conn] = Marked(c), ![s] = Marked(r)],
         rqueue'.reg = Queued(Queued(rqueue.reg, Conn, c.grant), s, r.grant),
         UNCHANGED toSender
  PROVE  /\ Room(window'[Conn]) = Room(c.window) /\ Room(window'[s]) = Room(r.window)
         /\ Sound(c.window) => Sound(window'[Conn])
         /\ Granted(Conn)' = Granted(Conn) + c.grant /\ Granted(s)' = Granted(s) + r.grant
         /\ \A b \in Accounts : b # Conn /\ b # s =>
              window'[b] = window[b] /\ Granted(b)' = Granted(b)
<1> DEFINE p == Queued(rqueue.reg, Conn, c.grant)
           q == Queued(p, s, r.grant)
<1>1. s \in Accounts /\ Conn \in Accounts /\ s # Conn /\ window \in [Accounts -> Window]
  BY Conns, OrderFields
<1>2. /\ window'[Conn] = Marked(c) /\ window'[s] = Marked(r)
      /\ \A b \in Accounts : b # Conn /\ b # s => window'[b] = window[b]
  BY <1>1
<1>3. /\ Room(Marked(c)) = Room(c.window) /\ (Sound(c.window) => Sound(Marked(c)))
      /\ Room(Marked(r)) = Room(r.window)
  BY MarkedFields
<1>4. p \in Seq(Frames) /\ \A b : Bytes(p, Updates, {b})
         = Bytes(rqueue.reg, Updates, {b}) + Share(Conn, b, c.grant)
  <2>1. rqueue.reg \in Seq(Frames)
    BY OrderFields
  <2>2. ASSUME NEW b PROVE p \in Seq(Frames) /\ Bytes(p, Updates, {b})
         = Bytes(rqueue.reg, Updates, {b}) + Share(Conn, b, c.grant)
    BY <1>1, <2>1, BytesQueued
  <2> HIDE DEF p
  <2> QED
    BY <2>2
<1>5. rqueue'.reg = q
  OBVIOUS
<1> HIDE DEF p
<1>6. ASSUME NEW b
      PROVE  Bytes(q, Updates, {b}) = Bytes(p, Updates, {b}) + Share(s, b, r.grant)
  <2>1. p \in Seq(Frames)
    BY <1>4
  <2> QED
    BY <1>1, <2>1, BytesQueued
<1> HIDE DEF q
<1>7. ASSUME NEW b \in Accounts
      PROVE  Granted(b)' = Granted(b) + Share(Conn, b, c.grant)
                                      + Share(s, b, r.grant)
  <2> DEFINE x == Share(Conn, b, c.grant)
             y == Share(s, b, r.grant)
  <2>1. Waits(b)' = (Waits(b) + x) + y
    <3>1. Bytes(q, Updates, {b}) = (Bytes(rqueue.reg, Updates, {b}) + x) + y
      BY <1>4, <1>6
    <3> QED
      BY <1>5, <3>1 DEF Waits
  <2>2. OnWire(b)' = OnWire(b)
    BY DEF OnWire
  <2>3. x \in Nat /\ y \in Nat
    BY DEF Share
  <2> HIDE DEF x, y
  <2>4. Granted(b)' = Granted(b) + x + y
    BY <2>1, <2>2, <2>3, PartTypes, GrantedParts
  <2> QED
    BY <2>4 DEF x, y
<1>8. \A b \in Accounts : Granted(b) \in Nat
  BY TypesOfCredit
<1>9. Granted(Conn)' = Granted(Conn) + c.grant
  BY <1>1, <1>7, <1>8 DEF Share
<1>10. Granted(s)' = Granted(s) + r.grant
  BY <1>1, <1>7, <1>8 DEF Share
<1>11. ASSUME NEW b \in Accounts, b # Conn, b # s PROVE Granted(b)' = Granted(b)
  <2>1. Granted(b)' = Granted(b) + Share(Conn, b, c.grant)
                                 + Share(s, b, r.grant)
    BY <1>7
  <2> QED
    BY <1>8, <1>11, <2>1 DEF Share
<1> QED
  BY <1>2, <1>3, <1>9, <1>10, <1>11

LEMMA ResultRoom ==
  ASSUME NEW w \in Window, NEW r, ResultOf(r, w, 0)
  PROVE  r.window \in Window /\ Room(r.window) = Room(w) + r.grant
BY Fields DEF ResultOf

LEMMA ConsumedRoom ==
  ASSUME NEW w \in Window, NEW n \in Nat
  PROVE  /\ Consumed(w, n).window \in Window /\ Consumed(w, n).grant \in Nat
         /\ Room(Consumed(w, n).window) = Room(w) + Consumed(w, n).grant
         /\ Sound(w) => Sound(Consumed(w, n).window)
BY ConsumedResult, ConsumedSound, ResultRoom

LEMMA ReceivedRoom ==
  ASSUME NEW w \in Window, NEW n \in Nat, NEW updates \in BOOLEAN
  PROVE  /\ Received(w, n, updates).window \in Window /\ Received(w, n, updates).grant \in Nat
         /\ Received(w, n, updates).ok =>
              Room(Received(w, n, updates).window) = Room(w) + Received(w, n, updates).grant - n
         /\ Sound(w) => Sound(Received(w, n, updates).window)
BY ReceivedResult, ReceivedSound DEF ResultOf

LEMMA ConsumeCredit ==
  ASSUME FlowInv, FlowInv', ConnCredit, StreamCredit,
         NEW s \in Streams, NEW n \in 1 .. Body, Consume(s, n)
  PROVE  ConnCredit' /\ StreamCredit'
<1> DEFINE c == Consumed(window[Conn], n)
           r == IF Known(rstate, s) THEN Consumed(window[s], n) ELSE Result(window[s], 0)
<1>1. /\ window' = [window EXCEPT ![Conn] = Marked(c), ![s] = Marked(r)]
      /\ rqueue' = [rqueue EXCEPT !.reg = Queued(Queued(@, Conn, c.grant), s, r.grant)]
      /\ UNCHANGED <<toSender, toReceiver, remote, sstate, rstate, peerInitial, lastInitial>>
  BY DEF Consume, sender
<1>2. window[s] \in Window /\ window[Conn] \in Window /\ n \in Nat
  BY Conns, TypesOfCredit
<1>3. /\ c.window \in Window /\ c.grant \in Nat /\ Room(c.window) = Room(window[Conn]) + c.grant
      /\ Sound(window[Conn]) => Sound(c.window)
  BY <1>2, ConsumedRoom
<1>4. r.window \in Window /\ r.grant \in Nat /\ Room(r.window) = Room(window[s]) + r.grant
  <2>1. CASE Known(rstate, s)
    BY <1>2, <2>1, ConsumedRoom
  <2>2. CASE ~Known(rstate, s)
    BY <1>2, <2>2, TypesOfCredit, Conns DEF Result
  <2> QED
    BY <2>1, <2>2
<1> HIDE DEF c, r
<1>5. rqueue'.reg = Queued(Queued(rqueue.reg, Conn, c.grant), s, r.grant)
  BY <1>1, OrderFields DEF QueueTypes
<1>6. /\ Room(window'[Conn]) = Room(c.window) /\ Room(window'[s]) = Room(r.window)
      /\ Sound(c.window) => Sound(window'[Conn])
      /\ Granted(Conn)' = Granted(Conn) + c.grant /\ Granted(s)' = Granted(s) + r.grant
      /\ \A b \in Accounts : b # Conn /\ b # s =>
           window'[b] = window[b] /\ Granted(b)' = Granted(b)
  BY <1>1, <1>3, <1>4, <1>5, BothCredit
<1>7. ASSUME NEW b \in Accounts
      PROVE  Room(window'[b]) - Granted(b)' - DataTo(b)' = Room(window[b]) - Granted(b) - DataTo(b)
  <2>1. DataTo(b)' = DataTo(b)
    BY <1>1, DataSame
  <2>2. DataTo(b) \in Nat /\ Granted(b) \in Nat /\ Room(window[b]) \in Int
    BY TypesOfCredit
  <2>3. CASE b = Conn
    BY <1>3, <1>6, <2>1, <2>2, <2>3
  <2>4. CASE b = s
    BY <1>4, <1>6, <2>1, <2>2, <2>4
  <2>5. CASE b # Conn /\ b # s
    BY <1>6, <2>1, <2>2, <2>5
  <2> QED
    BY <2>3, <2>4, <2>5
<1>8. \A t \in Streams : Open(t)' => Open(t)
  BY <1>1 DEF Open
<1> QED
  BY <1>1, <1>3, <1>6, <1>7, <1>8, CreditMoves

(* DATA for the connection fits its window.                                *)
LEMMA DataFits ==
  ASSUME NEW w \in Window, NEW n \in Nat, n <= Room(w), NEW updates \in BOOLEAN
  PROVE  Received(w, n, updates).ok /\ (~updates => Received(w, n, updates).grant = 0)
<1>1. w.recv <= w.local - n /\ w.recv <= MaxWindow - n
  BY Fields, WindowAssumption
<1> QED
  BY <1>1, Fields, WindowAssumption DEF Received, Result, Refused

LEMMA RecvDataCredit ==
  ASSUME FlowInv, FlowInv', ConnCredit, StreamCredit, RecvData
  PROVE  ConnCredit' /\ StreamCredit'
<1>0. PICK s \in Streams, n \in Nat, end \in BOOLEAN :
        LET open == rstate[s] = "open"
            c0   == Received(window[Conn], n, auto)
            c    == IF open \/ auto \/ ~c0.ok THEN c0 ELSE Consumed(c0.window, n)
            r    == IF open THEN Received(window[s], n, auto /\ ~end) ELSE Result(window[s], 0)
            reset == IF r.ok THEN {} ELSE {s}
            S    == ResetQueue(rqueue.syn, rstate, reset)
        IN  /\ window' = [window EXCEPT ![Conn] = Marked(c), ![s] = Marked(r)]
            /\ rqueue' = Requeued(rqueue, Queued(Queued(rqueue.reg, Conn, c.grant), s, r.grant), S)
            /\ rstate' = IF open /\ end THEN [rstate EXCEPT ![s] = "closed"]
                         ELSE ResetState(rstate, reset)
            /\ Head(toReceiver).of = s /\ Head(toReceiver).n = n
  <2>1. toReceiver # <<>> /\ Head(toReceiver).kind \in DataKinds
    BY DEF RecvData, Arrived, DataKinds
  <2>2. Head(toReceiver) \in Frames
    BY <2>1, OrderFields, InTail
  <2>3. /\ Head(toReceiver).of \in Streams /\ Head(toReceiver).n \in Nat
        /\ DataOf(Head(toReceiver)) \in BOOLEAN
    BY <2>1, <2>2, FrameFields DEF DataKinds, DataOf
  <2> QED
    BY <2>3, Zenon DEF RecvData, Requeued
<1> DEFINE f    == Head(toReceiver)
           open == rstate[s] = "open"
           c0   == Received(window[Conn], n, auto)
           c    == IF open \/ auto \/ ~c0.ok THEN c0 ELSE Consumed(c0.window, n)
           r    == IF open THEN Received(window[s], n, auto /\ ~end) ELSE Result(window[s], 0)
           reset == IF r.ok THEN {} ELSE {s}
           S    == ResetQueue(rqueue.syn, rstate, reset)
           p    == Queued(Queued(rqueue.reg, Conn, c.grant), s, r.grant)
<1>1. /\ window' = [window EXCEPT ![Conn] = Marked(c), ![s] = Marked(r)]
      /\ rqueue' = Requeued(rqueue, p, S)
      /\ rstate' = IF open /\ end THEN [rstate EXCEPT ![s] = "closed"]
                   ELSE ResetState(rstate, reset)
      /\ f.of = s /\ f.n = n
  BY <1>0, Zenon
<1>14. /\ toReceiver # <<>> /\ toReceiver' = Tail(toReceiver) /\ f.kind \in DataKinds
       /\ UNCHANGED <<toSender, remote, sstate, peerInitial, lastInitial>>
  BY DEF RecvData, Arrived, sender, DataKinds
<1>2. f \in Frames /\ auto \in BOOLEAN
  BY <1>14, OrderFields, InTail
<1>3. /\ s \in Accounts /\ Conn \in Accounts /\ s # Conn
      /\ window[s] \in Window /\ window[Conn] \in Window
      /\ Room(window[s]) \in Int /\ Room(window[Conn]) \in Int
  BY <1>2, Conns, TypesOfCredit
<1>4. \A a \in Accounts : DataTo(a) = Counted(f, DataKinds, Of(a)) + DataTo(a)'
  BY <1>2, <1>14, DataTaken
<1>5. /\ Counted(f, DataKinds, Of(Conn)) = n /\ Counted(f, DataKinds, Of(s)) = n
      /\ \A a \in Accounts : a # Conn /\ a # s => Counted(f, DataKinds, Of(a)) = 0
  BY <1>1, <1>14, <1>3 DEF Counted, Of
<1>6. /\ DataTo(Conn) = n + DataTo(Conn)' /\ DataTo(s) = n + DataTo(s)'
      /\ \A a \in Accounts : a # Conn /\ a # s => DataTo(a) = 0 + DataTo(a)'
  <2> HIDE DEF f
  <2>1. DataTo(Conn) = Counted(f, DataKinds, Of(Conn)) + DataTo(Conn)'
    BY <1>3, <1>4
  <2>2. DataTo(s) = Counted(f, DataKinds, Of(s)) + DataTo(s)'
    BY <1>3, <1>4
  <2>3. ASSUME NEW a \in Accounts, a # Conn, a # s PROVE DataTo(a) = 0 + DataTo(a)'
    <3>1. DataTo(a) = Counted(f, DataKinds, Of(a)) + DataTo(a)' /\ Counted(f, DataKinds, Of(a)) = 0
      BY <1>4, <1>5, <2>3
    <3> QED
      BY <3>1
  <2> QED
    BY <1>5, <2>1, <2>2, <2>3
<1> HIDE DEF f
<1>7. n <= Room(window[Conn])
  <2>1. /\ remote[Conn] \in Int /\ remote[Conn] >= 0 /\ Granted(Conn) \in Nat
        /\ DataTo(Conn)' \in Nat
    BY <1>3, TypesOfCredit, NextTypes DEF ConnCredit
  <2>2. remote[Conn] + (n + DataTo(Conn)') + Granted(Conn) = Room(window[Conn])
    BY <1>6 DEF ConnCredit
  <2> DEFINE x == Room(window[Conn])
  <2>3. x \in Int /\ remote[Conn] + (n + DataTo(Conn)') + Granted(Conn) = x
    BY <1>3, <2>2
  <2> HIDE DEF x
  <2>4. n <= x
    BY <1>2, <2>1, <2>3
  <2> QED
    BY <2>4 DEF x
<1>8. /\ c.window \in Window /\ c.grant \in Nat
      /\ Room(c.window) = Room(window[Conn]) + c.grant - n
      /\ Sound(window[Conn]) => Sound(c.window)
  <2>1. /\ c0.ok /\ (~auto => c0.grant = 0) /\ c0.window \in Window /\ c0.grant \in Nat
        /\ Room(c0.window) = Room(window[Conn]) + c0.grant - n
        /\ Sound(window[Conn]) => Sound(c0.window)
    <3>1. c0.ok /\ (~auto => c0.grant = 0)
      BY <1>2, <1>3, <1>7, DataFits
    <3> QED
      BY <1>2, <1>3, <3>1, ReceivedRoom
  <2> HIDE DEF c0
  <2>2. CASE open \/ auto
    BY <2>1, <2>2
  <2>3. CASE ~(open \/ auto)
    <3> DEFINE d == Consumed(c0.window, n)
    <3>1. /\ d.window \in Window /\ d.grant \in Nat /\ (Sound(c0.window) => Sound(d.window))
          /\ Room(d.window) = Room(c0.window) + d.grant
      BY <1>2, <2>1, ConsumedRoom
    <3>2. c = d
      BY <2>1, <2>3
    <3> HIDE DEF d, c
    <3>3. Room(c0.window) \in Int
      BY <2>1, Fields
    <3>5. Room(c0.window) = Room(window[Conn]) - n
      BY <1>2, <1>3, <2>1, <2>3
    <3>6. Room(d.window) = Room(window[Conn]) + d.grant - n
      <4> DEFINE x == Room(window[Conn])
      <4>1. x \in Int /\ Room(d.window) = (x - n) + d.grant
        BY <1>3, <3>1, <3>5
      <4> HIDE DEF x
      <4>2. Room(d.window) = x + d.grant - n
        BY <1>2, <3>1, <4>1
      <4> QED
        BY <4>2 DEF x
    <3> QED
      BY <2>1, <3>1, <3>2, <3>6
  <2> QED
    BY <2>2, <2>3
<1>9. /\ r.window \in Window /\ r.grant \in Nat
      /\ open /\ r.ok => Room(r.window) = Room(window[s]) + r.grant - n
  <2>1. CASE open
    BY <1>2, <1>3, <2>1, ReceivedRoom
  <2>2. CASE ~open
    BY <1>3, <2>2 DEF Result
  <2> QED
    BY <2>1, <2>2
<1> HIDE DEF c, r
<1>10. rqueue'.reg = p
  BY <1>1, OrderFields DEF QueueTypes, Requeued
<1>11. /\ Room(window'[Conn]) = Room(c.window) /\ Room(window'[s]) = Room(r.window)
       /\ Sound(c.window) => Sound(window'[Conn])
       /\ Granted(Conn)' = Granted(Conn) + c.grant /\ Granted(s)' = Granted(s) + r.grant
       /\ \A b \in Accounts : b # Conn /\ b # s =>
            window'[b] = window[b] /\ Granted(b)' = Granted(b)
  <2>1. /\ window' = [window EXCEPT ![Conn] = Marked(c), ![s] = Marked(r)]
        /\ UNCHANGED toSender
    BY <1>1, <1>14
  <2> QED
    BY <1>2, <1>8, <1>9, <1>10, <2>1, BothCredit
<1>12. /\ \A t \in Streams : Open(t)' => Open(t)
       /\ Open(s)' => open /\ r.ok
  <2>1. rstate \in [Streams -> States]
    BY OrderFields
  <2>2. CASE open /\ end
    <3>1. rstate' = [rstate EXCEPT ![s] = "closed"]
      BY <1>1, <2>2
    <3> QED
      BY <1>2, <2>1, <3>1 DEF Open
  <2>3. CASE ~(open /\ end)
    <3>1. rstate' = ResetState(rstate, reset)
      BY <1>1, <2>3
    <3> HIDE DEF reset
    <3>2. \A t \in Streams : rstate'[t] = IF t \in reset /\ Known(rstate, t) THEN "closing" ELSE rstate[t]
      BY <3>1 DEF ResetState
    <3>3. \A t \in Streams : Open(t)' => Open(t) /\ t \notin reset
      BY <3>2 DEF Open, Known
    <3>4. s \notin reset => r.ok
      BY DEF reset
    <3> QED
      BY <1>2, <3>3, <3>4 DEF Open
  <2> QED
    BY <2>2, <2>3
<1>13. ASSUME NEW b \in Accounts, b = Conn \/ Open(b)'
       PROVE  Room(window'[b]) - Granted(b)' - DataTo(b)' = Room(window[b]) - Granted(b) - DataTo(b)
  <2>1. /\ DataTo(b)' \in Nat /\ Granted(b) \in Nat /\ Room(window[b]) \in Int
    BY TypesOfCredit, NextTypes
  <2>2. CASE b = Conn
    <3> DEFINE x == Room(window[Conn])
               y == Room(window'[Conn])
    <3>1. /\ x \in Int /\ y = x + c.grant - n /\ Granted(Conn)' = Granted(Conn) + c.grant
          /\ Granted(Conn) \in Nat /\ DataTo(Conn)' \in Nat
      BY <1>3, <1>8, <1>11, <2>1, <2>2
    <3> HIDE DEF x, y
    <3>2. y - Granted(Conn)' - DataTo(Conn)' = x - Granted(Conn) - DataTo(Conn)
      BY <1>2, <1>6, <1>8, <3>1
    <3> QED
      BY <2>2, <3>2 DEF x, y
  <2>3. CASE b = s
    <3> DEFINE x == Room(window[s])
               y == Room(window'[s])
    <3>1. /\ x \in Int /\ y = x + r.grant - n /\ Granted(s)' = Granted(s) + r.grant
          /\ Granted(s) \in Nat /\ DataTo(s)' \in Nat
      BY <1>3, <1>9, <1>11, <1>12, <1>13, <2>1, <2>3
    <3> HIDE DEF x, y
    <3>2. y - Granted(s)' - DataTo(s)' = x - Granted(s) - DataTo(s)
      BY <1>2, <1>6, <1>9, <3>1
    <3> QED
      BY <2>3, <3>2 DEF x, y
  <2>4. CASE b # Conn /\ b # s
    <3>1. DataTo(b) = DataTo(b)'
      BY <1>6, <2>1, <2>4
    <3> QED
      BY <1>11, <2>4, <3>1
  <2> QED
    BY <2>2, <2>3, <2>4
<1> QED
  BY <1>14, <1>8, <1>11, <1>12, <1>13, CreditMoves

(* Before its request a stream has no frames under way.                    *)
LEMMA NothingUnderWay ==
  ASSUME FlowInv, OrderInv, NEW s \in Streams, rstate[s] \in Unsent
  PROVE  Granted(s) = 0 /\ DataTo(s) = 0
<1>1. /\ rqueue.reg \in Seq(Frames) /\ toSender \in Seq(Frames) /\ toReceiver \in Seq(Frames)
  BY OrderFields
<1>2. /\ sstate[s] = "idle" /\ \A f \in In(toSender) : f.of # s
      /\ \A f \in In(rqueue.reg) : f.of = s => f.kind = "HEADERS"
  BY DEF OrderInv, NotYet
<1>3. \A f \in In(toReceiver) : f.of # s
  BY <1>2 DEF OrderInv, Unheard
<1>4. \A i \in 1 .. Len(rqueue.reg) : Counted(rqueue.reg[i], Updates, {s}) = 0
  BY <1>2 DEF In, Counted, Updates
<1>5. \A i \in 1 .. Len(toSender) : Counted(toSender[i], Updates, {s}) = 0
  BY <1>2 DEF In, Counted
<1>6. \A i \in 1 .. Len(toReceiver) : Counted(toReceiver[i], DataKinds, Of(s)) = 0
  BY <1>3, Conns DEF In, Counted, Of
<1>7. Waits(s) = 0
  BY <1>1, <1>4, BytesNone DEF Waits
<1>8. OnWire(s) = 0
  BY <1>1, <1>5, BytesNone DEF OnWire
<1>9. DataTo(s) = 0
  BY <1>1, <1>6, BytesNone, DataParts
<1> QED
  BY <1>7, <1>8, <1>9, GrantedParts

(* A frame of the queue goes on the wire, and an increment may follow it.  *)
LEMMA HeadSent ==
  ASSUME FlowInv, rqueue.reg # <<>>, UNCHANGED toReceiver, NEW a \in Accounts, NEW n \in Nat,
         toSender' = Append(toSender, Head(rqueue.reg)),
         rqueue'.reg = Queued(Tail(rqueue.reg), a, n), NEW b \in Accounts
  PROVE  /\ Granted(b)' = Granted(b) + Share(a, b, n) /\ DataTo(b)' = DataTo(b)
         /\ Share(a, b, n) \in Nat
<1> DEFINE f == Head(rqueue.reg)
           c == Counted(f, Updates, {b})
           q == Tail(rqueue.reg)
           x == Bytes(q, Updates, {b})
<1>1. rqueue.reg \in Seq(Frames) /\ f \in Frames /\ q \in Seq(Frames)
  BY OrderFields
<1>2. Waits(b) = c + x
  BY <1>1, BytesTail DEF Waits
<1>3. Waits(b)' = x + Share(a, b, n) /\ Share(a, b, n) \in Nat
  <2>1. Bytes(Queued(q, a, n), Updates, {b}) = x + Share(a, b, n) /\ Share(a, b, n) \in Nat
    <3> HIDE DEF q
    <3> QED
      BY <1>1, BytesQueued
  <2> QED
    BY <2>1 DEF Waits
<1>4. OnWire(b)' = OnWire(b) + c
  BY <1>1, WireAppended
<1>5. c \in Nat /\ x \in Nat /\ OnWire(b) \in Nat
  BY <1>1, CountedNat, BytesNat, PartTypes
<1> HIDE DEF c, x
<1> QED
  BY <1>2, <1>3, <1>4, <1>5, GrantedParts, DataSame

LEMMA SendRequestCredit ==
  ASSUME FlowInv, FlowInv', ConnCredit, StreamCredit, OrderInv, SendRequest
  PROVE  ConnCredit' /\ StreamCredit'
<1>1. PICK s : /\ rstate' = [rstate EXCEPT ![s] = "open"]
               /\ window' = [window EXCEPT ![s] = NewWindow(lastInitial)]
               /\ s = Head(rqueue.reg).of
  BY DEF SendRequest
<1>2. /\ rqueue.reg # <<>> /\ Head(rqueue.reg).kind = "HEADERS"
      /\ toSender' = Append(toSender, Head(rqueue.reg))
      /\ rqueue' = [rqueue EXCEPT !.reg = Tail(@)]
      /\ UNCHANGED <<sstate, toReceiver, remote, peerInitial, lastInitial>>
  BY DEF SendRequest, RegTurn, sender
<1>3. Head(rqueue.reg) \in Frames /\ Head(rqueue.reg) \in In(rqueue.reg)
  BY <1>2, OrderFields, InTail
<1>4. s \in Streams /\ rstate[s] = "queued" /\ s \in Accounts /\ s # Conn
  BY <1>1, <1>2, <1>3, FrameFields, Conns DEF OrderInv, Requests
<1>5. sstate[s] = "idle" /\ Granted(s) = 0 /\ DataTo(s) = 0
  BY <1>4, NothingUnderWay DEF OrderInv, NotYet, Unsent
<1>6. rqueue'.reg = Queued(Tail(rqueue.reg), Conn, 0)
  <2>1. rqueue'.reg = Tail(rqueue.reg)
    BY <1>2, OrderFields DEF QueueTypes
  <2> QED
    BY <2>1 DEF Queued
<1>7. \A b \in Accounts : Granted(b)' = Granted(b) /\ DataTo(b)' = DataTo(b)
  <2> SUFFICES ASSUME NEW b \in Accounts PROVE Granted(b)' = Granted(b) /\ DataTo(b)' = DataTo(b)
    OBVIOUS
  <2>1. Share(Conn, b, 0) = 0
    BY DEF Share
  <2>2. Granted(b)' = Granted(b) + Share(Conn, b, 0) /\ DataTo(b)' = DataTo(b)
    BY <1>2, <1>6, Conns, HeadSent
  <2> QED
    BY <2>1, <2>2, TypesOfCredit
<1>8. ConnCredit'
  BY <1>1, <1>2, <1>4, <1>7, OrderFields, Conns DEF ConnCredit
<1>9. StreamCredit'
  <2>0. SUFFICES ASSUME NEW t \in Streams, rstate'[t] = "open", sstate'[t] \in {"idle", "open"}
                 PROVE  May(t)' + DataTo(t)' + Granted(t)'
                          = Room(window'[t]) + peerInitial' - lastInitial'
    BY DEF StreamCredit
  <2>1. DataTo(t)' = DataTo(t) /\ Granted(t)' = Granted(t) /\ May(t)' = May(t)
    BY <1>2, <1>7, Conns DEF May
  <2>2. CASE t = s
    <3>1. Room(window'[t]) = lastInitial
      <4>1. window'[t] = NewWindow(lastInitial)
        BY <1>1, <1>4, <2>2, OrderFields
      <4> QED
        BY <4>1, NumberTypes DEF NewWindow, Room
    <3>2. May(t) = peerInitial /\ DataTo(t) = 0 /\ Granted(t) = 0
      BY <1>5, <2>2 DEF May
    <3> QED
      BY <1>2, <2>1, <3>1, <3>2, NumberTypes
  <2>3. CASE t # s
    <3>1. window'[t] = window[t] /\ rstate[t] = "open"
      BY <1>1, <1>4, <2>0, <2>3, OrderFields, Conns
    <3>2. May(t) + DataTo(t) + Granted(t) = Room(window[t]) + peerInitial - lastInitial
      BY <1>2, <2>0, <3>1 DEF StreamCredit
    <3> QED
      BY <1>2, <2>1, <3>1, <3>2
  <2> QED
    BY <2>2, <2>3
<1> QED
  BY <1>8, <1>9

LEMMA SendUpdateCredit ==
  ASSUME FlowInv, FlowInv', ConnCredit, StreamCredit, SendUpdate
  PROVE  ConnCredit' /\ StreamCredit'
<1>1. /\ rqueue.reg # <<>> /\ Head(rqueue.reg).kind = "WINDOW_UPDATE"
      /\ UNCHANGED <<sstate, toReceiver, remote, peerInitial, lastInitial>>
  BY DEF SendUpdate, RegTurn, sender
<1>2. Head(rqueue.reg) \in Frames /\ rqueue.reg \in Seq(Frames) /\ Tail(rqueue.reg) \in Seq(Frames)
  BY <1>1, OrderFields
<1>3. PICK a \in Accounts :
        LET r    == UpdateSent(window[a])
            send == a = Conn \/ rstate[a] = "open"
            reset == IF r.ok \/ a = Conn \/ ~send THEN {} ELSE {a}
            p == IF send THEN Queued(Tail(rqueue.reg), a, r.grant) ELSE Tail(rqueue.reg)
        IN  /\ window' = IF send THEN [window EXCEPT ![a] = Marked(r)] ELSE window
            /\ rqueue' = Requeued(rqueue, p, ResetQueue(rqueue.syn, rstate, reset))
            /\ rstate' = ResetState(rstate, reset)
            /\ toSender' = IF send THEN Append(toSender, Head(rqueue.reg)) ELSE toSender
            /\ a = Head(rqueue.reg).of
  <2>1. Head(rqueue.reg).of \in Accounts
    BY <1>2, FrameFields
  <2> QED
    BY <2>1, Zenon DEF SendUpdate, Requeued
<1> DEFINE r    == UpdateSent(window[a])
           send == a = Conn \/ rstate[a] = "open"
           reset == IF r.ok \/ a = Conn \/ ~send THEN {} ELSE {a}
           S == ResetQueue(rqueue.syn, rstate, reset)
           p == IF send THEN Queued(Tail(rqueue.reg), a, r.grant) ELSE Tail(rqueue.reg)
<1>4. /\ window' = IF send THEN [window EXCEPT ![a] = Marked(r)] ELSE window
      /\ rqueue' = Requeued(rqueue, p, S) /\ rstate' = ResetState(rstate, reset)
      /\ toSender' = IF send THEN Append(toSender, Head(rqueue.reg)) ELSE toSender
      /\ a = Head(rqueue.reg).of
  BY <1>3, Zenon
<1>5. /\ r.window \in Window /\ r.grant \in Nat /\ Room(r.window) = Room(window[a]) + r.grant
      /\ Sound(window[a]) => Sound(r.window)
  <2>1. window[a] \in Window /\ auto \in BOOLEAN
    BY OrderFields
  <2>2. ResultOf(r, window[a], 0) /\ r.grant \in Nat /\ (Sound(window[a]) => Sound(r.window))
    BY <2>1, UpdateSentResult, UpdateSentSound
  <2> HIDE DEF r
  <2> QED
    BY <2>1, <2>2, ResultRoom
<1> HIDE DEF r
<1>6. rqueue'.reg = p
  <2> HIDE DEF p, S
  <2> QED
    BY <1>4, OrderFields DEF QueueTypes, Requeued
<1>7. \A t \in Streams : Open(t)' => Open(t)
  <2> HIDE DEF reset
  <2> QED
    BY <1>4 DEF Open, ResetState, Known
<1>8. CASE send
  <2>1. /\ window' = [window EXCEPT ![a] = Marked(r)]
        /\ toSender' = Append(toSender, Head(rqueue.reg))
        /\ rqueue'.reg = Queued(Tail(rqueue.reg), a, r.grant)
    BY <1>4, <1>6, <1>8
  <2>2. Room(Marked(r)) = Room(r.window) /\ (Sound(r.window) => Sound(Marked(r)))
    BY <1>5, MarkedFields
  <2>3. Sound(window[Conn]) => Sound(window'[Conn])
    BY <1>5, <2>1, <2>2, OrderFields, Conns
  <2>4. ASSUME NEW b \in Accounts
        PROVE  Room(window'[b]) - Granted(b)' - DataTo(b)' = Room(window[b]) - Granted(b) - DataTo(b)
    <3> DEFINE x == Room(window[b])
               y == Room(window'[b])
    <3>1. /\ Granted(b)' = Granted(b) + Share(a, b, r.grant) /\ DataTo(b)' = DataTo(b)
          /\ Share(a, b, r.grant) \in Nat
      BY <1>1, <1>5, <2>1, HeadSent
    <3>2. y = x + Share(a, b, r.grant)
      <4>1. CASE a = b
        BY <1>5, <2>1, <2>2, <4>1, OrderFields DEF Share
      <4>2. CASE a # b
        BY <2>1, <4>2, OrderFields, TypesOfCredit DEF Share
      <4> QED
        BY <4>1, <4>2
    <3>3. x \in Int /\ Granted(b) \in Nat /\ DataTo(b) \in Nat
      BY TypesOfCredit
    <3> HIDE DEF x, y
    <3>4. y - Granted(b)' - DataTo(b)' = x - Granted(b) - DataTo(b)
      BY <3>1, <3>2, <3>3
    <3> QED
      BY <3>4 DEF x, y
  <2> QED
    BY <1>1, <1>7, <2>3, <2>4, CreditMoves
<1>9. CASE ~send
  <2>1. /\ UNCHANGED <<window, toSender>> /\ rqueue'.reg = Tail(rqueue.reg)
        /\ a # Conn /\ rstate[a] # "open"
    BY <1>4, <1>6, <1>9
  <2>2. ASSUME NEW b \in Accounts, b = Conn \/ Open(b)'
        PROVE  Room(window'[b]) - Granted(b)' - DataTo(b)' = Room(window[b]) - Granted(b) - DataTo(b)
    <3>1. b # a
      <4>1. CASE b = Conn
        BY <2>1, <4>1
      <4>2. CASE b \in Streams /\ Open(b)'
        BY <1>7, <2>1, <4>2 DEF Open
      <4> QED
        BY <2>2, <4>1, <4>2 DEF Accounts
    <3>2. Counted(Head(rqueue.reg), Updates, {b}) = 0
      BY <1>4, <3>1 DEF Counted
    <3>3. Waits(b) = 0 + Waits(b)'
      <4>1. Waits(b) = Counted(Head(rqueue.reg), Updates, {b}) + Waits(b)'
        BY <1>1, <2>1, RegTaken
      <4> QED
        BY <3>2, <4>1
    <3>4. Waits(b)' \in Nat
      <4>1. rqueue'.reg \in Seq(Frames)
        BY <1>2, <2>1
      <4> QED
        BY <4>1, BytesNat DEF Waits
    <3>5. OnWire(b)' = OnWire(b) /\ DataTo(b)' = DataTo(b)
      BY <1>1, <2>1, DataSame DEF OnWire
    <3>6. Granted(b)' = Granted(b)
      BY <3>3, <3>4, <3>5, GrantedParts
    <3> QED
      BY <2>1, <3>5, <3>6
  <2>3. Sound(window[Conn]) => Sound(window'[Conn])
    BY <2>1
  <2> QED
    BY <1>1, <1>7, <2>2, <2>3, CreditMoves
<1> QED
  BY <1>8, <1>9

Here(s) == sstate[s] \in {"idle", "open"}

(* The window of the sender, with what is under way for it.                *)
LEMMA SenderMoves ==
  ASSUME FlowInv, FlowInv', ConnCredit, StreamCredit, UNCHANGED <<window, rstate, lastInitial>>,
         remote'[Conn] >= 0,
         remote'[Conn] + DataTo(Conn)' + Granted(Conn)'
           = remote[Conn] + DataTo(Conn) + Granted(Conn),
         \A s \in Streams : Open(s) /\ Here(s)' =>
           /\ Here(s)
           /\ May(s)' + DataTo(s)' + Granted(s)' - peerInitial'
                = May(s) + DataTo(s) + Granted(s) - peerInitial
  PROVE  ConnCredit' /\ StreamCredit'
<1>1. ConnCredit'
  BY DEF ConnCredit
<1>2. StreamCredit'
  <2>0. SUFFICES ASSUME NEW s \in Streams, rstate'[s] = "open", sstate'[s] \in {"idle", "open"}
                 PROVE  May(s)' + DataTo(s)' + Granted(s)'
                          = Room(window'[s]) + peerInitial' - lastInitial'
    BY DEF StreamCredit
  <2> DEFINE r == Room(window[s])
  <2>1. Open(s) /\ Here(s)'
    BY <2>0 DEF Open, Here
  <2>2. /\ Here(s)
        /\ May(s)' + DataTo(s)' + Granted(s)' - peerInitial'
             = May(s) + DataTo(s) + Granted(s) - peerInitial
    BY <2>1
  <2>3. May(s) + DataTo(s) + Granted(s) = r + peerInitial - lastInitial
    BY <2>1, <2>2 DEF StreamCredit, Open, Here
  <2>4. /\ s \in Accounts /\ DataTo(s) \in Nat /\ Granted(s) \in Nat /\ r \in Int
        /\ DataTo(s)' \in Nat /\ Granted(s)' \in Nat /\ remote[s] \in Int /\ remote'[s] \in Int
        /\ peerInitial \in Int /\ lastInitial \in Int
    BY Conns, TypesOfCredit, NextTypes, NumberTypes
  <2>5. peerInitial' \in Int
    BY WindowAssumption DEF FlowInv, SenderInv, SenderTypes, Sizes
  <2>6. May(s) \in Int /\ May(s)' \in Int
    BY <2>4, <2>5 DEF May
  <2> HIDE DEF r
  <2>7. May(s)' + DataTo(s)' + Granted(s)' = r + peerInitial' - lastInitial
    BY <2>2, <2>3, <2>4, <2>5, <2>6
  <2> QED
    BY <2>7 DEF r
<1> QED
  BY <1>1, <1>2

LEMMA RecvRequestCredit ==
  ASSUME FlowInv, FlowInv', ConnCredit, StreamCredit, OrderInv, RecvRequest
  PROVE  ConnCredit' /\ StreamCredit'
<1>1. PICK s : /\ sstate' = [sstate EXCEPT ![s] = "open"]
               /\ remote' = [remote EXCEPT ![s] = peerInitial]
               /\ s = Head(toSender).of
  BY DEF RecvRequest
<1>2. /\ toSender # <<>> /\ toSender' = Tail(toSender) /\ Head(toSender).kind = "HEADERS"
      /\ UNCHANGED <<window, rstate, lastInitial, peerInitial, toReceiver>>
      /\ rqueue'.reg = rqueue.reg
  BY DEF RecvRequest, Arrived, receiver
<1>3. Head(toSender) \in Frames /\ toSender \in Seq(Frames)
  BY <1>2, OrderFields, InTail
<1>4. s \in Streams /\ s \in Accounts /\ s # Conn
  BY <1>1, <1>2, <1>3, FrameFields, Conns
<1>5. sstate[s] = "idle"
  <2>1. 1 \in 1 .. Len(toSender) /\ toSender[1] = Head(toSender)
    BY <1>2, <1>3
  <2> QED
    BY <1>1, <1>2, <1>4, <2>1 DEF OrderInv, First, FirstOK, IsRequest
<1>6. \A a \in Accounts : Granted(a)' = Granted(a) /\ DataTo(a)' = DataTo(a)
  BY <1>2, <1>3, NoCredit
<1>7. remote'[Conn] = remote[Conn]
  BY <1>1, <1>4, Conns, OrderFields
<1>8. ASSUME NEW t \in Streams, Here(t)' PROVE Here(t) /\ May(t)' = May(t)
  <2>1. CASE t = s
    BY <1>1, <1>2, <1>4, <1>5, <2>1, OrderFields DEF Here, May
  <2>2. CASE t # s
    <3>1. sstate'[t] = sstate[t] /\ remote'[t] = remote[t]
      BY <1>1, <1>4, <2>2, OrderFields, Conns
    <3> QED
      BY <1>2, <1>8, <3>1 DEF Here, May
  <2> QED
    BY <2>1, <2>2
<1>9. /\ remote'[Conn] >= 0
      /\ remote'[Conn] + DataTo(Conn)' + Granted(Conn)'
           = remote[Conn] + DataTo(Conn) + Granted(Conn)
  BY <1>6, <1>7, Conns DEF ConnCredit
<1>10. \A t \in Streams : Open(t) /\ Here(t)' =>
           /\ Here(t)
           /\ May(t)' + DataTo(t)' + Granted(t)' - peerInitial'
                = May(t) + DataTo(t) + Granted(t) - peerInitial
  BY <1>2, <1>6, <1>8, Conns
<1> QED
  BY <1>2, <1>9, <1>10, SenderMoves

LEMMA RecvSettingsCredit ==
  ASSUME FlowInv, FlowInv', ConnCredit, StreamCredit, RecvSettings
  PROVE  ConnCredit' /\ StreamCredit'
<1> DEFINE v     == Head(toSender).n
           by    == v - peerInitial
           known == {s \in Streams : Known(sstate, s)}
           over  == {s \in known : ~FitsResize(remote[s], by)}
<1>1. /\ toSender # <<>> /\ toSender' = Tail(toSender) /\ Head(toSender).kind = "SETTINGS"
      /\ UNCHANGED <<window, rstate, lastInitial, toReceiver>>
      /\ rqueue'.reg = rqueue.reg /\ peerInitial' = v
      /\ remote' = [a \in Accounts |-> IF a \in known \ over THEN remote[a] + by ELSE remote[a]]
      /\ sstate' = ResetState(sstate, over)
  BY DEF RecvSettings, Arrived, receiver
<1>2. Head(toSender) \in Frames /\ toSender \in Seq(Frames)
  BY <1>1, OrderFields, InTail
<1>3. v \in Int /\ peerInitial \in Int /\ by \in Int /\ peerInitial' = peerInitial + by
  <2>1. v \in Int /\ peerInitial \in Int
    BY <1>2, FrameFields, NumberTypes
  <2> HIDE DEF v
  <2> QED
    BY <1>1, <2>1
<1>4. \A a \in Accounts : Granted(a)' = Granted(a) /\ DataTo(a)' = DataTo(a)
  BY <1>1, <1>2, NoCredit
<1> HIDE DEF by, v
<1>5. remote'[Conn] = remote[Conn]
  BY <1>1, Conns
<1>6. ASSUME NEW t \in Streams, Here(t)'
      PROVE  Here(t) /\ May(t) \in Int /\ May(t)' = May(t) + by
  <2>1. sstate'[t] = IF t \in over /\ Known(sstate, t) THEN "closing" ELSE sstate[t]
    BY <1>1 DEF ResetState
  <2>2. Here(t) /\ sstate'[t] = sstate[t] /\ ~(t \in over /\ Known(sstate, t))
    <3> HIDE DEF over
    <3> QED
      BY <1>6, <2>1 DEF Here
  <2>3. CASE sstate[t] = "idle"
    BY <1>3, <2>2, <2>3 DEF May
  <2>4. CASE sstate[t] = "open"
    <3>1. t \in known \ over
      BY <2>2, <2>4 DEF Known
    <3>2. remote'[t] = remote[t] + by /\ remote[t] \in Int
      BY <1>1, <3>1, Conns, TypesOfCredit
    <3>3. sstate'[t] # "idle" /\ sstate[t] # "idle"
      BY <2>2, <2>4
    <3> QED
      BY <2>2, <3>2, <3>3 DEF May
  <2> QED
    BY <2>2, <2>3, <2>4 DEF Here
<1>7. /\ remote'[Conn] >= 0
      /\ remote'[Conn] + DataTo(Conn)' + Granted(Conn)'
           = remote[Conn] + DataTo(Conn) + Granted(Conn)
  BY <1>4, <1>5, Conns DEF ConnCredit
<1>8. ASSUME NEW t \in Streams, Open(t), Here(t)'
      PROVE  /\ Here(t)
             /\ May(t)' + DataTo(t)' + Granted(t)' - peerInitial'
                  = May(t) + DataTo(t) + Granted(t) - peerInitial
  <2>1. /\ DataTo(t) \in Nat /\ Granted(t) \in Nat
        /\ DataTo(t)' = DataTo(t) /\ Granted(t)' = Granted(t)
    BY <1>4, Conns, TypesOfCredit
  <2>2. Here(t) /\ May(t) \in Int /\ May(t)' = May(t) + by
    BY <1>6, <1>8
  <2> QED
    BY <1>3, <2>1, <2>2
<1> QED
  BY <1>1, <1>7, <1>8, SenderMoves

(* The connection's window never leaves the range of an int32_t, so the    *)
(* overflow of nghttp2_session_on_window_update_received does not occur.   *)
LEMMA ConnUpdateFits ==
  ASSUME FlowInv, ConnCredit, NEW n \in Nat, n <= Granted(Conn)
  PROVE  remote[Conn] <= MaxWindow - n
<1> DEFINE w == window[Conn]
           m == remote[Conn]
<1>1. /\ w \in Window /\ m \in Int /\ DataTo(Conn) \in Nat /\ Granted(Conn) \in Nat
  BY Conns, TypesOfCredit
<1>2. m + DataTo(Conn) + Granted(Conn) = Room(w) /\ Sound(w)
  BY DEF ConnCredit
<1> HIDE DEF w, m
<1>3. /\ w.local \in Int /\ w.recv \in Int /\ w.reduction \in Nat /\ Room(w) = w.local - w.recv
      /\ w.local + w.reduction <= MaxWindow /\ w.recv + w.reduction >= 0
  BY <1>1, <1>2, Fields DEF Sound
<1>4. m <= MaxWindow - n
  BY <1>1, <1>2, <1>3, WindowAssumption
<1> QED
  BY <1>4 DEF m

LEMMA RecvUpdateCredit ==
  ASSUME FlowInv, FlowInv', ConnCredit, StreamCredit, OrderInv, RecvUpdate
  PROVE  ConnCredit' /\ StreamCredit'
<1>1. /\ toSender # <<>> /\ toSender' = Tail(toSender) /\ Head(toSender).kind = "WINDOW_UPDATE"
      /\ UNCHANGED <<window, rstate, lastInitial, peerInitial, toReceiver>>
      /\ rqueue'.reg = rqueue.reg
  BY DEF RecvUpdate, Arrived, receiver
<1>2. Head(toSender) \in Frames /\ toSender \in Seq(Frames)
  BY <1>1, OrderFields, InTail
<1>3. PICK a \in Accounts, n \in Nat :
        LET here == a = Conn \/ Known(sstate, a)
            fits == remote[a] <= MaxWindow - n
        IN  /\ remote' = IF here /\ fits THEN [remote EXCEPT ![a] = @ + n] ELSE remote
            /\ sstate' = ResetState(sstate, IF here /\ ~fits /\ a # Conn THEN {a} ELSE {})
            /\ Head(toSender).of = a /\ Head(toSender).n = n
  <2>1. Head(toSender).of \in Accounts /\ Head(toSender).n \in Nat
    BY <1>2, FrameFields
  <2> QED
    BY <2>1, Zenon DEF RecvUpdate, SenderResets
<1> DEFINE here == a = Conn \/ Known(sstate, a)
           fits == remote[a] <= MaxWindow - n
           over == IF here /\ ~fits /\ a # Conn THEN {a} ELSE {}
<1>4. /\ remote' = IF here /\ fits THEN [remote EXCEPT ![a] = @ + n] ELSE remote
      /\ sstate' = ResetState(sstate, over)
      /\ Head(toSender).of = a /\ Head(toSender).n = n
  BY <1>3, Zenon
<1>5. \A b \in Accounts : DataTo(b)' = DataTo(b)
  BY <1>1, DataSame
<1>6. /\ Granted(a) = n + Granted(a)'
      /\ \A b \in Accounts : b # a => Granted(b)' = Granted(b)
  <2>1. ASSUME NEW b \in Accounts, NEW c \in Nat, c = Counted(Head(toSender), Updates, {b})
        PROVE  Granted(b) = c + Granted(b)' /\ Granted(b)' \in Nat
    <3>1. OnWire(b) = c + OnWire(b)'
      BY <1>1, <2>1, WireTaken
    <3>2. Waits(b)' = Waits(b)
      BY <1>1 DEF Waits
    <3>3. Waits(b) \in Nat /\ OnWire(b) \in Nat
      BY PartTypes
    <3>4. OnWire(b)' \in Nat
      <4>1. toSender' \in Seq(Frames)
        BY <1>1, <1>2
      <4> QED
        BY <4>1, BytesNat DEF OnWire
    <3> QED
      BY <3>1, <3>2, <3>3, <3>4, GrantedParts
  <2>2. Counted(Head(toSender), Updates, {a}) = n
    BY <1>1, <1>4 DEF Counted, Updates
  <2>3. ASSUME NEW b \in Accounts, b # a PROVE Granted(b)' = Granted(b)
    <3>1. Counted(Head(toSender), Updates, {b}) = 0
      BY <1>4, <2>3 DEF Counted
    <3>2. Granted(b) = 0 + Granted(b)' /\ Granted(b)' \in Nat
      BY <2>1, <3>1
    <3> QED
      BY <3>2
  <2> QED
    BY <2>1, <2>2, <2>3
<1>7. a = Conn => fits
  <2> SUFFICES ASSUME a = Conn PROVE remote[Conn] <= MaxWindow - n
    OBVIOUS
  <2>1. n <= Granted(Conn)
    BY <1>6, NextTypes, Conns
  <2> QED
    BY <2>1, ConnUpdateFits
<1>8. a = Conn => remote'[Conn] = remote[Conn] + n
  BY <1>4, <1>7, OrderFields, Conns
<1>9. \A b \in Accounts : b # a => remote'[b] = remote[b]
  BY <1>4, OrderFields
<1>10. /\ remote'[Conn] >= 0
       /\ remote'[Conn] + DataTo(Conn)' + Granted(Conn)'
            = remote[Conn] + DataTo(Conn) + Granted(Conn)
  <2> DEFINE m == remote[Conn]
             k == remote'[Conn]
  <2>1. /\ m \in Int /\ m >= 0 /\ DataTo(Conn)' = DataTo(Conn) /\ DataTo(Conn) \in Nat
        /\ Granted(Conn) \in Nat /\ Granted(Conn)' \in Nat
    BY <1>5, Conns, TypesOfCredit, NextTypes DEF ConnCredit
  <2>2. CASE a = Conn
    <3>1. k = m + n /\ Granted(Conn) = n + Granted(Conn)'
      BY <1>6, <1>8, <2>2
    <3> HIDE DEF k, m
    <3>2. k >= 0 /\ k + DataTo(Conn)' + Granted(Conn)' = m + DataTo(Conn) + Granted(Conn)
      BY <2>1, <3>1
    <3> QED
      BY <3>2 DEF k, m
  <2>3. CASE a # Conn
    <3>1. k = m /\ Granted(Conn) = Granted(Conn)'
      BY <1>6, <1>9, <2>3, Conns
    <3> QED
      BY <2>1, <3>1
  <2> QED
    BY <2>2, <2>3
<1>11. ASSUME NEW t \in Streams, Open(t), Here(t)'
       PROVE  /\ Here(t)
              /\ May(t)' + DataTo(t)' + Granted(t)' - peerInitial'
                   = May(t) + DataTo(t) + Granted(t) - peerInitial
  <2>1. sstate'[t] = IF t \in over /\ Known(sstate, t) THEN "closing" ELSE sstate[t]
    BY <1>4 DEF ResetState
  <2>2. Here(t) /\ sstate'[t] = sstate[t] /\ ~(t \in over /\ Known(sstate, t))
    <3> HIDE DEF over
    <3> QED
      BY <1>11, <2>1 DEF Here
  <2>3. CASE t # a
    <3>1. remote'[t] = remote[t] /\ Granted(t)' = Granted(t) /\ DataTo(t)' = DataTo(t)
      BY <1>5, <1>6, <1>9, <2>3, Conns
    <3>2. May(t)' = May(t)
      BY <1>1, <2>2, <3>1 DEF May
    <3> QED
      BY <1>1, <2>2, <3>1, <3>2
  <2>4. CASE t = a
    <3>1. sstate[t] # "idle"
      <4>1. rstate[t] \notin Unsent
        BY <1>11 DEF Open, Unsent
      <4> QED
        BY <1>1, <1>2, <1>4, <2>4, <4>1, FirstHead DEF OrderInv, First
    <3>2. Known(sstate, t) /\ a # Conn
      BY <2>2, <2>4, <3>1, Conns DEF Here, Known
    <3>3. remote'[t] = remote[t] + n
      BY <1>4, <2>2, <2>4, <3>2, OrderFields
    <3>4. May(t) = remote[t] /\ May(t)' = remote'[t]
      BY <2>2, <3>1 DEF May
    <3>5. /\ Granted(t) = n + Granted(t)' /\ DataTo(t)' = DataTo(t) /\ remote[t] \in Int
          /\ DataTo(t) \in Nat /\ Granted(t)' \in Nat /\ peerInitial \in Int
      BY <1>5, <1>6, <2>4, Conns, TypesOfCredit, NextTypes, NumberTypes
    <3>6. May(t) \in Int /\ May(t)' = May(t) + n
      BY <3>3, <3>4, <3>5
    <3>7. May(t)' + DataTo(t)' + Granted(t)' - peerInitial
            = May(t) + DataTo(t) + Granted(t) - peerInitial
      BY <3>5, <3>6
    <3> QED
      BY <1>1, <2>2, <3>7
  <2> QED
    BY <2>3, <2>4
<1> QED
  BY <1>1, <1>10, <1>11, SenderMoves

LEMMA SendDataCredit ==
  ASSUME FlowInv, FlowInv', ConnCredit, StreamCredit,
         NEW s \in Streams, NEW n \in 1 .. Body, SendData(s, n)
  PROVE  ConnCredit' /\ StreamCredit'
<1> DEFINE f == Data(s, n, n = left[s])
<1>1. /\ toReceiver' = Append(toReceiver, f)
      /\ remote' = [remote EXCEPT ![Conn] = @ - n, ![s] = @ - n]
      /\ sstate[s] = "open"
      /\ sstate' = IF n = left[s] THEN [sstate EXCEPT ![s] = "closed"] ELSE sstate
      /\ UNCHANGED <<window, rstate, lastInitial, peerInitial, toSender, rqueue>>
  BY DEF SendData, receiver
<1>2. s \in Accounts /\ Conn \in Accounts /\ s # Conn /\ n \in Nat
  BY Conns
<1>3. n <= remote[Conn]
  <2>1. remote[s] \in Int /\ remote[Conn] \in Int /\ left[s] \in Nat /\ MaxFrame \in Nat
    BY <1>2, TypesOfCredit, FlowAssumption DEF FlowInv, SenderInv, SenderTypes
  <2>2. n <= Least(Least(Least(remote[s], remote[Conn]), MaxFrame), left[s])
    BY DEF SendData, ReadMax
  <2> QED
    BY <1>2, <2>1, <2>2 DEF Least
<1>4. f \in Frames
  BY <1>2, FrameTypes
<1>5. f.of = s /\ f.n = n /\ f.kind \in DataKinds
  BY DEF Data, DataKinds
<1> HIDE DEF f
<1>6. \A a \in Accounts : DataTo(a)' = DataTo(a) + Counted(f, DataKinds, Of(a))
  BY <1>1, <1>4, DataAppended
<1>7. /\ Counted(f, DataKinds, Of(Conn)) = n /\ Counted(f, DataKinds, Of(s)) = n
      /\ \A a \in Accounts : a # Conn /\ a # s => Counted(f, DataKinds, Of(a)) = 0
  BY <1>2, <1>5 DEF Counted, Of
<1>8. \A a \in Accounts : Granted(a)' = Granted(a)
  BY <1>1 DEF Granted
<1>9. /\ remote'[Conn] = remote[Conn] - n /\ remote'[s] = remote[s] - n
      /\ \A a \in Accounts : a # Conn /\ a # s => remote'[a] = remote[a]
  BY <1>1, <1>2, OrderFields
<1>10. /\ remote'[Conn] >= 0
       /\ remote'[Conn] + DataTo(Conn)' + Granted(Conn)'
            = remote[Conn] + DataTo(Conn) + Granted(Conn)
  <2> DEFINE m == remote[Conn]
             k == remote'[Conn]
  <2>1. /\ m \in Int /\ n <= m /\ k = m - n /\ DataTo(Conn)' = DataTo(Conn) + n
        /\ DataTo(Conn) \in Nat /\ Granted(Conn) \in Nat /\ Granted(Conn)' = Granted(Conn)
    <3>1. DataTo(Conn)' = DataTo(Conn) + n
      BY <1>2, <1>6, <1>7
    <3> QED
      BY <1>2, <1>3, <1>8, <1>9, <3>1, TypesOfCredit
  <2> HIDE DEF k, m
  <2>2. k >= 0 /\ k + DataTo(Conn)' + Granted(Conn)' = m + DataTo(Conn) + Granted(Conn)
    BY <1>2, <2>1
  <2> QED
    BY <2>2 DEF k, m
<1>11. ASSUME NEW t \in Streams, Open(t), Here(t)'
       PROVE  /\ Here(t)
              /\ May(t)' + DataTo(t)' + Granted(t)' - peerInitial'
                   = May(t) + DataTo(t) + Granted(t) - peerInitial
  <2>1. sstate[t] = sstate'[t] /\ Here(t)
    BY <1>1, <1>11, OrderFields DEF Here
  <2>2. t \in Accounts /\ t # Conn
    BY Conns
  <2>3. CASE t = s
    <3>1. May(t) = remote[t] /\ May(t)' = remote'[t]
      BY <1>1, <2>1, <2>3 DEF May
    <3>2. DataTo(t)' = DataTo(t) + n /\ remote'[t] = remote[t] - n
      BY <1>6, <1>7, <1>9, <2>2, <2>3
    <3>3. /\ remote[t] \in Int /\ DataTo(t) \in Nat /\ Granted(t) \in Nat
          /\ Granted(t)' = Granted(t) /\ peerInitial \in Int
      BY <1>8, <2>2, TypesOfCredit, NumberTypes
    <3>4. May(t) \in Int /\ May(t)' = May(t) - n
      BY <3>1, <3>2, <3>3
    <3>5. May(t)' + DataTo(t)' + Granted(t)' - peerInitial
            = May(t) + DataTo(t) + Granted(t) - peerInitial
      BY <1>2, <3>2, <3>3, <3>4
    <3> QED
      BY <1>1, <2>1, <3>5
  <2>4. CASE t # s
    <3>1. DataTo(t)' = DataTo(t) + 0
      BY <1>6, <1>7, <2>2, <2>4
    <3>2. DataTo(t)' = DataTo(t)
      BY <2>2, <3>1, TypesOfCredit
    <3>3. Granted(t)' = Granted(t) /\ remote'[t] = remote[t]
      BY <1>8, <1>9, <2>2, <2>4
    <3>4. May(t)' = May(t)
      BY <1>1, <2>1, <3>3 DEF May
    <3> QED
      BY <1>1, <2>1, <3>2, <3>3, <3>4
  <2> QED
    BY <2>3, <2>4
<1> QED
  BY <1>1, <1>10, <1>11, SenderMoves

(* The bytes of the only frame of a stream.                                *)
OnlyOf(q, s, k) ==
  q[k].kind \in Updates /\ q[k].of = s /\ \A i \in 1 .. Len(q) : i # k => q[i].of # s

LEMMA BytesOfOne ==
  ASSUME NEW q \in Seq(Frames), NEW s, NEW k \in 1 .. Len(q), OnlyOf(q, s, k)
  PROVE  Bytes(q, Updates, {s}) = q[k].n
<1> DEFINE A == {s}
<1>1. \A i \in 1 .. Len(q) : i # k => Counted(q[i], Updates, A) = 0
  BY DEF Counted, OnlyOf
<1>2. Counted(q[k], Updates, A) = q[k].n
  BY DEF Counted, OnlyOf
<1> HIDE DEF A
<1>3. Bytes(q, Updates, A) = Counted(q[k], Updates, A)
  BY <1>1, BytesOnce
<1> QED
  BY <1>2, <1>3 DEF A

(* The updates that RecvAck queues, in any order, carry for each stream    *)
(* what was granted to it.                                                 *)
LEMMA UpdatesCarry ==
  ASSUME NEW g \in [Streams -> Nat], NEW q \in Orders({s \in Streams : g[s] > 0}),
         NEW p, p = [i \in DOMAIN q |-> Update(q[i], g[q[i]])]
  PROVE  /\ p \in Seq(Frames) /\ Bytes(p, Updates, {Conn}) = 0
         /\ \A s \in Streams : Bytes(p, Updates, {s}) = g[s]
<1> DEFINE G == {s \in Streams : g[s] > 0}
<1>1. q \in Seq(Streams) /\ \A i \in DOMAIN q : q[i] \in G
  BY OrderTypes
<1>2. Len(q) \in Nat /\ DOMAIN q = 1 .. Len(q)
  BY <1>1
<1>3. ASSUME NEW i \in 1 .. Len(q)
      PROVE  /\ p[i] = Update(q[i], g[q[i]]) /\ p[i] \in Frames /\ q[i] \in Streams
             /\ p[i].of = q[i] /\ p[i].n = g[q[i]] /\ p[i].kind \in Updates
  <2>1. p[i] = Update(q[i], g[q[i]]) /\ q[i] \in Streams /\ q[i] \in Accounts /\ g[q[i]] \in Nat
    BY <1>1, <1>2, Conns
  <2>2. Update(q[i], g[q[i]]) \in Frames
    BY <2>1, FrameTypes
  <2> QED
    BY <2>1, <2>2 DEF Update, Updates
<1>4. p \in Seq(Frames) /\ Len(p) = Len(q)
  BY <1>2, <1>3
<1>5. Bytes(p, Updates, {Conn}) = 0
  <2>1. \A i \in 1 .. Len(p) : Counted(p[i], Updates, {Conn}) = 0
    BY <1>3, <1>4, Conns DEF Counted
  <2> QED
    BY <1>4, <2>1, BytesNone
<1>6. ASSUME NEW s \in Streams PROVE Bytes(p, Updates, {s}) = g[s]
  <2>1. CASE g[s] = 0
    <3>1. \A i \in 1 .. Len(p) : Counted(p[i], Updates, {s}) = 0
      BY <1>1, <1>2, <1>3, <1>4, <2>1 DEF Counted
    <3> QED
      BY <1>4, <2>1, <3>1, BytesNone
  <2>2. CASE g[s] # 0
    <3>1. s \in G /\ G \in SUBSET Streams
      BY <2>2
    <3>2. PICK j \in 1 .. Len(q) : q[j] = s /\ \A i \in 1 .. Len(q) : i # j => q[i] # s
      <4> HIDE DEF G
      <4>1. q \in Orders(G)
        BY DEF G
      <4> QED
        BY <3>1, <4>1, OrderCovers
    <3>3. j \in 1 .. Len(p) /\ p[j].of = s /\ p[j].n = g[s] /\ p[j].kind \in Updates
      BY <1>3, <1>4, <3>2
    <3>4. \A i \in 1 .. Len(p) : i # j => p[i].of # s
      <4> SUFFICES ASSUME NEW i \in 1 .. Len(p), i # j PROVE p[i].of # s
        OBVIOUS
      <4>1. i \in 1 .. Len(q) /\ q[i] # s
        BY <1>4, <3>2
      <4> QED
        BY <1>3, <4>1
    <3>5. Bytes(p, Updates, {s}) = p[j].n
      <4>1. p \in Seq(Frames) /\ j \in 1 .. Len(p) /\ OnlyOf(p, s, j)
        BY <1>4, <3>3, <3>4 DEF OnlyOf
      <4> QED
        BY <4>1, BytesOfOne, Zenon
    <3> QED
      BY <3>3, <3>5
  <2> QED
    BY <2>1, <2>2
<1> QED
  BY <1>4, <1>5, <1>6

LEMMA RecvAckCredit ==
  ASSUME FlowInv, FlowInv', ConnCredit, StreamCredit, RecvAck
  PROVE  ConnCredit' /\ StreamCredit'
<1> DEFINE by == Head(inflight) - lastInitial
           r == [s \in Streams |-> IF Known(rstate, s) THEN Resize(window[s], by, auto)
                                                       ELSE Result(window[s], 0)]
           reset == {s \in Streams : ~r[s].ok}
           S == ResetQueue(rqueue.syn, rstate, reset)
           g == [s \in Streams |-> r[s].grant]
<1>1. lastInitial' = Head(inflight) /\ inflight # <<>>
  BY DEF RecvAck
<1>2. by \in Int /\ lastInitial \in Int /\ lastInitial' = lastInitial + by
  <2>1. inflight \in Seq(Sizes) /\ lastInitial \in Int
    BY NumberTypes DEF FlowInv, ReceiverInv, ReceiverTypes
  <2>2. Head(inflight) \in Sizes
    BY <1>1, <2>1
  <2>3. Head(inflight) \in Int
    BY <2>2, WindowAssumption DEF Sizes
  <2> QED
    BY <1>1, <2>1, <2>3
<1>3. /\ toReceiver # <<>> /\ toReceiver' = Tail(toReceiver) /\ Head(toReceiver).kind = "ACK"
      /\ window' = [a \in Accounts |-> IF a = Conn THEN window[a] ELSE Marked(r[a])]
      /\ rstate' = ResetState(rstate, reset)
      /\ \E q \in Orders({s \in Streams : r[s].grant > 0}) :
           rqueue' = Requeued(rqueue, rqueue.reg \o [i \in DOMAIN q |-> Update(q[i], r[q[i]].grant)], S)
      /\ UNCHANGED <<sstate, toSender, remote, peerInitial>>
  BY DEF RecvAck, Arrived, Requeued, sender
<1> HIDE DEF by
<1>4. ASSUME NEW s \in Streams
      PROVE  /\ r[s].window \in Window /\ r[s].grant \in Nat
             /\ Known(rstate, s) /\ r[s].ok =>
                  Room(r[s].window) = Room(window[s]) + by + r[s].grant
  <2>1. window[s] \in Window /\ auto \in BOOLEAN /\ s \in Accounts
    BY OrderFields, Conns
  <2>2. CASE Known(rstate, s)
    <3>1. r[s] = Resize(window[s], by, auto)
      BY <2>2
    <3> DEFINE w == window[s]
               z == Resize(w, by, auto)
    <3>2. z.window \in Window /\ z.grant \in Nat
      BY <1>2, <2>1, ResizeResult, ResizeSound
    <3>3. z.ok => Room(z.window) = Room(w) + by + z.grant
      BY <1>2, <2>1, ResizeResult
    <3>4. r[s] = z
      BY <3>1
    <3> HIDE DEF r, z
    <3> QED
      BY <3>2, <3>3, <3>4
  <2>3. CASE ~Known(rstate, s)
    <3>1. r[s].window = window[s] /\ r[s].grant = 0
      BY <2>3 DEF Result
    <3> HIDE DEF r
    <3> QED
      BY <2>1, <2>3, <3>1
  <2> QED
    BY <2>2, <2>3
<1>5. PICK p \in Seq(Frames) :
        /\ rqueue' = Requeued(rqueue, rqueue.reg \o p, S)
        /\ Bytes(p, Updates, {Conn}) = 0
        /\ \A s \in Streams : Bytes(p, Updates, {s}) = g[s]
  <2>1. PICK q \in Orders({s \in Streams : r[s].grant > 0}) :
          rqueue' = Requeued(rqueue, rqueue.reg \o [i \in DOMAIN q |-> Update(q[i], r[q[i]].grant)], S)
    BY <1>3, Zenon
  <2>2. {s \in Streams : r[s].grant > 0} = {s \in Streams : g[s] > 0}
    <3> HIDE DEF r
    <3> QED
      OBVIOUS
  <2>3. q \in Seq(Streams)
    BY OrderTypes
  <2> DEFINE p == [i \in DOMAIN q |-> Update(q[i], g[q[i]])]
  <2>4. [i \in DOMAIN q |-> Update(q[i], r[q[i]].grant)] = p
    <3> HIDE DEF r
    <3>1. \A i \in DOMAIN q : q[i] \in Streams
      BY <2>3
    <3> QED
      BY <3>1
  <2>5. g \in [Streams -> Nat]
    <3> HIDE DEF r
    <3> QED
      BY <1>4
  <2> HIDE DEF g, S, r
  <2>6. q \in Orders({s \in Streams : g[s] > 0})
    BY <2>2
  <2>7. p \in Seq(Frames) /\ Bytes(p, Updates, {Conn}) = 0
        /\ \A s \in Streams : Bytes(p, Updates, {s}) = g[s]
    BY <2>5, <2>6, UpdatesCarry
  <2>8. rqueue' = Requeued(rqueue, rqueue.reg \o p, S)
    BY <2>1, <2>4
  <2> HIDE DEF p
  <2> QED
    BY <2>7, <2>8
<1> HIDE DEF S
<1>6. rqueue'.reg = rqueue.reg \o p /\ rqueue.reg \in Seq(Frames)
  <2>1. rqueue.reg \o p \in Seq(Frames)
    BY OrderFields
  <2> QED
    BY <1>5, <2>1, OrderFields DEF QueueTypes, Requeued
<1>7. \A b : Waits(b)' = Waits(b) + Bytes(p, Updates, {b})
  <2> SUFFICES ASSUME NEW b PROVE Waits(b)' = Waits(b) + Bytes(p, Updates, {b})
    OBVIOUS
  <2>1. Bytes(rqueue.reg \o p, Updates, {b}) = Bytes(rqueue.reg, Updates, {b}) + Bytes(p, Updates, {b})
    BY <1>6, BytesConcat
  <2> QED
    BY <1>6, <2>1 DEF Waits
<1>8. /\ Granted(Conn)' = Granted(Conn)
      /\ \A s \in Streams : Granted(s)' = Granted(s) + r[s].grant
  <2>1. \A b : OnWire(b)' = OnWire(b)
    BY <1>3 DEF OnWire
  <2>2. \A b : Waits(b) \in Nat /\ OnWire(b) \in Nat
    BY PartTypes
  <2>3. Granted(Conn)' = Granted(Conn)
    <3>1. Waits(Conn)' = Waits(Conn) + 0
      BY <1>5, <1>7
    <3> QED
      BY <2>1, <2>2, <3>1, GrantedParts
  <2>4. ASSUME NEW s \in Streams PROVE Granted(s)' = Granted(s) + r[s].grant
    <3> DEFINE x == r[s].grant
    <3>1. Waits(s)' = Waits(s) + x /\ x \in Nat
      <4> HIDE DEF r
      <4> QED
        BY <1>4, <1>5, <1>7
    <3> HIDE DEF x
    <3>2. Granted(s)' = Granted(s) + x
      BY <2>1, <2>2, <3>1, GrantedParts
    <3> QED
      BY <3>2 DEF x
  <2> QED
    BY <2>3, <2>4
<1>9. \A a \in Accounts : DataTo(a)' = DataTo(a)
  <2> SUFFICES ASSUME NEW a \in Accounts PROVE DataTo(a)' = DataTo(a)
    OBVIOUS
  <2>1. Counted(Head(toReceiver), DataKinds, Of(a)) = 0
    BY <1>3 DEF Counted, DataKinds
  <2>2. DataTo(a) = 0 + DataTo(a)'
    BY <1>3, <2>1, DataTaken
  <2> QED
    BY <2>2, NextTypes
<1>10. ConnCredit'
  BY <1>3, <1>8, <1>9, Conns DEF ConnCredit
<1>11. StreamCredit'
  <2>0. SUFFICES ASSUME NEW s \in Streams, rstate'[s] = "open", sstate'[s] \in {"idle", "open"}
                 PROVE  May(s)' + DataTo(s)' + Granted(s)'
                          = Room(window'[s]) + peerInitial' - lastInitial'
    BY DEF StreamCredit
  <2>1. rstate[s] = "open" /\ s \notin reset
    <3> HIDE DEF reset
    <3> QED
      BY <1>3, <2>0 DEF ResetState, Known
  <2>2. Known(rstate, s) /\ r[s].ok
    BY <2>1 DEF Known
  <2>3. Room(window'[s]) = Room(r[s].window)
    <3> HIDE DEF r
    <3>1. window'[s] = Marked(r[s])
      BY <1>3, Conns
    <3> QED
      BY <1>4, <3>1, MarkedFields
  <2> HIDE DEF r
  <2> DEFINE x == Room(window[s])
             y == Room(window'[s])
             h == r[s].grant
  <2>4. y = x + by + h /\ h \in Nat
    BY <1>4, <2>2, <2>3
  <2>5. May(s)' = May(s) /\ DataTo(s)' = DataTo(s) /\ Granted(s)' = Granted(s) + h
        /\ peerInitial' = peerInitial
    BY <1>3, <1>8, <1>9, Conns DEF May
  <2>6. May(s) + DataTo(s) + Granted(s) = x + peerInitial - lastInitial
    BY <1>3, <2>0, <2>1 DEF StreamCredit
  <2>7. /\ x \in Int /\ DataTo(s) \in Nat /\ Granted(s) \in Nat /\ peerInitial \in Int
        /\ lastInitial \in Int /\ May(s) \in Int
    BY Conns, TypesOfCredit, NumberTypes DEF May
  <2> HIDE DEF x, y, h
  <2>8. May(s)' + DataTo(s)' + Granted(s)' = y + peerInitial' - lastInitial'
    BY <1>2, <2>4, <2>5, <2>6, <2>7
  <2> QED
    BY <2>8 DEF y
<1> QED
  BY <1>10, <1>11

-----------------------------------------------------------------------------
(* The initial state, every step, and the theorem.                         *)

LEMMA CreditInit == FlowInit => ConnCredit /\ StreamCredit
<1> SUFFICES ASSUME FlowInit PROVE ConnCredit /\ StreamCredit
  OBVIOUS
<1>1. /\ rqueue.reg = <<>> /\ toSender = <<>> /\ toReceiver = <<>>
      /\ \A s \in Streams : rstate[s] = "idle"
  BY DEF FlowInit
<1>2. window[Conn] = NewWindow(ConnSize) /\ remote[Conn] = ConnSize
  BY Conns DEF FlowInit
<1>3. DataTo(Conn) = 0 /\ Granted(Conn) = 0
  <2>1. DataTo(Conn) = 0
    BY <1>1, BytesEmpty, DataParts
  <2>2. Waits(Conn) = 0 /\ OnWire(Conn) = 0
    BY <1>1, BytesEmpty DEF Waits, OnWire
  <2> QED
    BY <2>1, <2>2, GrantedParts
<1>4. ConnSize \in Nat /\ ConnSize <= MaxWindow
  BY FlowAssumption, WindowAssumption DEF Sizes
<1>5. Room(window[Conn]) = ConnSize /\ Sound(window[Conn])
  BY <1>2, <1>4 DEF NewWindow, Room, Sound
<1>6. ConnCredit
  BY <1>2, <1>3, <1>4, <1>5 DEF ConnCredit
<1>7. StreamCredit
  BY <1>1 DEF StreamCredit
<1> QED
  BY <1>6, <1>7

LEMMA CreditNext ==
  ASSUME FlowInv, FlowInv', CreditInv, [FlowNext]_flowVars
  PROVE  ConnCredit' /\ StreamCredit'
<1>0. ConnCredit /\ StreamCredit /\ OrderInv
  BY DEF CreditInv
<1>1. CASE UNCHANGED flowVars
  BY <1>0, <1>1, IdleCredit DEF flowVars
<1>2. ASSUME NEW s \in Streams, Withhold(s) \/ ResumeData(s) \/ Defer(s)
      PROVE  ConnCredit' /\ StreamCredit'
  BY <1>0, <1>2, IdleCredit DEF Withhold, Defer, NoData, ResumeData, receiver
<1>3. CASE ReceiverSends
  BY <1>0, <1>3, SendSettingsCredit, SendRequestCredit, SendUpdateCredit, SendRstCredit
     DEF ReceiverSends
<1>4. CASE ReceiverReceives
  BY <1>0, <1>4, RecvDataCredit, RecvAckCredit, RecvRstCredit DEF ReceiverReceives
<1>5. CASE SenderReceives
  BY <1>0, <1>5, RecvRequestCredit, RecvSettingsCredit, RecvUpdateCredit, RecvCancelCredit
     DEF SenderReceives
<1>6. CASE SenderSends
  BY <1>0, <1>2, <1>6, SendAckCredit, SendResetCredit, SendDataCredit
     DEF SenderSends, SendsControl, SendsBytes
<1>7. ASSUME NEW s \in Streams, SubmitRequest(s) \/ Consumes(s) \/ Cancel(s)
      PROVE  ConnCredit' /\ StreamCredit'
  BY <1>0, <1>7, SubmitRequestCredit, ConsumeCredit, CancelCredit DEF Consumes
<1>8. ASSUME NEW v \in Initials, SubmitSettings(v) PROVE ConnCredit' /\ StreamCredit'
  BY <1>0, <1>8, SubmitSettingsCredit
<1>9. ASSUME NEW a \in Tuned, \/ \E size \in NewSizes : SetLocalWindowSize(a, size)
                              \/ \E i \in Increments : SubmitWindowUpdate(a, i)
      PROVE  ConnCredit' /\ StreamCredit'
  BY <1>0, <1>9, SetLocalWindowSizeCredit, SubmitWindowUpdateCredit
<1> QED
  BY <1>1, <1>2, <1>3, <1>4, <1>5, <1>6, <1>7, <1>8, <1>9 DEF FlowNext

LEMMA CreditInvariant == FlowSpec => [](FlowInv /\ CreditInv)
<1>1. FlowInit => CreditInv
  BY CreditInit, OrderInit DEF CreditInv
<1>2. FlowInv /\ FlowInv' /\ CreditInv /\ [FlowNext]_flowVars => CreditInv'
  BY CreditNext, OrderNext DEF CreditInv
<1> QED
  BY <1>1, <1>2, FlowInvariant, PTL DEF FlowSpec

LEMMA CreditImplies == CreditInv => CreditConserved
<1> SUFFICES ASSUME CreditInv PROVE CreditConserved
  OBVIOUS
<1>1. ASSUME NEW s \in Streams, rstate[s] = "open", sstate[s] = "open"
      PROVE  remote[s] + DataTo(s) + Granted(s) = Room(window[s]) + peerInitial - lastInitial
  <2>1. May(s) = remote[s]
    BY <1>1 DEF May
  <2>2. May(s) + DataTo(s) + Granted(s) = Room(window[s]) + peerInitial - lastInitial
    BY <1>1 DEF CreditInv, StreamCredit
  <2> QED
    BY <2>1, <2>2
<1> QED
  BY <1>1 DEF CreditInv, ConnCredit, CreditConserved

(* The two ends of a window agree on the credit in every behaviour, of any *)
(* number of streams, with windows, frames and bodies of any size.         *)
THEOREM CreditKept == FlowSpec => []CreditConserved
BY CreditInvariant, CreditImplies, PTL

-----------------------------------------------------------------------------
(* The connection's own errors. What CreditInv says of its window leaves   *)
(* one check that can fail: that of consumed_size, which automatic updates *)
(* never touch.                                                            *)

Below(w) == w.consumed <= MaxWindow

OfConsumed == {"consumed", "DATA"}

Excused ==
  \A when \in Occasions : Error(Conn, when) \in failed => ~auto /\ when \in OfConsumed

ConnectionHolds == Below(window[Conn]) /\ Excused

LEMMA BelowKept ==
  ASSUME NEW w \in Window, Below(w)
  PROVE  /\ \A n \in Nat, updates \in BOOLEAN : Below(Received(w, n, updates).window)
         /\ \A n \in Nat : Below(Consumed(w, n).window)
         /\ \A d \in Nat : Below(Shrink(w, d).window) /\ Below(Widen(w, d).window)
<1>1. \A n \in Nat, updates \in BOOLEAN : Below(Received(w, n, updates).window)
  BY DEF Received, Result, Refused, Below, Window
<1>2. \A n \in Nat : Below(Consumed(w, n).window)
  <2> SUFFICES ASSUME NEW n \in Nat PROVE Below(Consumed(w, n).window)
    OBVIOUS
  <2> DEFINE v    == [w EXCEPT !.consumed = @ + n]
             size == Least(v.consumed, v.recv)
             u    == [v EXCEPT !.recv = @ - size, !.consumed = @ - size]
  <2>1. \/ Consumed(w, n) = Refused(w)
        \/ w.consumed <= MaxWindow - n /\ Consumed(w, n) = Result(v, 0)
        \/ w.consumed <= MaxWindow - n /\ size > 0 /\ Consumed(w, n) = Result(u, size)
    <3>1. w.consumed \in Nat
      BY Fields
    <3> QED
      BY <3>1, WindowAssumption DEF Consumed, ShouldUpdate
  <2>2. v.consumed = w.consumed + n /\ w.consumed \in Nat /\ size \in Int
    BY DEF Window, Least
  <2>3. u.consumed = v.consumed - size
    BY DEF Window
  <2> HIDE DEF v, size, u
  <2> QED
    BY <2>1, <2>2, <2>3, WindowAssumption DEF Result, Refused, Below
<1>3. \A d \in Nat : Below(Shrink(w, d).window)
  BY DEF Shrink, Result, Refused, Below, Window
<1>4. \A d \in Nat : Below(Widen(w, d).window)
  BY DEF Widen, Result, Refused, Below, Window
<1> QED
  BY <1>1, <1>2, <1>3, <1>4

LEMMA GrantBelow ==
  ASSUME NEW w \in Window, Below(w), NEW d \in Nat \ {0}
  PROVE  Below(Grant(w, d).window)
BY WindowAssumption DEF Grant, Result, Refused, Below, Window, Greatest, Least

LEMMA SetSizeBelow ==
  ASSUME NEW w \in Window, Below(w), NEW size \in Sizes
  PROVE  Below(SetSize(w, size).window)
<1>1. size - w.local \in Int /\ (size >= w.local => size - w.local \in Nat)
      /\ (~(size >= w.local) => w.local - size \in Nat)
  BY Fields DEF Sizes
<1> QED
  BY <1>1, BelowKept DEF SetSize

LEMMA MarkedBelow ==
  ASSUME NEW r, r.window \in Window
  PROVE  Below(r.window) <=> Below(Marked(r))
BY DEF Marked, Below, Window

(* What the connection's window has left covers the DATA and the updates   *)
(* under way.                                                              *)
LEMMA ConnRoom ==
  ASSUME FlowInv, ConnCredit
  PROVE  /\ window[Conn] \in Window /\ remote[Conn] \in Int
         /\ DataTo(Conn) <= window[Conn].local - window[Conn].recv
         /\ remote[Conn] + Granted(Conn) <= MaxWindow
         /\ DataTo(Conn) \in Nat /\ Granted(Conn) \in Nat
<1> DEFINE w == window[Conn]
<1>1. /\ w \in Window /\ DataTo(Conn) \in Nat /\ Granted(Conn) \in Nat /\ remote[Conn] \in Int
  BY TypesOfCredit, Conns
<1>2. /\ remote[Conn] + DataTo(Conn) + Granted(Conn) = Room(w)
      /\ remote[Conn] >= 0 /\ Sound(w)
  BY DEF ConnCredit
<1>3. Room(w) = w.local - w.recv /\ w.local \in Int /\ w.recv \in Int /\ w.reduction \in Nat
  BY <1>1, Fields
<1>4. w.local + w.reduction <= MaxWindow /\ w.recv + w.reduction >= 0
  BY <1>2 DEF Sound
<1> HIDE DEF w
<1>5. Room(w) <= MaxWindow
  BY <1>3, <1>4, WindowAssumption
<1>6. DataTo(Conn) <= w.local - w.recv /\ remote[Conn] + Granted(Conn) <= MaxWindow
  BY <1>1, <1>2, <1>3, <1>5, WindowAssumption
<1> QED
  BY <1>1, <1>6 DEF w

LEMMA QuietStep ==
  ASSUME FlowInv, ConnectionHolds, UNCHANGED <<auto, failed>>,
         \/ window'[Conn] = window[Conn]
         \/ \E r : r.window \in Window /\ Below(r.window) /\ window'[Conn] = Marked(r)
  PROVE  ConnectionHolds'
<1>1. Below(window'[Conn])
  BY MarkedBelow DEF ConnectionHolds
<1> QED
  BY <1>1 DEF ConnectionHolds, Excused, Below

LEMMA ChangeHolds ==
  ASSUME FlowInv, ConnectionHolds, NEW a \in Accounts, NEW r, Change(a, r), r.window \in Window,
         Below(window[a]) => Below(r.window)
  PROVE  ConnectionHolds'
<1>1. window' = [window EXCEPT ![a] = Marked(r)] /\ UNCHANGED <<auto, failed>>
  BY DEF Change
<1>2. CASE a = Conn
  <2>1. window'[Conn] = Marked(r) /\ Below(r.window)
    BY <1>1, <1>2, OrderFields DEF ConnectionHolds
  <2> QED
    BY <1>1, <2>1, QuietStep
<1>3. CASE a # Conn
  <2>1. window'[Conn] = window[Conn]
    BY <1>1, <1>3, OrderFields, Conns
  <2> QED
    BY <1>1, <2>1, QuietStep
<1> QED
  BY <1>2, <1>3

LEMMA SetLocalWindowSizeHolds ==
  ASSUME FlowInv, ConnectionHolds, NEW a \in Tuned, NEW size \in NewSizes, SetLocalWindowSize(a, size)
  PROVE  ConnectionHolds'
<1>1. a \in Accounts /\ size \in Sizes /\ window[a] \in Window
  BY FlowAssumption, OrderFields
<1>2. SetSize(window[a], size).window \in Window
  BY <1>1, SetSizeResult DEF ResultOf
<1>3. Below(window[a]) => Below(SetSize(window[a], size).window)
  BY <1>1, SetSizeBelow
<1> QED
  BY <1>1, <1>2, <1>3, ChangeHolds DEF SetLocalWindowSize

LEMMA SubmitWindowUpdateHolds ==
  ASSUME FlowInv, ConnectionHolds, NEW a \in Tuned, NEW i \in Increments, SubmitWindowUpdate(a, i)
  PROVE  ConnectionHolds'
<1> DEFINE r == IF i > 0 THEN Grant(window[a], i) ELSE Shrink(window[a], -i)
<1>1. a \in Accounts /\ i \in Int /\ i # 0 /\ window[a] \in Window /\ Change(a, r)
  BY FlowAssumption, OrderFields DEF SubmitWindowUpdate
<1>2. r.window \in Window /\ (Below(window[a]) => Below(r.window))
  <2>1. CASE i > 0
    <3>1. i \in Nat \ {0}
      BY <1>1, <2>1
    <3> QED
      BY <1>1, <2>1, <3>1, GrantResult, GrantBelow DEF ResultOf
  <2>2. CASE ~(i > 0)
    <3>1. -i \in Nat
      BY <1>1, <2>2
    <3> QED
      BY <1>1, <2>2, <3>1, ShrinkResult, BelowKept DEF ResultOf
  <2> QED
    BY <2>1, <2>2
<1> HIDE DEF r
<1> QED
  BY <1>1, <1>2, ChangeHolds

LEMMA ConsumeHolds ==
  ASSUME FlowInv, ConnectionHolds, NEW s \in Streams, NEW n \in 1 .. Body, Consume(s, n)
  PROVE  ConnectionHolds'
<1> DEFINE c == Consumed(window[Conn], n)
           r == IF Known(rstate, s) THEN Consumed(window[s], n) ELSE Result(window[s], 0)
<1>1. /\ ~auto /\ auto' = auto
      /\ window' = [window EXCEPT ![Conn] = Marked(c), ![s] = Marked(r)]
      /\ failed' \subseteq failed \cup {Error(Conn, "consumed")}
  BY DEF Consume
<1>2. window[Conn] \in Window /\ n \in Nat
  BY Conns, TypesOfCredit
<1>3. c.window \in Window /\ Below(c.window)
  BY <1>2, ConsumedRoom, BelowKept DEF ConnectionHolds
<1> HIDE DEF c, r
<1>4. window'[Conn] = Marked(c)
  BY <1>1, OrderFields, Conns
<1>5. Below(window'[Conn])
  BY <1>3, <1>4, MarkedBelow
<1>6. Excused'
  BY <1>1 DEF ConnectionHolds, Excused, Error, OfConsumed
<1> QED
  BY <1>5, <1>6 DEF ConnectionHolds, Below

(* An update that was sent finds the window as it was.                     *)
LEMMA UpdateSentFits ==
  ASSUME auto \in BOOLEAN, NEW w \in Window, Below(w), w.recv <= w.local
  PROVE  UpdateSent(w).ok /\ Below(UpdateSent(w).window)
<1> DEFINE v == [w EXCEPT !.queued = FALSE]
<1>1. v \in Window /\ Below(v) /\ v.recv = w.recv /\ v.local = w.local /\ v.consumed = w.consumed
  BY DEF Window, Below
<1>2. UpdateSent(w) = IF auto THEN Received(v, 0, TRUE) ELSE Consumed(v, 0)
  BY DEF UpdateSent
<1> HIDE DEF v
<1>3. Below(UpdateSent(w).window)
  BY <1>1, <1>2, BelowKept
<1>4. w.local <= MaxWindow /\ w.local \in Int /\ w.recv \in Int /\ w.consumed \in Nat
  BY Fields
<1>5. Received(v, 0, TRUE).ok
  BY <1>1, <1>4, WindowAssumption DEF Received, Result
<1>6. Consumed(v, 0).ok
  BY <1>1, <1>4, WindowAssumption DEF Consumed, Result, Below
<1> QED
  BY <1>2, <1>3, <1>5, <1>6

LEMMA SendUpdateHolds ==
  ASSUME FlowInv, ConnCredit, ConnectionHolds, SendUpdate
  PROVE  ConnectionHolds'
<1>1. rqueue.reg # <<>>
  BY DEF SendUpdate, RegTurn
<1>2. PICK a \in Accounts :
        LET r    == UpdateSent(window[a])
            send == a = Conn \/ rstate[a] = "open"
        IN  /\ window' = IF send THEN [window EXCEPT ![a] = Marked(r)] ELSE window
            /\ failed' = IF send /\ ~r.ok THEN failed \cup {Error(a, "sent")} ELSE failed
  <2>1. Head(rqueue.reg) \in Frames
    BY <1>1, OrderFields
  <2>2. Head(rqueue.reg).of \in Accounts
    BY <2>1, FrameFields
  <2> QED
    BY <2>2, Zenon DEF SendUpdate
<1> DEFINE r    == UpdateSent(window[a])
           send == a = Conn \/ rstate[a] = "open"
<1>3. /\ window' = IF send THEN [window EXCEPT ![a] = Marked(r)] ELSE window
      /\ failed' = IF send /\ ~r.ok THEN failed \cup {Error(a, "sent")} ELSE failed
  BY <1>2, Zenon
<1>4. UNCHANGED auto
  BY DEF SendUpdate
<1>5. CASE a = Conn
  <2>1. window[a] \in Window /\ auto \in BOOLEAN /\ window[a].recv <= window[a].local
    <3>1. window[a] \in Window /\ DataTo(Conn) \in Nat /\ DataTo(Conn) <= window[a].local - window[a].recv
      BY <1>5, ConnRoom
    <3>2. window[a].local \in Int /\ window[a].recv \in Int
      BY <3>1, Fields
    <3> QED
      BY <3>1, <3>2, OrderFields
  <2>2. r.ok /\ r.window \in Window /\ Below(r.window)
    BY <1>5, <2>1, UpdateSentFits, UpdateSentResult DEF ConnectionHolds, ResultOf
  <2> HIDE DEF r
  <2>3. window'[Conn] = Marked(r) /\ failed' = failed
    BY <1>3, <1>5, <2>2, OrderFields, Conns
  <2> QED
    BY <1>4, <2>2, <2>3, QuietStep
<1>6. CASE a # Conn
  <2> HIDE DEF r
  <2>1. window'[Conn] = window[Conn]
    BY <1>3, <1>6, OrderFields, Conns
  <2>2. failed' \subseteq failed \cup {Error(a, "sent")}
    BY <1>3
  <2> QED
    BY <1>4, <1>6, <2>1, <2>2 DEF ConnectionHolds, Excused, Error, Below
<1> QED
  BY <1>5, <1>6

LEMMA RecvAckHolds ==
  ASSUME FlowInv, ConnectionHolds, RecvAck
  PROVE  ConnectionHolds'
<1>1. /\ window'[Conn] = window[Conn] /\ UNCHANGED auto
      /\ \E S \in SUBSET Streams : failed' = failed \cup {Error(s, "ACK") : s \in S}
  BY Conns DEF RecvAck
<1> QED
  BY <1>1, Conns DEF ConnectionHolds, Excused, Error, Below

LEMMA RecvSettingsHolds ==
  ASSUME FlowInv, ConnectionHolds, RecvSettings
  PROVE  ConnectionHolds'
<1>1. /\ window'[Conn] = window[Conn] /\ UNCHANGED auto
      /\ \E S \in SUBSET Streams : failed' = failed \cup {Error(s, "SETTINGS") : s \in S}
  BY DEF RecvSettings, receiver
<1> QED
  BY <1>1, Conns DEF ConnectionHolds, Excused, Error, Below

LEMMA RecvUpdateHolds ==
  ASSUME FlowInv, ConnCredit, ConnectionHolds, RecvUpdate
  PROVE  ConnectionHolds'
<1>1. /\ toSender # <<>> /\ toSender' = Tail(toSender) /\ Head(toSender).kind = "WINDOW_UPDATE"
      /\ UNCHANGED <<auto, window, rqueue>>
  BY DEF RecvUpdate, Arrived, receiver
<1>2. PICK a \in Accounts, n \in Nat :
        LET here == a = Conn \/ Known(sstate, a)
            fits == remote[a] <= MaxWindow - n
        IN  /\ failed' = IF here /\ ~fits THEN failed \cup {Error(a, "WINDOW_UPDATE")} ELSE failed
            /\ Head(toSender).of = a /\ Head(toSender).n = n
  <2>1. Head(toSender) \in Frames
    BY <1>1, OrderFields, InTail
  <2>2. Head(toSender).of \in Accounts /\ Head(toSender).n \in Nat
    BY <2>1, FrameFields
  <2> QED
    BY <2>2, Zenon DEF RecvUpdate
<1>3. CASE a = Conn
  <2>1. Counted(Head(toSender), Updates, {Conn}) = n
    BY <1>1, <1>2, <1>3 DEF Counted, Updates
  <2>2. OnWire(Conn) = n + OnWire(Conn)'
    BY <1>1, <2>1, WireTaken
  <2>3. OnWire(Conn)' \in Nat /\ Waits(Conn) \in Nat
    <3>1. toSender' \in Seq(Frames)
      BY <1>1, OrderFields
    <3> QED
      BY <3>1, BytesNat, PartTypes DEF OnWire
  <2>4. n <= Granted(Conn)
    BY <2>2, <2>3, GrantedParts
  <2>5. remote[Conn] <= MaxWindow - n
    BY <2>4, ConnRoom, WindowAssumption
  <2>6. failed' = failed
    BY <1>2, <1>3, <2>5
  <2> QED
    BY <1>1, <2>6, QuietStep
<1>4. CASE a # Conn
  <2>1. failed' \subseteq failed \cup {Error(a, "WINDOW_UPDATE")}
    BY <1>2
  <2> QED
    BY <1>1, <1>4, <2>1 DEF ConnectionHolds, Excused, Error, Below
<1> QED
  BY <1>3, <1>4

LEMMA RecvDataHolds ==
  ASSUME FlowInv, ConnCredit, ConnectionHolds, RecvData
  PROVE  ConnectionHolds'
<1>1. /\ toReceiver # <<>> /\ toReceiver' = Tail(toReceiver) /\ Head(toReceiver).kind \in DataKinds
      /\ UNCHANGED auto
  BY DEF RecvData, Arrived, DataKinds
<1>2. PICK s \in Streams, n \in Nat, end \in BOOLEAN :
        LET open == rstate[s] = "open"
            c0   == Received(window[Conn], n, auto)
            c    == IF open \/ auto \/ ~c0.ok THEN c0 ELSE Consumed(c0.window, n)
            r    == IF open THEN Received(window[s], n, auto /\ ~end) ELSE Result(window[s], 0)
        IN  /\ window' = [window EXCEPT ![Conn] = Marked(c), ![s] = Marked(r)]
            /\ failed' = failed \cup (IF c.ok THEN {} ELSE {Error(Conn, "DATA")})
                                \cup (IF r.ok THEN {} ELSE {Error(s, "DATA")})
            /\ Head(toReceiver).of = s /\ Head(toReceiver).n = n
  <2>1. Head(toReceiver) \in Frames
    BY <1>1, OrderFields, InTail
  <2>2. /\ Head(toReceiver).of \in Streams /\ Head(toReceiver).n \in Nat
        /\ DataOf(Head(toReceiver)) \in BOOLEAN
    BY <1>1, <2>1, FrameFields DEF DataKinds, DataOf
  <2> QED
    BY <2>2, Zenon DEF RecvData
<1> DEFINE open == rstate[s] = "open"
           c0   == Received(window[Conn], n, auto)
           c    == IF open \/ auto \/ ~c0.ok THEN c0 ELSE Consumed(c0.window, n)
           r    == IF open THEN Received(window[s], n, auto /\ ~end) ELSE Result(window[s], 0)
<1>3. /\ window' = [window EXCEPT ![Conn] = Marked(c), ![s] = Marked(r)]
      /\ failed' = failed \cup (IF c.ok THEN {} ELSE {Error(Conn, "DATA")})
                          \cup (IF r.ok THEN {} ELSE {Error(s, "DATA")})
      /\ Head(toReceiver).of = s /\ Head(toReceiver).n = n
  BY <1>2, Zenon
<1>4. n <= DataTo(Conn)
  <2>1. Counted(Head(toReceiver), DataKinds, Of(Conn)) = n
    BY <1>1, <1>3 DEF Counted, Of
  <2>2. DataTo(Conn) = n + DataTo(Conn)'
    BY <1>1, <2>1, DataTaken
  <2>3. DataTo(Conn)' \in Nat
    <3>1. toReceiver' \in Seq(Frames)
      BY <1>1, OrderFields
    <3> QED
      BY <3>1, BytesNat, DataParts
  <2> QED
    BY <2>2, <2>3
<1> DEFINE w == window[Conn]
<1>5. w \in Window /\ auto \in BOOLEAN /\ Below(w) /\ DataTo(Conn) \in Nat
      /\ DataTo(Conn) <= w.local - w.recv
  BY ConnRoom, OrderFields DEF ConnectionHolds
<1>6. c0.ok
  <2>1. w.local <= MaxWindow /\ w.local \in Int /\ w.recv \in Int
    BY <1>5, Fields
  <2> HIDE DEF w
  <2>2. ~(w.recv > w.local - n) /\ ~(w.recv > MaxWindow - n)
    BY <1>4, <1>5, <2>1, WindowAssumption
  <2> USE DEF w
  <2> QED
    BY <2>2 DEF Received, Result
<1>7. c0.window \in Window /\ Below(c0.window)
  BY <1>5, ReceivedResult, BelowKept DEF ResultOf
<1>8. c.window \in Window /\ Below(c.window) /\ (auto => c.ok)
  <2>1. CASE open \/ auto
    BY <1>6, <1>7, <2>1
  <2>2. CASE ~(open \/ auto)
    <3>1. c = Consumed(c0.window, n)
      BY <1>6, <2>2
    <3> HIDE DEF c, c0
    <3> QED
      BY <1>7, <2>2, <3>1, ConsumedResult, BelowKept DEF ResultOf
  <2> QED
    BY <2>1, <2>2
<1> HIDE DEF c, c0, r
<1>9. window'[Conn] = Marked(c)
  BY <1>3, OrderFields, Conns
<1>10. Below(window'[Conn])
  BY <1>8, <1>9, MarkedBelow
<1>11. Excused'
  BY <1>1, <1>3, <1>8, Conns DEF ConnectionHolds, Excused, Error, OfConsumed
<1> QED
  BY <1>10, <1>11 DEF ConnectionHolds, Below

LEMMA ConnectionNext ==
  ASSUME FlowInv, ConnCredit, ConnectionHolds, [FlowNext]_flowVars
  PROVE  ConnectionHolds'
<1>1. CASE UNCHANGED flowVars
  BY <1>1, QuietStep DEF flowVars
<1>2. ASSUME NEW s \in Streams,
             \/ Withhold(s) \/ ResumeData(s) \/ Defer(s) \/ SubmitRequest(s) \/ Cancel(s)
             \/ SendRst(s) \/ SendReset(s) \/ \E n \in 1 .. Body : SendData(s, n)
      PROVE  ConnectionHolds'
  BY <1>2, QuietStep DEF Withhold, Defer, NoData, ResumeData, SubmitRequest, Cancel, SendRst,
     SendReset, SendData, receiver
<1>3. CASE SendSettings \/ SendAck \/ RecvRst \/ RecvRequest \/ RecvCancel
  BY <1>3, QuietStep DEF SendSettings, SendAck, RecvRst, RecvRequest, RecvCancel, receiver
<1>4. CASE SendRequest
  <2>1. window'[Conn] = window[Conn]
    <3>1. /\ rqueue.reg # <<>> /\ Head(rqueue.reg).kind = "HEADERS"
          /\ window' = [window EXCEPT ![Head(rqueue.reg).of] = NewWindow(lastInitial)]
      BY <1>4 DEF SendRequest, RegTurn
    <3>2. Head(rqueue.reg) \in Frames
      BY <3>1, OrderFields
    <3>3. Head(rqueue.reg).of # Conn
      BY <3>1, <3>2, FrameFields, Conns
    <3> QED
      BY <3>1, <3>3, OrderFields, Conns
  <2> QED
    BY <1>4, <2>1, QuietStep DEF SendRequest
<1>5. CASE ReceiverSends
  BY <1>2, <1>3, <1>4, <1>5, SendUpdateHolds DEF ReceiverSends
<1>6. CASE ReceiverReceives
  BY <1>3, <1>6, RecvDataHolds, RecvAckHolds DEF ReceiverReceives
<1>7. CASE SenderReceives
  BY <1>3, <1>7, RecvSettingsHolds, RecvUpdateHolds DEF SenderReceives
<1>8. CASE SenderSends
  BY <1>2, <1>3, <1>8 DEF SenderSends, SendsControl, SendsBytes
<1>9. ASSUME NEW s \in Streams, Consumes(s) PROVE ConnectionHolds'
  BY <1>9, ConsumeHolds DEF Consumes
<1>10. ASSUME NEW v \in Initials, SubmitSettings(v) PROVE ConnectionHolds'
  BY <1>10, QuietStep DEF SubmitSettings
<1>11. ASSUME NEW a \in Tuned, \/ \E size \in NewSizes : SetLocalWindowSize(a, size)
                               \/ \E i \in Increments : SubmitWindowUpdate(a, i)
       PROVE  ConnectionHolds'
  BY <1>11, SetLocalWindowSizeHolds, SubmitWindowUpdateHolds
<1> QED
  BY <1>1, <1>2, <1>5, <1>6, <1>7, <1>8, <1>9, <1>10, <1>11 DEF FlowNext

(* The part of OnlyLoweredStreamFails that is about the connection: with   *)
(* automatic updates it never ends with FLOW_CONTROL_ERROR; without them   *)
(* only the count of what the application has consumed can end it.         *)
THEOREM ConnectionSurvives == FlowSpec => [](Excused /\ (auto => Running))
<1>1. FlowInit => ConnectionHolds
  <2> SUFFICES ASSUME FlowInit PROVE ConnectionHolds
    OBVIOUS
  <2>1. window[Conn].consumed = 0 /\ failed = {}
    BY Conns DEF FlowInit, NewWindow
  <2> QED
    BY <2>1, WindowAssumption DEF ConnectionHolds, Below, Excused
<1>2. FlowInv /\ CreditInv /\ ConnectionHolds /\ [FlowNext]_flowVars => ConnectionHolds'
  BY ConnectionNext DEF CreditInv
<1>3. ConnectionHolds => Excused /\ (auto => Running)
  BY DEF ConnectionHolds, Excused, Running
<1> QED
  BY <1>1, <1>2, <1>3, CreditInvariant, PTL DEF FlowSpec
=============================================================================
