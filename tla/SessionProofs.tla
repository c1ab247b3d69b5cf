---------------------------- MODULE SessionProofs ----------------------------
(***************************************************************************)
(* TypeOK, CountersExact and IdsAnnounced hold in every reachable state of *)
(* Session, for every number of requests, pushes and resets, every stream  *)
(* limit and every choice of who ends the connection.                      *)
(*                                                                         *)
(* The three are inductive together: the counters stay right only because  *)
(* no identifier is opened twice, which is what IdsAnnounced says.  With   *)
(* them RetainedWithinLimit: the closed streams a server keeps and the     *)
(* incoming streams that still run never exceed its limit, although only   *)
(* the next accepted request trims the list.                               *)
(***************************************************************************)
EXTENDS SessionProperties, FiniteSetTheorems, TLAPS

-----------------------------------------------------------------------------
(* What every operator of StreamTable preserves: the type of the table,    *)
(* its shape, and the agreement of the counters with the streams; and      *)
(* which streams it makes known.                                           *)

Good(t, srv) == t \in Table /\ TableShape(t) /\ CountsMatch(t, srv)

(* u knows no stream that t does not know, but for those of N. *)
KnowsFrom(u, t, N) == \A x \in StreamIds : Known(u, x) => Known(t, x) \/ x \in N

(* An identifier belongs to the server or to the client, never to both. *)
LEMMA Parity == ASSUME NEW id \in StreamIds PROVE IsMine(TRUE, id) <=> ~IsMine(FALSE, id)
BY DEF IsMine, StreamIds

(* Sets of stream identifiers are finite.  *)
LEMMA IdSetsFinite ==
  ASSUME NEW S \in SUBSET StreamIds
  PROVE  IsFiniteSet(S) /\ Cardinality(S) \in Nat
<1>1. IsFiniteSet(StreamIds)
  BY FS_Interval, MaxStreamIdAssumption DEF StreamIds
<1>2. IsFiniteSet(S)
  BY <1>1, FS_Subset
<1> QED
  BY <1>2, FS_CardinalityType

(* Adding a stream to a set adds one to what is counted.  *)
LEMMA CountAdd ==
  ASSUME NEW S \in SUBSET StreamIds, NEW x \in StreamIds, x \notin S
  PROVE  Cardinality(S \cup {x}) = Cardinality(S) + 1
BY IdSetsFinite, FS_AddElement

(* Removing a set of streams removes what they counted for.  *)
LEMMA CountMinus ==
  ASSUME NEW A \in SUBSET StreamIds, NEW S \in SUBSET StreamIds
  PROVE  Cardinality(A \ S) = Cardinality(A) - Cardinality(A \cap S)
<1>1. IsFiniteSet(A)
  BY IdSetsFinite
<1>2. Cardinality(A \ S) = Cardinality(A) - Cardinality(A \cap S)
  BY <1>1, FS_Difference
<1> QED
  BY <1>2

(* SetToSeq lists the elements of a set of streams. *)
LEMMA SetToSeqType ==
  ASSUME NEW S \in SUBSET StreamIds
  PROVE  /\ SetToSeq(S) \in Seq(StreamIds)
         /\ \A i \in DOMAIN SetToSeq(S) : SetToSeq(S)[i] \in S
<1>1. PICK n \in Nat : n = Cardinality(S)
  BY IdSetsFinite
<1>2. ExistsBijection(1 .. Cardinality(S), S)
  BY IdSetsFinite, FS_CardinalityType
<1>3. \E f \in [1 .. Cardinality(S) -> S] : IsInjective(f)
  BY <1>2 DEF ExistsBijection, Bijection, Injection
<1>4. SetToSeq(S) \in [1 .. Cardinality(S) -> S]
  BY <1>3 DEF SetToSeq
<1>5. SetToSeq(S) \in [1 .. n -> StreamIds]
  BY <1>1, <1>4
<1> QED
  BY <1>1, <1>4, <1>5

(* The counted sets are sets of stream identifiers. *)
LEMMA CountedSets ==
  ASSUME NEW t, NEW srv
  PROVE  /\ OutgoingSet(t, srv) \in SUBSET StreamIds
         /\ IncomingSet(t, srv) \in SUBSET StreamIds
         /\ ReservedSet(t, srv) \in SUBSET StreamIds
BY DEF OutgoingSet, IncomingSet, ReservedSet, LiveStreams

-----------------------------------------------------------------------------

(* A new table has no streams and counts none. *)
LEMMA EmptyTableGood ==
  ASSUME NEW srv
  PROVE  Good(EmptyTable, srv) /\ \A x \in StreamIds : ~Known(EmptyTable, x)
<1>1. EmptyTable \in Table
  BY DEF EmptyTable, Table, StreamStates
<1>2. LiveStreams(EmptyTable) = {}
  BY DEF EmptyTable, LiveStreams, Live
<1>3. CountsMatch(EmptyTable, srv)
  BY <1>2, FS_EmptySet DEF CountsMatch, OutgoingSet, IncomingSet, ReservedSet, EmptyTable
<1>4. TableShape(EmptyTable) /\ \A x \in StreamIds : ~Known(EmptyTable, x)
  BY DEF TableShape, EmptyTable, Known
<1> QED
  BY <1>1, <1>3, <1>4 DEF Good

(* An operator that changes neither which streams are live nor their push  *)
(* flags nor the counters keeps the counters right. *)
LEMMA SameCounts ==
  ASSUME NEW t, NEW u, NEW srv, CountsMatch(t, srv),
         LiveStreams(u) = LiveStreams(t), u.push = t.push,
         u.out = t.out, u.in = t.in, u.res = t.res
  PROVE  CountsMatch(u, srv)
BY DEF CountsMatch, OutgoingSet, IncomingSet, ReservedSet

(* nghttp2_session_open_stream with an identifier the table never knew. *)
LEMMA OpenStreamGood ==
  ASSUME NEW t, NEW srv \in BOOLEAN, Good(t, srv), NEW id \in StreamIds, ~Known(t, id),
         NEW initial \in {"OPENING", "RESERVED"},
         initial = "RESERVED" => IsMine(TRUE, id)
  PROVE  /\ Good(OpenStream(t, srv, id, initial), srv)
         /\ KnowsFrom(OpenStream(t, srv, id, initial), t, {id})
         /\ Live(OpenStream(t, srv, id, initial), id)
<1> DEFINE u == OpenStream(t, srv, id, initial)
<1>0. t \in Table /\ TableShape(t) /\ CountsMatch(t, srv) /\ t.st[id] = "NONE"
  BY DEF Good, Known
<1>1. u \in Table
  <2>1. PICK out \in Int, in \in Int, res \in Int :
          out = t.out + 1 /\ in = t.in + 1 /\ res = t.res + 1
    BY <1>0 DEF Table
  <2>2. PICK push \in SUBSET StreamIds, rd \in SUBSET StreamIds, wr \in SUBSET StreamIds :
          push = t.push \cup {id} /\ rd = t.rd \cup {id} /\ wr = t.wr \cup {id}
    BY <1>0 DEF Table
  <2>3. PICK st \in [StreamIds -> StreamStates] : st = [t.st EXCEPT ![id] = initial]
    BY <1>0 DEF Table, StreamStates
  <2>4. CASE initial = "RESERVED"
    <3>1. IsMine(srv, id) => u = [t EXCEPT !.st = st, !.push = push, !.rd = rd, !.wr = t.wr, !.res = t.res]
      BY <1>0, <2>2, <2>3, <2>4 DEF OpenStream
    <3>2. ~IsMine(srv, id) => u = [t EXCEPT !.st = st, !.push = push, !.rd = t.rd, !.wr = wr, !.res = res]
      BY <1>0, <2>1, <2>2, <2>3, <2>4 DEF OpenStream
    <3> QED
      BY <1>0, <3>1, <3>2 DEF Table
  <2>5. CASE initial # "RESERVED"
    <3>1. IsMine(srv, id) => u = [t EXCEPT !.st = st, !.out = out, !.in = t.in]
      BY <1>0, <2>1, <2>3, <2>5 DEF OpenStream
    <3>2. ~IsMine(srv, id) => u = [t EXCEPT !.st = st, !.out = t.out, !.in = in]
      BY <1>0, <2>1, <2>3, <2>5 DEF OpenStream
    <3> QED
      BY <1>0, <3>1, <3>2 DEF Table
  <2> QED
    BY <2>4, <2>5
<1>2. id \notin t.push
  BY <1>0 DEF TableShape
<1>3. /\ u.st = [t.st EXCEPT ![id] = initial] /\ u.kept = t.kept
      /\ u.push = IF initial = "RESERVED" THEN t.push \cup {id} ELSE t.push
  BY <1>0 DEF OpenStream, Table
<1>4. LiveStreams(u) = LiveStreams(t) \cup {id} /\ id \notin LiveStreams(t)
  BY <1>0, <1>3 DEF LiveStreams, Live, Table
<1>5. TableShape(u)
  <2>1. \A x \in StreamIds : u.st[x] = IF x = id THEN initial ELSE t.st[x]
    BY <1>0, <1>3 DEF Table
  <2>2. \A x \in StreamIds : u.st[x] = "RESERVED" => x \in u.push /\ IsMine(TRUE, x)
    BY <1>0, <1>3, <2>1 DEF TableShape
  <2>3. \A x \in u.push : u.st[x] \in {"RESERVED", "CLOSING"}
    BY <1>0, <1>2, <1>3, <2>1 DEF TableShape, Table
  <2>4. \A i \in DOMAIN u.kept : u.kept[i] \in StreamIds /\ u.kept[i] # id
    BY <1>0, <1>3 DEF Table, Known, Good
  <2>5. \A i \in DOMAIN u.kept : ~Live(u, u.kept[i])
    BY <1>0, <1>3, <2>1, <2>4 DEF TableShape, Live
  <2> QED
    BY <2>2, <2>3, <2>5 DEF TableShape
<1>6. CountsMatch(u, srv)
  <2>1. CASE initial = "RESERVED" /\ IsMine(srv, id)
    <3>1. /\ OutgoingSet(u, srv) = OutgoingSet(t, srv)
          /\ IncomingSet(u, srv) = IncomingSet(t, srv)
          /\ ReservedSet(u, srv) = ReservedSet(t, srv)
      BY <1>2, <1>3, <1>4, <2>1 DEF OutgoingSet, IncomingSet, ReservedSet
    <3> QED
      BY <1>0, <2>1, <3>1 DEF CountsMatch, OpenStream, Table
  <2>2. CASE initial = "RESERVED" /\ ~IsMine(srv, id)
    <3>1. /\ OutgoingSet(u, srv) = OutgoingSet(t, srv)
          /\ IncomingSet(u, srv) = IncomingSet(t, srv)
          /\ ReservedSet(u, srv) = ReservedSet(t, srv) \cup {id}
          /\ id \notin ReservedSet(t, srv)
      BY <1>2, <1>3, <1>4, <2>2 DEF OutgoingSet, IncomingSet, ReservedSet
    <3>2. Cardinality(ReservedSet(u, srv)) = Cardinality(ReservedSet(t, srv)) + 1
      BY <3>1, CountAdd, CountedSets
    <3> QED
      BY <1>0, <2>2, <3>1, <3>2 DEF CountsMatch, OpenStream, Table
  <2>3. CASE initial # "RESERVED" /\ IsMine(srv, id)
    <3>1. /\ OutgoingSet(u, srv) = OutgoingSet(t, srv) \cup {id}
          /\ IncomingSet(u, srv) = IncomingSet(t, srv)
          /\ ReservedSet(u, srv) = ReservedSet(t, srv)
          /\ id \notin OutgoingSet(t, srv)
      BY <1>2, <1>3, <1>4, <2>3 DEF OutgoingSet, IncomingSet, ReservedSet
    <3>2. Cardinality(OutgoingSet(u, srv)) = Cardinality(OutgoingSet(t, srv)) + 1
      BY <3>1, CountAdd, CountedSets
    <3> QED
      BY <1>0, <2>3, <3>1, <3>2 DEF CountsMatch, OpenStream, Table
  <2>4. CASE initial # "RESERVED" /\ ~IsMine(srv, id)
    <3>1. /\ OutgoingSet(u, srv) = OutgoingSet(t, srv)
          /\ IncomingSet(u, srv) = IncomingSet(t, srv) \cup {id}
          /\ ReservedSet(u, srv) = ReservedSet(t, srv)
          /\ id \notin IncomingSet(t, srv)
      BY <1>2, <1>3, <1>4, <2>4 DEF OutgoingSet, IncomingSet, ReservedSet
    <3>2. Cardinality(IncomingSet(u, srv)) = Cardinality(IncomingSet(t, srv)) + 1
      BY <3>1, CountAdd, CountedSets
    <3> QED
      BY <1>0, <2>4, <3>1, <3>2 DEF CountsMatch, OpenStream, Table
  <2> QED
    BY <2>1, <2>2, <2>3, <2>4
<1>7. KnowsFrom(u, t, {id})
  BY <1>0, <1>3 DEF KnowsFrom, Known, Table
<1> QED
  BY <1>1, <1>4, <1>5, <1>6, <1>7 DEF Good, LiveStreams

(* An operator that changes the state of one live stream, but not its push *)
(* flag or a counter.                                                      *)
LEMMA SetStateGood ==
  ASSUME NEW t, NEW srv \in BOOLEAN, Good(t, srv), NEW id \in StreamIds, Live(t, id),
         NEW s \in {"OPENING", "OPENED", "CLOSING"}, id \in t.push => s = "CLOSING"
  PROVE  Good(SetState(t, id, s), srv) /\ KnowsFrom(SetState(t, id, s), t, {})
<1> DEFINE u == SetState(t, id, s)
<1>0. t \in Table /\ TableShape(t) /\ CountsMatch(t, srv)
  BY DEF Good
<1>1. PICK st \in [StreamIds -> StreamStates] : st = [t.st EXCEPT ![id] = s]
  BY <1>0 DEF Table, StreamStates
<1>2. u = [t EXCEPT !.st = st]
  BY <1>0, <1>1 DEF SetState
<1>3. u \in Table
  BY <1>0, <1>2 DEF Table
<1>4. /\ \A x \in StreamIds : u.st[x] = IF x = id THEN s ELSE t.st[x]
      /\ u.kept = t.kept /\ u.push = t.push
      /\ u.out = t.out /\ u.in = t.in /\ u.res = t.res
  BY <1>0, <1>1, <1>2 DEF Table
<1>5. LiveStreams(u) = LiveStreams(t)
  BY <1>4 DEF LiveStreams, Live
<1>6. CountsMatch(u, srv)
  BY <1>0, <1>4, <1>5, SameCounts
<1>7. TableShape(u)
  <2>1. \A x \in StreamIds : u.st[x] = "RESERVED" => x \in u.push /\ IsMine(TRUE, x)
    BY <1>0, <1>4 DEF TableShape
  <2>2. \A x \in u.push : u.st[x] \in {"RESERVED", "CLOSING"}
    BY <1>0, <1>4 DEF TableShape, Table
  <2>3. \A i \in DOMAIN u.kept : u.kept[i] \in StreamIds /\ u.kept[i] # id
    BY <1>0, <1>4 DEF TableShape, Table
  <2>4. \A i \in DOMAIN u.kept : ~Live(u, u.kept[i])
    BY <1>0, <1>4, <2>3 DEF TableShape, Live
  <2> QED
    BY <2>1, <2>2, <2>4 DEF TableShape
<1>8. KnowsFrom(u, t, {})
  BY <1>4 DEF KnowsFrom, Known, Live
<1> QED
  BY <1>3, <1>6, <1>7, <1>8 DEF Good

(* Shutting a side of a stream, or attaching or detaching its DATA.        *)
LEMMA FlagsGood ==
  ASSUME NEW t, NEW srv \in BOOLEAN, Good(t, srv), NEW id \in StreamIds,
         NEW u \in {ShutRd(t, id), ShutWr(t, id), Attach(t, id), Detach(t, id)}
  PROVE  Good(u, srv) /\ KnowsFrom(u, t, {}) /\ u.st = t.st
<1>0. t \in Table /\ TableShape(t) /\ CountsMatch(t, srv)
  BY DEF Good
<1>1. u \in Table
  <2>1. PICK A \in SUBSET StreamIds, B \in SUBSET StreamIds,
             C \in SUBSET StreamIds, D \in SUBSET StreamIds :
          A = t.rd \cup {id} /\ B = t.wr \cup {id} /\ C = t.item \cup {id} /\ D = t.item \ {id}
    BY <1>0 DEF Table
  <2>2. u \in {[t EXCEPT !.rd = A], [t EXCEPT !.wr = B], [t EXCEPT !.item = C], [t EXCEPT !.item = D]}
    BY <1>0, <2>1 DEF ShutRd, ShutWr, Attach, Detach
  <2> QED
    BY <1>0, <2>2 DEF Table
<1>2. /\ u.st = t.st /\ u.kept = t.kept /\ u.push = t.push
      /\ u.out = t.out /\ u.in = t.in /\ u.res = t.res
  BY <1>0 DEF Table, ShutRd, ShutWr, Attach, Detach
<1>3. LiveStreams(u) = LiveStreams(t)
  BY <1>2 DEF LiveStreams, Live
<1>4. CountsMatch(u, srv)
  BY <1>0, <1>2, <1>3, SameCounts
<1>5. TableShape(u) /\ KnowsFrom(u, t, {})
  BY <1>0, <1>2 DEF TableShape, Live, KnowsFrom, Known
<1> QED
  BY <1>1, <1>2, <1>4, <1>5 DEF Good

(* nghttp2_session_close_stream for any set of live streams: each counter  *)
(* gives back exactly the streams it counted.                              *)
LEMMA CloseStreamsGood ==
  ASSUME NEW t, NEW srv \in BOOLEAN, Good(t, srv), NEW S \in SUBSET LiveStreams(t)
  PROVE  Good(CloseStreams(t, srv, S), srv) /\ KnowsFrom(CloseStreams(t, srv, S), t, {})
<1> DEFINE u    == CloseStreams(t, srv, S)
           keep == {id \in S : srv /\ ~IsMine(srv, id)}
<1>0. t \in Table /\ TableShape(t) /\ CountsMatch(t, srv)
  BY DEF Good
<1>1. S \in SUBSET StreamIds /\ keep \in SUBSET StreamIds
  BY DEF LiveStreams
<1>2. /\ SetToSeq(keep) \in Seq(StreamIds)
      /\ \A i \in DOMAIN SetToSeq(keep) : SetToSeq(keep)[i] \in keep
  BY <1>1, SetToSeqType
<1>3. /\ u.st = [id \in StreamIds |-> IF id \in keep THEN "CLOSED"
                                     ELSE IF id \in S \ keep THEN "NONE" ELSE t.st[id]]
      /\ u.push = t.push \ S
      /\ u.kept = t.kept \o SetToSeq(keep)
  BY DEF CloseStreams
<1>4. \A x \in StreamIds : u.st[x] = IF x \in keep THEN "CLOSED" ELSE IF x \in S THEN "NONE" ELSE t.st[x]
  BY <1>3
<1>5. LiveStreams(u) = LiveStreams(t) \ S
  BY <1>4 DEF LiveStreams, Live
<1>6. /\ OutgoingSet(u, srv) = OutgoingSet(t, srv) \ S
      /\ IncomingSet(u, srv) = IncomingSet(t, srv) \ S
      /\ ReservedSet(u, srv) = ReservedSet(t, srv) \ S
  BY <1>3, <1>5 DEF OutgoingSet, IncomingSet, ReservedSet
<1>7. /\ Cardinality(OutgoingSet(u, srv)) = t.out - Cardinality(OutgoingSet(t, srv) \cap S)
      /\ Cardinality(IncomingSet(u, srv)) = t.in - Cardinality(IncomingSet(t, srv) \cap S)
      /\ Cardinality(ReservedSet(u, srv)) = t.res - Cardinality(ReservedSet(t, srv) \cap S)
  BY <1>0, <1>1, <1>6, CountedSets, CountMinus DEF CountsMatch
<1>8. CountsMatch(u, srv)
  BY <1>7 DEF CountsMatch, CloseStreams
<1>9. u \in Table
  <2>1. u.st \in [StreamIds -> StreamStates]
    BY <1>0, <1>3 DEF Table, StreamStates
  <2>2. u.kept \in Seq(StreamIds)
    BY <1>0, <1>2, <1>3 DEF Table
  <2>3. /\ Cardinality(OutgoingSet(u, srv)) \in Int
        /\ Cardinality(IncomingSet(u, srv)) \in Int
        /\ Cardinality(ReservedSet(u, srv)) \in Int
    BY IdSetsFinite, CountedSets
  <2>4. u.out \in Int /\ u.in \in Int /\ u.res \in Int
    BY <1>8, <2>3 DEF CountsMatch
  <2>5. /\ u.rd \in SUBSET StreamIds /\ u.wr \in SUBSET StreamIds
        /\ u.push \in SUBSET StreamIds /\ u.item \in SUBSET StreamIds
    BY <1>0 DEF CloseStreams, Table
  <2>6. u = [st |-> u.st, rd |-> u.rd, wr |-> u.wr, push |-> u.push, item |-> u.item,
             out |-> u.out, in |-> u.in, res |-> u.res, kept |-> u.kept]
    BY DEF CloseStreams
  <2> HIDE DEF u
  <2> QED
    BY <2>1, <2>2, <2>4, <2>5, <2>6 DEF Table
<1>10. TableShape(u)
  <2>1. \A x \in StreamIds : u.st[x] = "RESERVED" => x \in u.push /\ IsMine(TRUE, x)
    BY <1>0, <1>3, <1>4 DEF TableShape
  <2>2. \A x \in u.push : u.st[x] \in {"RESERVED", "CLOSING"}
    BY <1>0, <1>3, <1>4 DEF TableShape, Table
  <2>3. \A i \in DOMAIN u.kept : u.kept[i] \in keep \/ \E j \in DOMAIN t.kept : u.kept[i] = t.kept[j]
    BY <1>0, <1>2, <1>3 DEF Table
  <2>4. \A j \in DOMAIN t.kept : t.kept[j] \in StreamIds /\ ~Live(t, t.kept[j])
    BY <1>0 DEF Table, TableShape
  <2>5. \A i \in DOMAIN u.kept : ~Live(u, u.kept[i])
    BY <1>1, <1>4, <2>3, <2>4 DEF Live
  <2> QED
    BY <2>1, <2>2, <2>5 DEF TableShape
<1>11. KnowsFrom(u, t, {})
  <2>1. \A x \in S : Known(t, x)
    BY DEF LiveStreams, Live, Known
  <2>2. \A i \in DOMAIN u.kept : u.kept[i] \in keep \/ \E j \in DOMAIN t.kept : u.kept[i] = t.kept[j]
    BY <1>0, <1>2, <1>3 DEF Table
  <2>3. \A x \in StreamIds : u.st[x] # "NONE" => x \in S \/ t.st[x] # "NONE"
    BY <1>4
  <2> HIDE DEF u
  <2> QED
    BY <2>1, <2>2, <2>3 DEF KnowsFrom, Known
<1> QED
  BY <1>8, <1>9, <1>10, <1>11 DEF Good

(* Closing one stream, if it is live. *)
LEMMA CloseStreamGood ==
  ASSUME NEW t, NEW srv \in BOOLEAN, Good(t, srv), NEW id \in StreamIds
  PROVE  /\ Good(CloseStream(t, srv, id), srv) /\ KnowsFrom(CloseStream(t, srv, id), t, {})
         /\ Good(CloseIfShut(t, srv, id), srv) /\ KnowsFrom(CloseIfShut(t, srv, id), t, {})
<1>1. KnowsFrom(t, t, {})
  BY DEF KnowsFrom
<1>2. Live(t, id) => {id} \in SUBSET LiveStreams(t)
  BY DEF LiveStreams
<1>3. Good(CloseStream(t, srv, id), srv) /\ KnowsFrom(CloseStream(t, srv, id), t, {})
  BY <1>1, <1>2, CloseStreamsGood DEF CloseStream
<1> QED
  BY <1>1, <1>3 DEF CloseIfShut

(* nghttp2_session_adjust_closed_stream forgets kept streams only. *)
LEMMA AdjustClosedGood ==
  ASSUME NEW t, NEW srv \in BOOLEAN, Good(t, srv), NEW max \in Int
  PROVE  /\ Good(AdjustClosed(t, max), srv) /\ KnowsFrom(AdjustClosed(t, max), t, {})
         /\ \A x \in StreamIds : Live(t, x) => Live(AdjustClosed(t, max), x)
<1> DEFINE u == AdjustClosed(t, max)
           excess == Len(t.kept) + t.in - max
           n    == IF excess <= 0 THEN 0
                   ELSE IF excess < Len(t.kept) THEN excess ELSE Len(t.kept)
           gone == {t.kept[i] : i \in 1 .. n}
<1>0. t \in Table /\ TableShape(t) /\ CountsMatch(t, srv)
  BY DEF Good
<1>1. n \in 0 .. Len(t.kept) /\ Len(t.kept) \in Nat
  <2>1. t.kept \in Seq(StreamIds) /\ t.in \in Int
    BY <1>0 DEF Table
  <2>2. Len(t.kept) \in Nat
    BY <2>1
  <2> QED
    BY <2>1, <2>2
<1>2. \A x \in gone : x \in StreamIds /\ ~Live(t, x)
  BY <1>0, <1>1 DEF Table, TableShape
<1>3. PICK st \in [StreamIds -> StreamStates], rd \in SUBSET StreamIds,
           wr \in SUBSET StreamIds, kept \in Seq(StreamIds) :
        /\ st = [id \in StreamIds |-> IF id \in gone THEN "NONE" ELSE t.st[id]]
        /\ rd = t.rd \ gone /\ wr = t.wr \ gone
        /\ kept = SubSeq(t.kept, n + 1, Len(t.kept))
  <2>1. [id \in StreamIds |-> IF id \in gone THEN "NONE" ELSE t.st[id]] \in [StreamIds -> StreamStates]
    BY <1>0 DEF Table, StreamStates
  <2>2. SubSeq(t.kept, n + 1, Len(t.kept)) \in Seq(StreamIds)
    BY <1>0, <1>1 DEF Table
  <2>3. t.rd \ gone \in SUBSET StreamIds /\ t.wr \ gone \in SUBSET StreamIds
    BY <1>0 DEF Table
  <2> QED
    BY <2>1, <2>2, <2>3
<1>4. u = [t EXCEPT !.st = st, !.rd = rd, !.wr = wr, !.kept = kept]
  BY <1>0, <1>3 DEF AdjustClosed, Table
<1>5. u \in Table
  BY <1>0, <1>4 DEF Table
<1> HIDE DEF n, gone, u
<1>6. /\ \A x \in StreamIds : u.st[x] = IF x \in gone THEN "NONE" ELSE t.st[x]
      /\ u.push = t.push /\ u.out = t.out /\ u.in = t.in /\ u.res = t.res
      /\ u.kept = kept
  <2>1. /\ u.st = st /\ u.kept = kept /\ u.push = t.push
        /\ u.out = t.out /\ u.in = t.in /\ u.res = t.res
    BY <1>0, <1>4 DEF Table
  <2> QED
    BY <1>3, <2>1
<1>7. \A i \in DOMAIN u.kept : \E j \in DOMAIN t.kept : u.kept[i] = t.kept[j]
  <2>1. PICK len \in Nat : len = Len(t.kept)
    BY <1>1
  <2>2. t.kept \in Seq(StreamIds)
    BY <1>0 DEF Table
  <2>3. DOMAIN t.kept = 1 .. len /\ n \in 0 .. len
    BY <1>1, <2>1, <2>2
  <2>4. kept = [i \in 1 .. (len - n) |-> t.kept[i + n]]
    BY <1>3, <2>1, <2>2, <2>3, SMTT(20)
  <2>5. \A i \in DOMAIN kept : i + n \in DOMAIN t.kept /\ kept[i] = t.kept[i + n]
    BY <2>3, <2>4
  <2> QED
    BY <1>6, <2>5
<1>8. LiveStreams(u) = LiveStreams(t)
  BY <1>2, <1>6 DEF LiveStreams, Live
<1>9. CountsMatch(u, srv)
  BY <1>0, <1>6, <1>8, SameCounts
<1>10. TableShape(u)
  <2>1. \A x \in StreamIds : u.st[x] = "RESERVED" => x \in u.push /\ IsMine(TRUE, x)
    BY <1>0, <1>6 DEF TableShape
  <2>2. \A x \in u.push : u.st[x] \in {"RESERVED", "CLOSING"}
    BY <1>0, <1>2, <1>6 DEF TableShape, Table, Live
  <2>3. \A j \in DOMAIN t.kept : t.kept[j] \in StreamIds /\ ~Live(t, t.kept[j])
    BY <1>0 DEF Table, TableShape
  <2>4. \A i \in DOMAIN u.kept : ~Live(u, u.kept[i])
    BY <1>6, <1>7, <2>3 DEF Live
  <2> QED
    BY <2>1, <2>2, <2>4 DEF TableShape
<1>11. KnowsFrom(u, t, {})
  BY <1>6, <1>7 DEF KnowsFrom, Known
<1>12. \A x \in StreamIds : Live(t, x) => Live(u, x)
  BY <1>8 DEF LiveStreams
<1> QED
  BY <1>5, <1>9, <1>10, <1>11, <1>12 DEF Good, u

(* A server sends the response of a stream it promised: the stream counts  *)
(* as outgoing from now on.                                                *)
LEMMA PushResponseSentGood ==
  ASSUME NEW t, Good(t, TRUE), NEW id \in StreamIds, t.st[id] = "RESERVED"
  PROVE  /\ Good(PushResponseSent(t, id), TRUE) /\ KnowsFrom(PushResponseSent(t, id), t, {})
         /\ Live(PushResponseSent(t, id), id)
<1> DEFINE u == PushResponseSent(t, id)
<1>0. t \in Table /\ TableShape(t) /\ CountsMatch(t, TRUE) /\ id \in t.push /\ IsMine(TRUE, id)
  BY DEF Good, TableShape
<1>1. PICK st \in [StreamIds -> StreamStates], push \in SUBSET StreamIds, out \in Int :
        st = [t.st EXCEPT ![id] = "OPENED"] /\ push = t.push \ {id} /\ out = t.out + 1
  <2>1. [t.st EXCEPT ![id] = "OPENED"] \in [StreamIds -> StreamStates]
    BY <1>0 DEF Table, StreamStates
  <2>2. t.push \ {id} \in SUBSET StreamIds /\ t.out + 1 \in Int
    BY <1>0 DEF Table
  <2> QED
    BY <2>1, <2>2
<1>2. u = [t EXCEPT !.push = push, !.out = out, !.st = st]
  BY <1>0, <1>1 DEF PushResponseSent
<1> HIDE DEF u
<1>3. u \in Table
  BY <1>0, <1>2 DEF Table
<1>4. /\ u.st = st /\ u.push = push /\ u.out = out
      /\ u.in = t.in /\ u.res = t.res /\ u.kept = t.kept
  BY <1>0, <1>2 DEF Table
<1>5. \A x \in StreamIds : u.st[x] = IF x = id THEN "OPENED" ELSE t.st[x]
  BY <1>0, <1>1, <1>4 DEF Table
<1>6. LiveStreams(u) = LiveStreams(t) /\ id \in LiveStreams(t)
  BY <1>5 DEF LiveStreams, Live
<1>7. /\ OutgoingSet(u, TRUE) = OutgoingSet(t, TRUE) \cup {id} /\ id \notin OutgoingSet(t, TRUE)
      /\ IncomingSet(u, TRUE) = IncomingSet(t, TRUE)
      /\ ReservedSet(u, TRUE) = ReservedSet(t, TRUE)
  BY <1>0, <1>1, <1>4, <1>6 DEF OutgoingSet, IncomingSet, ReservedSet
<1>8. CountsMatch(u, TRUE)
  <2>1. Cardinality(OutgoingSet(u, TRUE)) = Cardinality(OutgoingSet(t, TRUE)) + 1
    BY <1>7, CountAdd, CountedSets
  <2> QED
    BY <1>0, <1>1, <1>4, <1>7, <2>1 DEF CountsMatch
<1>9. TableShape(u)
  <2>1. \A x \in StreamIds : u.st[x] = "RESERVED" => x \in u.push /\ IsMine(TRUE, x)
    BY <1>0, <1>1, <1>4, <1>5 DEF TableShape
  <2>2. \A x \in u.push : u.st[x] \in {"RESERVED", "CLOSING"}
    BY <1>0, <1>1, <1>4, <1>5 DEF TableShape, Table
  <2>3. \A i \in DOMAIN t.kept : t.kept[i] \in StreamIds /\ ~Live(t, t.kept[i])
    BY <1>0 DEF TableShape, Table
  <2>4. \A i \in DOMAIN u.kept : ~Live(u, u.kept[i])
    BY <1>4, <1>5, <2>3 DEF Live
  <2> QED
    BY <2>1, <2>2, <2>4 DEF TableShape
<1>10. KnowsFrom(u, t, {})
  BY <1>4, <1>5 DEF KnowsFrom, Known
<1> QED
  BY <1>3, <1>6, <1>8, <1>9, <1>10 DEF Good, u, LiveStreams

(* A client receives the response of a promised stream: it stops counting  *)
(* as reserved and starts counting as incoming.                            *)
LEMMA PromiseFulfilledGood ==
  ASSUME NEW t, Good(t, FALSE), NEW id \in StreamIds, t.st[id] = "RESERVED"
  PROVE  /\ Good(PromiseFulfilled(t, id), FALSE) /\ KnowsFrom(PromiseFulfilled(t, id), t, {})
         /\ Live(PromiseFulfilled(t, id), id)
<1> DEFINE u == PromiseFulfilled(t, id)
<1>0. t \in Table /\ TableShape(t) /\ CountsMatch(t, FALSE) /\ id \in t.push /\ ~IsMine(FALSE, id)
  <2>1. t \in Table /\ TableShape(t) /\ CountsMatch(t, FALSE)
    BY DEF Good
  <2>2. id \in t.push /\ IsMine(TRUE, id)
    BY <2>1 DEF TableShape
  <2> QED
    BY <2>1, <2>2, Parity
<1>1. PICK st \in [StreamIds -> StreamStates], push \in SUBSET StreamIds, res \in Int, in \in Int :
        /\ st = [t.st EXCEPT ![id] = "OPENED"] /\ push = t.push \ {id}
        /\ res = t.res - 1 /\ in = t.in + 1
  <2>1. [t.st EXCEPT ![id] = "OPENED"] \in [StreamIds -> StreamStates]
    BY <1>0 DEF Table, StreamStates
  <2>2. t.push \ {id} \in SUBSET StreamIds /\ t.res - 1 \in Int /\ t.in + 1 \in Int
    BY <1>0 DEF Table
  <2> QED
    BY <2>1, <2>2
<1>2. u = [t EXCEPT !.push = push, !.st = st, !.res = res, !.in = in]
  BY <1>0, <1>1 DEF PromiseFulfilled
<1> HIDE DEF u
<1>3. u \in Table
  BY <1>0, <1>2 DEF Table
<1>4. /\ u.st = st /\ u.push = push /\ u.in = in /\ u.res = res
      /\ u.out = t.out /\ u.kept = t.kept
  BY <1>0, <1>2 DEF Table
<1>5. \A x \in StreamIds : u.st[x] = IF x = id THEN "OPENED" ELSE t.st[x]
  BY <1>0, <1>1, <1>4 DEF Table
<1>6. LiveStreams(u) = LiveStreams(t) /\ id \in LiveStreams(t)
  BY <1>5 DEF LiveStreams, Live
<1>7. /\ OutgoingSet(u, FALSE) = OutgoingSet(t, FALSE)
      /\ IncomingSet(u, FALSE) = IncomingSet(t, FALSE) \cup {id} /\ id \notin IncomingSet(t, FALSE)
      /\ ReservedSet(t, FALSE) = ReservedSet(u, FALSE) \cup {id} /\ id \notin ReservedSet(u, FALSE)
  BY <1>0, <1>1, <1>4, <1>6 DEF OutgoingSet, IncomingSet, ReservedSet
<1>8. CountsMatch(u, FALSE)
  <2>1. /\ Cardinality(IncomingSet(u, FALSE)) = Cardinality(IncomingSet(t, FALSE)) + 1
        /\ Cardinality(ReservedSet(t, FALSE)) = Cardinality(ReservedSet(u, FALSE)) + 1
    BY <1>7, CountAdd, CountedSets
  <2>2. Cardinality(ReservedSet(u, FALSE)) \in Nat /\ Cardinality(IncomingSet(t, FALSE)) \in Nat
    BY IdSetsFinite, CountedSets
  <2>3. t.in = Cardinality(IncomingSet(t, FALSE)) /\ t.res = Cardinality(ReservedSet(t, FALSE))
        /\ t.out = Cardinality(OutgoingSet(t, FALSE))
    BY <1>0 DEF CountsMatch
  <2>4. u.in = Cardinality(IncomingSet(u, FALSE))
    BY <1>1, <1>4, <2>1, <2>3
  <2>5. u.res = Cardinality(ReservedSet(u, FALSE))
    <3>1. PICK n \in Nat : n = Cardinality(ReservedSet(u, FALSE))
      BY <2>2
    <3>2. t.res = n + 1
      BY <2>1, <2>3, <3>1
    <3>3. u.res = (n + 1) - 1
      BY <1>1, <1>4, <3>2
    <3>4. (n + 1) - 1 = n
      OBVIOUS
    <3> QED
      BY <3>1, <3>3, <3>4, Zenon
  <2> QED
    BY <1>4, <1>7, <2>3, <2>4, <2>5 DEF CountsMatch
<1>9. TableShape(u)
  <2>1. \A x \in StreamIds : u.st[x] = "RESERVED" => x \in u.push /\ IsMine(TRUE, x)
    BY <1>0, <1>1, <1>4, <1>5 DEF TableShape
  <2>2. \A x \in u.push : u.st[x] \in {"RESERVED", "CLOSING"}
    BY <1>0, <1>1, <1>4, <1>5 DEF TableShape, Table
  <2>3. \A i \in DOMAIN t.kept : t.kept[i] \in StreamIds /\ ~Live(t, t.kept[i])
    BY <1>0 DEF TableShape, Table
  <2>4. \A i \in DOMAIN u.kept : ~Live(u, u.kept[i])
    BY <1>4, <1>5, <2>3 DEF Live
  <2> QED
    BY <2>1, <2>2, <2>4 DEF TableShape
<1>10. KnowsFrom(u, t, {})
  BY <1>4, <1>5 DEF KnowsFrom, Known
<1> QED
  BY <1>3, <1>6, <1>8, <1>9, <1>10 DEF Good, u, LiveStreams

(* Facts about one table carry over a sequence of operators.               *)
LEMMA KnowsTwice ==
  ASSUME NEW t, NEW u, NEW v, NEW N, KnowsFrom(v, u, {}), KnowsFrom(u, t, N)
  PROVE  KnowsFrom(v, t, N)
BY DEF KnowsFrom

(* session_end_stream_headers_received and its like: shut a side, then     *)
(* close the stream if both are shut.                                      *)
LEMMA ShutThenClose ==
  ASSUME NEW t, NEW srv \in BOOLEAN, Good(t, srv), NEW id \in StreamIds,
         NEW u \in {ShutRd(t, id), ShutWr(t, id)}
  PROVE  Good(CloseIfShut(u, srv, id), srv) /\ KnowsFrom(CloseIfShut(u, srv, id), t, {})
<1>1. Good(u, srv) /\ KnowsFrom(u, t, {})
  BY FlagsGood
<1>2. Good(CloseIfShut(u, srv, id), srv) /\ KnowsFrom(CloseIfShut(u, srv, id), u, {})
  BY <1>1, CloseStreamGood
<1> QED
  BY <1>1, <1>2, KnowsTwice

-----------------------------------------------------------------------------
(* The invariant of Session                                                *)

Inv == TypeOK /\ CountersExact /\ IdsAnnounced

(* The same, one variable at a time. *)
TablesGood == /\ table \in [Endpoints -> Table]
              /\ \A e \in Endpoints : Good(table[e], Srv(e))
QueuesOK   == /\ queue \in [Endpoints -> Queues("client") \cup Queues("server")]
              /\ \A e \in Endpoints : queue[e] \in Queues(e)
ConnsOK    == /\ conn \in [Endpoints -> Conn]
              /\ conn["client"].nextId % 2 = 1 /\ conn["server"].nextId % 2 = 0
              /\ conn["server"].nextId > 0
WiresOK    == /\ wire \in [Endpoints -> Seq(FramesTo("client")) \cup Seq(FramesTo("server"))]
              /\ \A e \in Endpoints : wire[e] \in Seq(FramesTo(e))
LogsOK     == log \in [Endpoints -> Log]
AllKnown   == \A e \in Endpoints : \A id \in StreamIds :
                Known(table[e], id) => Announced(e, conn[e], id)

(* How a session's counters may move: d comes after c. *)
Later(d, c) == /\ d.lastRecv >= c.lastRecv /\ d.lastSent >= c.lastSent
               /\ d.nextId \in {c.nextId, c.nextId + 2}

(* The parts make up the invariant. *)
LEMMA InvParts == Inv <=> TablesGood /\ QueuesOK /\ ConnsOK /\ WiresOK /\ LogsOK /\ AllKnown
<1>1. TypeOK <=> /\ table \in [Endpoints -> Table] /\ QueuesOK
                 /\ conn \in [Endpoints -> Conn] /\ WiresOK /\ LogsOK
  BY DEF TypeOK, QueuesOK, WiresOK, LogsOK
<1>2. TablesGood <=> /\ table \in [Endpoints -> Table] /\ CountersExact
                     /\ \A e \in Endpoints : TableShape(table[e])
  BY DEF TablesGood, Good, CountersExact
<1> QED
  BY <1>1, <1>2 DEF Inv, IdsAnnounced, ConnsOK, AllKnown

(* The two ends, and which is which. *)
LEMMA Ends ==
  /\ Endpoints = {"client", "server"} /\ "client" # "server"
  /\ Srv("client") = FALSE /\ Srv("server") = TRUE
  /\ Peer("client") = "server" /\ Peer("server") = "client"
  /\ \A e \in Endpoints : Srv(e) \in BOOLEAN /\ Peer(e) \in Endpoints
BY DEF Endpoints, Srv, Peer

(* A step of e that gives it a good table, well-typed queues and a later   *)
(* state, and that announces what it opens, keeps the invariant.           *)
LEMMA Step ==
  ASSUME Inv, NEW e \in Endpoints, NEW t, NEW q, NEW c, NEW N,
         table' = [table EXCEPT ![e] = t], Good(t, Srv(e)), KnowsFrom(t, table[e], N),
         queue' = [queue EXCEPT ![e] = q], q \in Queues(e),
         conn' = [conn EXCEPT ![e] = c], c \in Conn, Later(c, conn[e]),
         \A id \in StreamIds : id \in N => Announced(e, c, id),
         WiresOK', LogsOK'
  PROVE  Inv'
<1>0. TablesGood /\ QueuesOK /\ ConnsOK /\ AllKnown
  BY InvParts
<1>1. TablesGood'
  <2>1. t \in Table
    BY DEF Good
  <2> QED
    BY <1>0, <2>1 DEF TablesGood
<1>2. QueuesOK'
  <2>1. q \in Queues("client") \cup Queues("server")
    BY Ends
  <2> QED
    BY <1>0, <2>1 DEF QueuesOK
<1>3. ConnsOK'
  <2>1. conn' \in [Endpoints -> Conn]
    BY <1>0 DEF ConnsOK
  <2>2. conn'[e] = c /\ \A x \in Endpoints : x # e => conn'[x] = conn[x]
    BY <1>0 DEF ConnsOK
  <2>3. conn[e].nextId \in Nat /\ c.nextId \in Nat
    BY <1>0, Ends DEF ConnsOK, Conn
  <2>4. c.nextId % 2 = conn[e].nextId % 2 /\ c.nextId >= conn[e].nextId
    <3>1. PICK a \in Nat : a = conn[e].nextId
      BY <2>3
    <3>2. a % 2 = (a + 2) % 2
      OBVIOUS
    <3>3. c.nextId = a \/ c.nextId = a + 2
      BY <3>1 DEF Later
    <3> QED
      BY <2>3, <3>1, <3>2, <3>3
  <2> QED
    BY <1>0, <2>1, <2>2, <2>3, <2>4, Ends DEF ConnsOK
<1>4. AllKnown'
  <2> SUFFICES ASSUME NEW x \in Endpoints, NEW id \in StreamIds, Known(table'[x], id)
               PROVE  Announced(x, conn'[x], id)
    BY DEF AllKnown
  <2>1. CASE x = e
    <3>1. table'[e] = t /\ conn'[e] = c
      BY <1>0 DEF TablesGood, ConnsOK
    <3>2. CASE id \in N
      BY <2>1, <3>1, <3>2
    <3>3. CASE Known(table[e], id)
      <4>1. Announced(e, conn[e], id)
        BY <1>0, <3>3 DEF AllKnown
      <4>2. /\ conn[e].lastRecv \in Int /\ conn[e].lastSent \in Int /\ conn[e].nextId \in Int
            /\ c.lastRecv \in Int /\ c.lastSent \in Int /\ c.nextId \in Int /\ id \in Int
        BY <1>0 DEF ConnsOK, Conn, StreamIds
      <4>3. /\ c.lastRecv >= conn[e].lastRecv /\ c.lastSent >= conn[e].lastSent
            /\ c.nextId >= conn[e].nextId
        BY <4>2 DEF Later
      <4> QED
        BY <2>1, <3>1, <4>1, <4>2, <4>3 DEF Announced
    <3> QED
      BY <2>1, <3>1, <3>2, <3>3 DEF KnowsFrom
  <2>2. CASE x # e
    BY <1>0, <2>2 DEF TablesGood, ConnsOK, AllKnown
  <2> QED
    BY <2>1, <2>2
<1> QED
  BY <1>1, <1>2, <1>3, <1>4, InvParts DEF Inv, TypeOK, CountersExact, IdsAnnounced,
     TablesGood, QueuesOK, ConnsOK, WiresOK, LogsOK, AllKnown, Good

-----------------------------------------------------------------------------
(* Frames, queues, wires and logs                                          *)

(* What the constructors build. *)
LEMMA FrameKinds ==
  /\ \A id \in StreamIds, end \in BOOLEAN : Headers(id, end) \in RegFrames("server")
  /\ \A id \in StreamIds, end \in BOOLEAN : IsMine(FALSE, id) => Headers(id, end) \in RegFrames("client")
  /\ \A id \in StreamIds, child \in StreamIds : IsMine(TRUE, child) => PushPromise(id, child) \in RegFrames("server")
  /\ \A id \in StreamIds, code \in Codes : Rst(id, code) \in SynFrames
  /\ \A id \in StreamIds : Data(id) \in DataFrames
  /\ SettingsAck \in UrgFrames
  /\ \A e \in Endpoints, last \in 0 .. MaxStreamId, term \in BOOLEAN : Goaway(last, term) \in RegFrames(e)
<1>1. \A id \in 0 .. MaxStreamId, end \in BOOLEAN, arg \in Nat, code \in Codes, type \in FrameTypes :
        F(type, id, end, arg, code) \in Frame
  BY DEF F, Frame
<1>2. StreamIds \subseteq 0 .. MaxStreamId /\ StreamIds \subseteq Nat /\ 0 \in 0 .. MaxStreamId
  BY MaxStreamIdAssumption DEF StreamIds
<1>3. "NO_ERROR" \in Codes /\ 0 .. MaxStreamId \subseteq Nat
  BY MaxStreamIdAssumption DEF Codes
<1>4. /\ \A id \in StreamIds, end \in BOOLEAN : Headers(id, end) \in Frame
      /\ \A id \in StreamIds, child \in StreamIds : PushPromise(id, child) \in Frame
      /\ \A id \in StreamIds, code \in Codes : Rst(id, code) \in Frame
      /\ \A id \in StreamIds : Data(id) \in Frame
      /\ SettingsAck \in Frame
      /\ \A last \in 0 .. MaxStreamId, term \in BOOLEAN : Goaway(last, term) \in Frame
  BY <1>1, <1>2, <1>3 DEF Headers, PushPromise, Rst, Data, SettingsAck, Goaway, FrameTypes
<1>5. /\ \A id, end : Headers(id, end).type = "HEADERS" /\ Headers(id, end).id = id
      /\ \A id, child : /\ PushPromise(id, child).type = "PUSH_PROMISE"
                        /\ PushPromise(id, child).id = id /\ PushPromise(id, child).arg = child
      /\ \A id, code : Rst(id, code).type = "RST_STREAM" /\ Rst(id, code).id = id
      /\ \A id : Data(id).type = "DATA" /\ Data(id).id = id
      /\ SettingsAck.type = "SETTINGS_ACK" /\ SettingsAck.id = 0
      /\ \A last, term : /\ Goaway(last, term).type = "GOAWAY" /\ Goaway(last, term).id = 0
                         /\ Goaway(last, term).arg = last
  BY DEF Headers, PushPromise, Rst, Data, SettingsAck, Goaway, F
<1>6. \A last \in 0 .. MaxStreamId : last <= MaxStreamId
  BY MaxStreamIdAssumption
<1>7. \A e : \A f \in Frame :
        \/ f.type = "GOAWAY" /\ f.id = 0 /\ f.arg <= MaxStreamId
        \/ f.type = "HEADERS" /\ f.id \in StreamIds /\ (e = "client" => IsMine(FALSE, f.id))
        \/ /\ f.type = "PUSH_PROMISE" /\ e = "server"
           /\ f.id \in StreamIds /\ f.arg \in StreamIds /\ IsMine(TRUE, f.arg)
        => f \in RegFrames(e)
  BY DEF RegFrames
<1>8. /\ \A id \in StreamIds, end \in BOOLEAN : Headers(id, end) \in RegFrames("server")
      /\ \A id \in StreamIds, end \in BOOLEAN : IsMine(FALSE, id) => Headers(id, end) \in RegFrames("client")
      /\ \A id \in StreamIds, child \in StreamIds : IsMine(TRUE, child) => PushPromise(id, child) \in RegFrames("server")
  <2>1. ASSUME NEW id \in StreamIds, NEW end \in BOOLEAN
        PROVE  /\ Headers(id, end) \in RegFrames("server")
               /\ IsMine(FALSE, id) => Headers(id, end) \in RegFrames("client")
    <3>1. Headers(id, end) \in Frame /\ Headers(id, end).type = "HEADERS" /\ Headers(id, end).id = id
      BY <1>4, <1>5
    <3> QED
      BY <1>7, <3>1
  <2>2. ASSUME NEW id \in StreamIds, NEW child \in StreamIds, IsMine(TRUE, child)
        PROVE  PushPromise(id, child) \in RegFrames("server")
    <3>1. /\ PushPromise(id, child) \in Frame /\ PushPromise(id, child).type = "PUSH_PROMISE"
          /\ PushPromise(id, child).id = id /\ PushPromise(id, child).arg = child
      BY <1>4, <1>5
    <3> QED
      BY <1>7, <2>2, <3>1
  <2> QED
    BY <2>1, <2>2
<1>9. ASSUME NEW e \in Endpoints, NEW last \in 0 .. MaxStreamId, NEW term \in BOOLEAN
      PROVE  Goaway(last, term) \in RegFrames(e)
  <2>1. /\ Goaway(last, term) \in Frame /\ Goaway(last, term).type = "GOAWAY"
        /\ Goaway(last, term).id = 0 /\ Goaway(last, term).arg = last
    BY <1>4, <1>5
  <2> QED
    BY <1>6, <1>7, <2>1
<1>10. /\ \A id \in StreamIds, code \in Codes : Rst(id, code) \in SynFrames
       /\ \A id \in StreamIds : Data(id) \in DataFrames
       /\ SettingsAck \in UrgFrames
  BY <1>4, <1>5 DEF SynFrames, DataFrames, UrgFrames
<1> QED
  BY <1>8, <1>9, <1>10

(* Every queue and wire entry is a frame of the kind its type says. *)
LEMMA FrameFacts ==
  ASSUME NEW e \in Endpoints, NEW f, f \in FramesTo(e) \cup RegFrames(e)
  PROVE  /\ f \in Frame
         /\ f.type = "HEADERS" => f.id \in StreamIds
         /\ f \in FramesTo(e) /\ f.type = "HEADERS" /\ e = "server" => IsMine(FALSE, f.id)
         /\ f \in RegFrames(e) /\ f.type = "HEADERS" /\ e = "client" => IsMine(FALSE, f.id)
         /\ f.type = "PUSH_PROMISE" => f.id \in StreamIds /\ f.arg \in StreamIds /\ IsMine(TRUE, f.arg)
         /\ f \in FramesTo(e) /\ f.type = "PUSH_PROMISE" => e = "client"
         /\ f.type \in {"DATA", "RST_STREAM"} => f.id \in StreamIds
         /\ f.type = "GOAWAY" => f.arg \in 0 .. MaxStreamId
         /\ f.end \in BOOLEAN /\ f.code \in Codes /\ f.arg \in Nat
<1>1. f \in Frame
  BY DEF FramesTo, RegFrames, UrgFrames, SynFrames, DataFrames
<1>2. f.end \in BOOLEAN /\ f.code \in Codes /\ f.arg \in Nat
  BY <1>1 DEF Frame
<1>3. f.type = "GOAWAY" => f.arg \in 0 .. MaxStreamId
  <2>1. f.type = "GOAWAY" => f.arg <= MaxStreamId
    BY DEF FramesTo, RegFrames, UrgFrames, SynFrames, DataFrames
  <2> QED
    BY <1>2, <2>1, MaxStreamIdAssumption
<1>4. /\ f.type = "HEADERS" => f.id \in StreamIds
      /\ f.type = "PUSH_PROMISE" => f.id \in StreamIds /\ f.arg \in StreamIds /\ IsMine(TRUE, f.arg)
      /\ f.type \in {"DATA", "RST_STREAM"} => f.id \in StreamIds
  BY DEF FramesTo, RegFrames, UrgFrames, SynFrames, DataFrames
<1>5. /\ f \in FramesTo(e) /\ f.type = "HEADERS" /\ e = "server" => IsMine(FALSE, f.id)
      /\ f \in FramesTo(e) /\ f.type = "PUSH_PROMISE" => e = "client"
      /\ f \in RegFrames(e) /\ f.type = "HEADERS" /\ e = "client" => IsMine(FALSE, f.id)
  BY Ends DEF FramesTo, RegFrames, UrgFrames, SynFrames, DataFrames, Peer
<1> QED
  BY <1>1, <1>2, <1>3, <1>4, <1>5

(* The queues take frames of their kind and lose their heads. *)
LEMMA QueueOps ==
  ASSUME NEW e \in Endpoints, NEW q \in Queues(e)
  PROVE  /\ \A f \in RegFrames(e) : [q EXCEPT !.reg = Append(q.reg, f)] \in Queues(e)
         /\ \A f \in SynFrames : [q EXCEPT !.syn = Append(q.syn, f)] \in Queues(e)
         /\ \A f \in UrgFrames : [q EXCEPT !.urg = Append(q.urg, f)] \in Queues(e)
         /\ q.reg # << >> => Head(q.reg) \in RegFrames(e) /\ [q EXCEPT !.reg = Tail(q.reg)] \in Queues(e)
         /\ q.syn # << >> => Head(q.syn) \in SynFrames /\ [q EXCEPT !.syn = Tail(q.syn)] \in Queues(e)
         /\ q.urg # << >> => Head(q.urg) \in UrgFrames /\ [q EXCEPT !.urg = Tail(q.urg)] \in Queues(e)
<1>1. q.reg \in Seq(RegFrames(e)) /\ q.syn \in Seq(SynFrames) /\ q.urg \in Seq(UrgFrames)
  BY DEF Queues
<1>2. /\ \A r \in Seq(RegFrames(e)) : [q EXCEPT !.reg = r] \in Queues(e)
      /\ \A r \in Seq(SynFrames) : [q EXCEPT !.syn = r] \in Queues(e)
      /\ \A r \in Seq(UrgFrames) : [q EXCEPT !.urg = r] \in Queues(e)
  BY DEF Queues
<1>3. /\ \A f \in RegFrames(e) : Append(q.reg, f) \in Seq(RegFrames(e))
      /\ \A f \in SynFrames : Append(q.syn, f) \in Seq(SynFrames)
      /\ \A f \in UrgFrames : Append(q.urg, f) \in Seq(UrgFrames)
  BY <1>1
<1>4. /\ q.reg # << >> => Head(q.reg) \in RegFrames(e) /\ Tail(q.reg) \in Seq(RegFrames(e))
      /\ q.syn # << >> => Head(q.syn) \in SynFrames /\ Tail(q.syn) \in Seq(SynFrames)
      /\ q.urg # << >> => Head(q.urg) \in UrgFrames /\ Tail(q.urg) \in Seq(UrgFrames)
  BY <1>1
<1> QED
  BY <1>2, <1>3, <1>4

(* nghttp2_session_add_rst_stream and nghttp2_session_add_goaway *)
LEMMA AddOps ==
  ASSUME NEW e \in Endpoints, NEW q \in Queues(e)
  PROVE  /\ \A t : \A id \in StreamIds, code \in Codes : AddRst(t, q, id, code) \in Queues(e)
         /\ \A c \in Conn, last \in 0 .. MaxStreamId, term \in BOOLEAN : AddGoaway(q, c, last, term) \in Queues(e)
<1>1. \A t : \A id \in StreamIds, code \in Codes : AddRst(t, q, id, code) \in Queues(e)
  BY QueueOps, FrameKinds DEF AddRst
<1>2. \A c \in Conn, last \in 0 .. MaxStreamId, term \in BOOLEAN : AddGoaway(q, c, last, term) \in Queues(e)
  <2> TAKE c \in Conn, last \in 0 .. MaxStreamId, term \in BOOLEAN
  <2>1. c.localLast \in 0 .. MaxStreamId
    BY DEF Conn
  <2>2. Goaway(IF last < c.localLast THEN last ELSE c.localLast, term) \in RegFrames(e)
    BY <2>1, FrameKinds
  <2> QED
    BY <2>2, QueueOps DEF AddGoaway
<1> QED
  BY <1>1, <1>2

(* A frame is put on the wire, or taken from it. *)
LEMMA WireOps ==
  ASSUME WiresOK, NEW e \in Endpoints
  PROVE  /\ \A f \in FramesTo(Peer(e)) : Transmit(e, f) => WiresOK'
         /\ UNCHANGED wire => WiresOK'
         /\ \A type : Arrives(e, type) => /\ WiresOK' /\ Head(wire[e]) \in FramesTo(e)
                                          /\ Head(wire[e]).type = type
<1>1. \A x \in Endpoints : \A w \in Seq(FramesTo(x)) : wire' = [wire EXCEPT ![x] = w] => WiresOK'
  <2> SUFFICES ASSUME NEW x \in Endpoints, NEW w \in Seq(FramesTo(x)), wire' = [wire EXCEPT ![x] = w]
               PROVE  WiresOK'
    OBVIOUS
  <2>1. w \in Seq(FramesTo("client")) \cup Seq(FramesTo("server"))
    BY Ends
  <2> QED
    BY <2>1 DEF WiresOK
<1>2. \A x \in Endpoints : wire[x] \in Seq(FramesTo(x))
  BY DEF WiresOK
<1>3. \A f \in FramesTo(Peer(e)) : Transmit(e, f) => WiresOK'
  <2> SUFFICES ASSUME NEW f \in FramesTo(Peer(e)), Transmit(e, f) PROVE WiresOK'
    OBVIOUS
  <2>1. Peer(e) \in Endpoints
    BY Ends
  <2>2. Append(wire[Peer(e)], f) \in Seq(FramesTo(Peer(e)))
    BY <1>2, <2>1
  <2> QED
    BY <1>1, <2>1, <2>2 DEF Transmit
<1>4. UNCHANGED wire => WiresOK'
  BY DEF WiresOK
<1>5. \A type : Arrives(e, type) => /\ WiresOK' /\ Head(wire[e]) \in FramesTo(e)
                                   /\ Head(wire[e]).type = type
  <2> SUFFICES ASSUME NEW type, Arrives(e, type)
               PROVE  WiresOK' /\ Head(wire[e]) \in FramesTo(e) /\ Head(wire[e]).type = type
    OBVIOUS
  <2>1. wire[e] # << >> /\ Head(wire[e]).type = type /\ wire' = [wire EXCEPT ![e] = Tail(wire[e])]
    BY DEF Arrives
  <2>2. Tail(wire[e]) \in Seq(FramesTo(e)) /\ Head(wire[e]) \in FramesTo(e)
    BY <1>2, <2>1
  <2> QED
    BY <1>1, <2>1, <2>2
<1> QED
  BY <1>3, <1>4, <1>5

(* What a step writes into the log of one end. *)
LEMMA LogOps ==
  ASSUME LogsOK, NEW e \in Endpoints
  PROVE  /\ UNCHANGED log => LogsOK'
         /\ \A code \in Codes : ClosedWith(e, code) \in [Endpoints -> Log]
         /\ \A code \in Codes, fin \in SUBSET StreamIds : SentLast(e, code, fin) \in [Endpoints -> Log]
<1>1. log[e] \in Log
  BY DEF LogsOK
<1>2. \A code \in Codes : ClosedWith(e, code) \in [Endpoints -> Log]
  <2> TAKE code \in Codes
  <2>1. PICK why \in [StreamIds -> Codes \cup {"open"}] :
          why = [id \in StreamIds |-> IF Live(table[e], id) /\ ~Live(table'[e], id) THEN code ELSE log[e].why[id]]
    BY <1>1 DEF Log
  <2>2. [log[e] EXCEPT !.why = why] \in Log
    BY <1>1 DEF Log
  <2>3. ClosedWith(e, code) = [log EXCEPT ![e] = [log[e] EXCEPT !.why = why]]
    BY <2>1 DEF ClosedWith
  <2> QED
    BY <2>2, <2>3 DEF LogsOK
<1>3. \A code \in Codes, fin \in SUBSET StreamIds : SentLast(e, code, fin) \in [Endpoints -> Log]
  <2> TAKE code \in Codes, fin \in SUBSET StreamIds
  <2> DEFINE L == ClosedWith(e, code)
  <2>1. L \in [Endpoints -> Log] /\ L[e] \in Log
    BY <1>2
  <2> HIDE DEF L
  <2>2. PICK ended \in SUBSET StreamIds : ended = L[e].ended \cup fin
    BY <2>1 DEF Log
  <2>3. [L[e] EXCEPT !.ended = ended] \in Log
    BY <2>1 DEF Log
  <2>4. SentLast(e, code, fin) = [L EXCEPT ![e] = [L[e] EXCEPT !.ended = ended]]
    BY <2>2 DEF SentLast, L
  <2> QED
    BY <2>1, <2>3, <2>4
<1>4. UNCHANGED log => LogsOK'
  BY DEF LogsOK
<1> QED
  BY <1>2, <1>3, <1>4

(* The assignments the handlers make to a session keep its type and only   *)
(* move its identifiers up.                                                *)
LEMMA ConnOps ==
  ASSUME NEW c \in Conn
  PROVE  /\ Later(c, c)
         /\ \A a \in Asserts : [c EXCEPT !.abort = a] \in Conn /\ Later([c EXCEPT !.abort = a], c)
         /\ \A n \in Nat : [c EXCEPT !.remoteMax = n] \in Conn /\ Later([c EXCEPT !.remoteMax = n], c)
         /\ \A n \in Nat : [c EXCEPT !.localMax = n, !.pendingMax = n] \in Conn /\ Later([c EXCEPT !.localMax = n, !.pendingMax = n], c)
         /\ \A id \in 0 .. MaxStreamId, g \in SUBSET GoawayFlags : [c EXCEPT !.goaway = g, !.remoteLast = id] \in Conn /\ Later([c EXCEPT !.goaway = g, !.remoteLast = id], c)
         /\ \A id \in 0 .. MaxStreamId, g \in SUBSET GoawayFlags : [c EXCEPT !.localLast = id, !.goaway = g] \in Conn /\ Later([c EXCEPT !.localLast = id, !.goaway = g], c)
         /\ \A g \in SUBSET GoawayFlags, why \in ConnErrors : [c EXCEPT !.goaway = g, !.err = why] \in Conn /\ Later([c EXCEPT !.goaway = g, !.err = why], c)
         /\ [c EXCEPT !.up = FALSE] \in Conn /\ Later([c EXCEPT !.up = FALSE], c)
         /\ [c EXCEPT !.nextId = c.nextId + 2] \in Conn /\ Later([c EXCEPT !.nextId = c.nextId + 2], c)
         /\ \A id \in StreamIds : c.lastSent < id => [c EXCEPT !.lastSent = id] \in Conn /\ Later([c EXCEPT !.lastSent = id], c)
         /\ \A id \in StreamIds : c.lastRecv < id => [c EXCEPT !.lastRecv = id] \in Conn /\ Later([c EXCEPT !.lastRecv = id], c)
         /\ \A id \in StreamIds : c.lastRecv < id => [c EXCEPT !.lastRecv = id, !.lastProc = id] \in Conn /\ Later([c EXCEPT !.lastRecv = id, !.lastProc = id], c)
<1>1. c.lastRecv \in Int /\ c.lastSent \in Int /\ c.nextId \in Nat
  BY DEF Conn
<1>2. Later(c, c)
  BY <1>1 DEF Later
<1>3. \A d : /\ d.lastRecv = c.lastRecv /\ d.lastSent = c.lastSent /\ d.nextId = c.nextId
            => Later(d, c)
  BY <1>2 DEF Later
<1>4. ASSUME NEW a \in Asserts
      PROVE  [c EXCEPT !.abort = a] \in Conn /\ Later([c EXCEPT !.abort = a], c)
  <2>1. [c EXCEPT !.abort = a] \in Conn
    BY DEF Conn
  <2> QED
    BY <1>3, <2>1 DEF Conn
<1>5. ASSUME NEW n \in Nat
      PROVE  [c EXCEPT !.remoteMax = n] \in Conn /\ Later([c EXCEPT !.remoteMax = n], c)
  <2>1. [c EXCEPT !.remoteMax = n] \in Conn
    BY DEF Conn
  <2> QED
    BY <1>3, <2>1 DEF Conn
<1>6. ASSUME NEW n \in Nat
      PROVE  [c EXCEPT !.localMax = n, !.pendingMax = n] \in Conn /\ Later([c EXCEPT !.localMax = n, !.pendingMax = n], c)
  <2>1. [c EXCEPT !.localMax = n, !.pendingMax = n] \in Conn
    BY DEF Conn
  <2> QED
    BY <1>3, <2>1 DEF Conn
<1>7. ASSUME NEW id \in 0 .. MaxStreamId, NEW g \in SUBSET GoawayFlags
      PROVE  [c EXCEPT !.goaway = g, !.remoteLast = id] \in Conn /\ Later([c EXCEPT !.goaway = g, !.remoteLast = id], c)
  <2>1. [c EXCEPT !.goaway = g, !.remoteLast = id] \in Conn
    BY DEF Conn
  <2> QED
    BY <1>3, <2>1 DEF Conn
<1>8. ASSUME NEW id \in 0 .. MaxStreamId, NEW g \in SUBSET GoawayFlags
      PROVE  [c EXCEPT !.localLast = id, !.goaway = g] \in Conn /\ Later([c EXCEPT !.localLast = id, !.goaway = g], c)
  <2>1. [c EXCEPT !.localLast = id, !.goaway = g] \in Conn
    BY DEF Conn
  <2> QED
    BY <1>3, <2>1 DEF Conn
<1>9. ASSUME NEW g \in SUBSET GoawayFlags, NEW why \in ConnErrors
      PROVE  [c EXCEPT !.goaway = g, !.err = why] \in Conn /\ Later([c EXCEPT !.goaway = g, !.err = why], c)
  <2>1. [c EXCEPT !.goaway = g, !.err = why] \in Conn
    BY DEF Conn
  <2> QED
    BY <1>3, <2>1 DEF Conn
<1>10. [c EXCEPT !.up = FALSE] \in Conn /\ Later([c EXCEPT !.up = FALSE], c)
  BY <1>3 DEF Conn
<1>11. [c EXCEPT !.nextId = c.nextId + 2] \in Conn /\ Later([c EXCEPT !.nextId = c.nextId + 2], c)
  <2>1. PICK n \in Nat : n = c.nextId + 2
    BY <1>1
  <2>2. [c EXCEPT !.nextId = n] \in Conn
    BY DEF Conn
  <2>3. Later([c EXCEPT !.nextId = n], c)
    BY <1>1, <2>1 DEF Conn, Later
  <2> QED
    BY <2>1, <2>2, <2>3
<1>12. \A id \in StreamIds : id \in 0 .. MaxStreamId /\ id \in Int
  BY MaxStreamIdAssumption DEF StreamIds
<1>13. ASSUME NEW id \in StreamIds, c.lastSent < id
      PROVE  [c EXCEPT !.lastSent = id] \in Conn /\ Later([c EXCEPT !.lastSent = id], c)
  <2>1. [c EXCEPT !.lastSent = id] \in Conn
    BY <1>12 DEF Conn
  <2>2. c.lastSent <= id
    BY <1>1, <1>12, <1>13
  <2> QED
    BY <1>1, <2>1, <2>2 DEF Conn, Later
<1>14. ASSUME NEW id \in StreamIds, c.lastRecv < id
      PROVE  [c EXCEPT !.lastRecv = id] \in Conn /\ Later([c EXCEPT !.lastRecv = id], c)
  <2>1. [c EXCEPT !.lastRecv = id] \in Conn
    BY <1>12 DEF Conn
  <2>2. c.lastRecv <= id
    BY <1>1, <1>12, <1>14
  <2> QED
    BY <1>1, <2>1, <2>2 DEF Conn, Later
<1>15. ASSUME NEW id \in StreamIds, c.lastRecv < id
      PROVE  [c EXCEPT !.lastRecv = id, !.lastProc = id] \in Conn /\ Later([c EXCEPT !.lastRecv = id, !.lastProc = id], c)
  <2>1. [c EXCEPT !.lastRecv = id, !.lastProc = id] \in Conn
    BY <1>12 DEF Conn
  <2>2. c.lastRecv <= id
    BY <1>1, <1>12, <1>15
  <2> QED
    BY <1>1, <2>1, <2>2 DEF Conn, Later
<1> QED
  BY <1>2, <1>4, <1>5, <1>6, <1>7, <1>8, <1>9, <1>10, <1>11, <1>13, <1>14, <1>15

(* What the invariant says of one end. *)
LEMMA Here ==
  ASSUME Inv, NEW e \in Endpoints
  PROVE  /\ Good(table[e], Srv(e)) /\ KnowsFrom(table[e], table[e], {})
         /\ queue[e] \in Queues(e) /\ conn[e] \in Conn /\ log[e] \in Log
         /\ LogsOK /\ WiresOK
         /\ UNCHANGED table => table' = [table EXCEPT ![e] = table[e]]
         /\ UNCHANGED queue => queue' = [queue EXCEPT ![e] = queue[e]]
         /\ UNCHANGED conn  => conn'  = [conn EXCEPT ![e] = conn[e]]
         /\ \A id \in StreamIds : Known(table[e], id) => Announced(e, conn[e], id)
         /\ conn["client"].nextId % 2 = 1 /\ conn["server"].nextId % 2 = 0 /\ conn["server"].nextId > 0
<1>1. TablesGood /\ QueuesOK /\ ConnsOK /\ WiresOK /\ LogsOK /\ AllKnown
  BY InvParts
<1>2. UNCHANGED table => table' = [table EXCEPT ![e] = table[e]]
  BY <1>1 DEF TablesGood
<1>3. UNCHANGED queue => queue' = [queue EXCEPT ![e] = queue[e]]
  BY <1>1 DEF QueuesOK
<1>4. UNCHANGED conn => conn' = [conn EXCEPT ![e] = conn[e]]
  BY <1>1 DEF ConnsOK
<1>5. KnowsFrom(table[e], table[e], {})
  BY DEF KnowsFrom
<1> QED
  BY <1>1, <1>2, <1>3, <1>4, <1>5 DEF TablesGood, QueuesOK, ConnsOK, LogsOK, AllKnown

(* Step for the many actions that open no stream. *)
LEMMA PlainStep ==
  ASSUME Inv, NEW e \in Endpoints, NEW t, NEW q, NEW c,
         table' = [table EXCEPT ![e] = t], Good(t, Srv(e)), KnowsFrom(t, table[e], {}),
         queue' = [queue EXCEPT ![e] = q], q \in Queues(e),
         conn' = [conn EXCEPT ![e] = c], c \in Conn, Later(c, conn[e]),
         WiresOK', LogsOK'
  PROVE  Inv'
<1> DEFINE N == {}
<1>1. KnowsFrom(t, table[e], N) /\ \A id \in StreamIds : id \in N => Announced(e, c, id)
  OBVIOUS
<1> HIDE DEF N
<1> QED
  BY <1>1, Step

-----------------------------------------------------------------------------
(* The application's calls                                                 *)

(* Opening a stream under a fresh identifier. *)
LEMMA OpenFresh ==
  ASSUME Inv, NEW e \in Endpoints, NEW id \in StreamIds, ~Announced(e, conn[e], id),
         NEW initial \in {"OPENING", "RESERVED"}, initial = "RESERVED" => IsMine(TRUE, id)
  PROVE  /\ Good(OpenStream(table[e], Srv(e), id, initial), Srv(e))
         /\ KnowsFrom(OpenStream(table[e], Srv(e), id, initial), table[e], {id})
         /\ Live(OpenStream(table[e], Srv(e), id, initial), id)
<1>1. ~Known(table[e], id) /\ Good(table[e], Srv(e)) /\ Srv(e) \in BOOLEAN
  BY Here, Ends
<1> QED
  BY <1>1, OpenStreamGood

(* Marking a stream for reset. *)
LEMMA MarkClosingGood ==
  ASSUME NEW t, NEW srv \in BOOLEAN, Good(t, srv), NEW id \in StreamIds
  PROVE  Good(MarkClosing(t, id), srv) /\ KnowsFrom(MarkClosing(t, id), t, {})
<1>1. KnowsFrom(t, t, {})
  BY DEF KnowsFrom
<1> QED
  BY <1>1, SetStateGood DEF MarkClosing

(* session_terminate_session queues a GOAWAY and records the reason. *)
LEMMA TerminateStep ==
  ASSUME Inv, NEW e \in Endpoints, NEW c \in Conn, Later(c, conn[e]), NEW why \in ConnErrors,
         Terminate(e, c, why), UNCHANGED table, WiresOK', LogsOK'
  PROVE  Inv'
<1>1. CASE "TERM_ON_SEND" \in c.goaway
  <2>1. conn' = [conn EXCEPT ![e] = c] /\ UNCHANGED queue
    BY <1>1 DEF Terminate, SetConn
  <2> QED
    BY <2>1, Here, PlainStep
<1>2. CASE "TERM_ON_SEND" \notin c.goaway
  <2>1. /\ conn' = [conn EXCEPT ![e] = [c EXCEPT !.goaway = c.goaway \cup {"TERM_ON_SEND"}, !.err = why]]
        /\ queue' = [queue EXCEPT ![e] = AddGoaway(queue[e], c, c.lastProc, TRUE)]
    BY <1>2 DEF Terminate, SetConn
  <2>2. c.goaway \cup {"TERM_ON_SEND"} \in SUBSET GoawayFlags /\ c.lastProc \in 0 .. MaxStreamId
    BY DEF Conn, GoawayFlags
  <2>3. PICK d \in Conn : d = [c EXCEPT !.goaway = c.goaway \cup {"TERM_ON_SEND"}, !.err = why] /\ Later(d, c)
    BY <2>2, ConnOps
  <2>4. Later(d, conn[e])
    <3>1. d.lastRecv = c.lastRecv /\ d.lastSent = c.lastSent /\ d.nextId = c.nextId
      BY <2>3 DEF Conn
    <3> QED
      BY <3>1 DEF Later
  <2>5. AddGoaway(queue[e], c, c.lastProc, TRUE) \in Queues(e)
    BY <2>2, AddOps, Here
  <2> QED
    BY <2>1, <2>3, <2>4, <2>5, Here, PlainStep
<1> QED
  BY <1>1, <1>2

LEMMA SubmitRequestStep == ASSUME Inv, SubmitRequest PROVE Inv'
<1> DEFINE e == "client"
           c == conn[e]
<1>0. e \in Endpoints
  BY Ends
<1>1. /\ c.nextId <= 2 * Requests - 1 /\ UNCHANGED <<table, wire, log>>
      /\ conn' = [conn EXCEPT ![e] = [c EXCEPT !.nextId = c.nextId + 2]]
      /\ queue' = [queue EXCEPT ![e] = [queue[e] EXCEPT !.reg = Append(queue[e].reg, Headers(c.nextId, TRUE))]]
  BY DEF SubmitRequest, SetConn, LastId
<1>2. c.nextId \in StreamIds /\ IsMine(FALSE, c.nextId)
  <2>1. c.nextId \in Nat /\ c.nextId % 2 = 1
    BY <1>0, Here DEF Conn
  <2> QED
    BY <1>1, <2>1, SessionAssumption, MaxStreamIdAssumption DEF StreamIds, IsMine
<1>3. [queue[e] EXCEPT !.reg = Append(queue[e].reg, Headers(c.nextId, TRUE))] \in Queues(e)
  BY <1>0, <1>2, FrameKinds, QueueOps, Here
<1>4. [c EXCEPT !.nextId = c.nextId + 2] \in Conn /\ Later([c EXCEPT !.nextId = c.nextId + 2], c)
  BY <1>0, ConnOps, Here
<1>5. WiresOK' /\ LogsOK'
  BY <1>0, <1>1, WireOps, LogOps, Here
<1> HIDE DEF e
<1> QED
  BY <1>0, <1>1, <1>3, <1>4, <1>5, Here, PlainStep

LEMMA SubmitPushStep ==
  ASSUME Inv, NEW parent \in StreamIds, SubmitPush(parent) PROVE Inv'
<1> DEFINE e == "server"
           c == conn[e]
           u == OpenStream(table[e], TRUE, c.nextId, "RESERVED")
<1>0. e \in Endpoints /\ Srv(e) = TRUE
  BY Ends
<1>1. /\ c.nextId <= 2 * Pushes /\ UNCHANGED <<wire, log>>
      /\ conn' = [conn EXCEPT ![e] = [c EXCEPT !.nextId = c.nextId + 2]]
      /\ table' = [table EXCEPT ![e] = u]
      /\ queue' = [queue EXCEPT ![e] = [queue[e] EXCEPT !.reg = Append(queue[e].reg, PushPromise(parent, c.nextId))]]
  BY DEF SubmitPush, SetConn, SetTable, LastId
<1>2. c.nextId \in StreamIds /\ IsMine(TRUE, c.nextId) /\ ~Announced(e, c, c.nextId)
  <2>1. c.nextId \in Nat /\ c.nextId % 2 = 0 /\ c.nextId > 0
    BY <1>0, Here DEF Conn
  <2> QED
    BY <1>0, <1>1, <2>1, SessionAssumption, MaxStreamIdAssumption DEF StreamIds, IsMine, Announced
<1>3. [queue[e] EXCEPT !.reg = Append(queue[e].reg, PushPromise(parent, c.nextId))] \in Queues(e)
  BY <1>0, <1>2, FrameKinds, QueueOps, Here
<1>4. PICK d \in Conn : d = [c EXCEPT !.nextId = c.nextId + 2] /\ Later(d, c)
  BY <1>0, ConnOps, Here
<1>5. WiresOK' /\ LogsOK'
  BY <1>0, <1>1, WireOps, LogOps, Here
<1>6. Good(u, Srv(e)) /\ KnowsFrom(u, table[e], {c.nextId})
  BY <1>0, <1>2, OpenFresh
<1>7. Announced(e, d, c.nextId)
  <2>1. c.nextId \in Int /\ d.nextId = c.nextId + 2
    BY <1>0, <1>4, Here DEF Conn
  <2>2. c.nextId < d.nextId
    BY <2>1
  <2> QED
    BY <1>0, <1>2, <2>2, Ends DEF Announced
<1> DEFINE N == {c.nextId}
<1>8. KnowsFrom(u, table[e], N) /\ \A id \in StreamIds : id \in N => Announced(e, d, id)
  BY <1>6, <1>7
<1>9. conn' = [conn EXCEPT ![e] = d] /\ Later(d, conn[e])
  BY <1>1, <1>4
<1> HIDE DEF e, c, u, N
<1> QED
  BY <1>0, <1>1, <1>3, <1>4, <1>5, <1>6, <1>8, <1>9, Step

LEMMA SubmitResponseStep ==
  ASSUME Inv, NEW id \in StreamIds, NEW end \in BOOLEAN, SubmitResponse(id, end) PROVE Inv'
<1> DEFINE e == "server"
<1>0. e \in Endpoints
  BY Ends
<1>1. /\ UNCHANGED <<table, conn, wire>>
      /\ queue' = [queue EXCEPT ![e] = [queue[e] EXCEPT !.reg = Append(queue[e].reg, Headers(id, end))]]
      /\ log' = [log EXCEPT ![e] = [log[e] EXCEPT !.responded = log[e].responded \cup {id}]]
  BY DEF SubmitResponse
<1>2. [queue[e] EXCEPT !.reg = Append(queue[e].reg, Headers(id, end))] \in Queues(e)
  BY <1>0, FrameKinds, QueueOps, Here
<1>3. LogsOK'
  <2>1. [log[e] EXCEPT !.responded = log[e].responded \cup {id}] \in Log
    BY <1>0, Here DEF Log
  <2> QED
    BY <1>0, <1>1, <2>1, Here DEF LogsOK
<1>4. WiresOK'
  BY <1>0, <1>1, WireOps, Here
<1> HIDE DEF e
<1>5. conn[e] \in Conn /\ Later(conn[e], conn[e])
  BY <1>0, Here, ConnOps
<1> QED
  BY <1>0, <1>1, <1>2, <1>3, <1>4, <1>5, Here, PlainStep

LEMMA SubmitRstStep ==
  ASSUME Inv, NEW e \in Endpoints, NEW id \in StreamIds, SubmitRst(e, id) PROVE Inv'
<1>1. WiresOK'
  BY WireOps, Here DEF SubmitRst
<1>2. LogsOK'
  <2>1. log' = [log EXCEPT ![e] = [log[e] EXCEPT !.resets = log[e].resets + 1]]
    BY DEF SubmitRst
  <2>2. log[e] \in Log /\ log[e].resets \in Nat
    BY Here DEF Log
  <2>3. PICK n \in Nat : n = log[e].resets + 1
    BY <2>2
  <2>4. [log[e] EXCEPT !.resets = n] \in Log
    BY <2>2 DEF Log
  <2> QED
    BY <2>1, <2>3, <2>4, Here DEF LogsOK
<1>3. CASE conn' = [conn EXCEPT ![e] = [conn[e] EXCEPT !.abort = "ob_syn holds HEADERS"]] /\ UNCHANGED <<table, queue>>
  <2>1. "ob_syn holds HEADERS" \in Asserts
    BY DEF Asserts
  <2>2. PICK d \in Conn : d = [conn[e] EXCEPT !.abort = "ob_syn holds HEADERS"] /\ Later(d, conn[e])
    BY <2>1, ConnOps, Here
  <2> QED
    BY <1>1, <1>2, <1>3, <2>2, Here, PlainStep
<1>4. CASE /\ table' = [table EXCEPT ![e] = MarkClosing(table[e], id)]
           /\ queue' = [queue EXCEPT ![e] = AddRst(table[e], queue[e], id, "CANCEL")]
           /\ UNCHANGED conn
  <2>1. Good(MarkClosing(table[e], id), Srv(e)) /\ KnowsFrom(MarkClosing(table[e], id), table[e], {})
    BY MarkClosingGood, Here, Ends
  <2>2. AddRst(table[e], queue[e], id, "CANCEL") \in Queues(e)
    <3>1. "CANCEL" \in Codes
      BY DEF Codes
    <3> QED
      BY <3>1, AddOps, Here
  <2>3. conn[e] \in Conn /\ Later(conn[e], conn[e])
    BY Here, ConnOps
  <2> QED
    BY <1>1, <1>2, <1>4, <2>1, <2>2, <2>3, Here, PlainStep
<1> QED
  BY <1>3, <1>4 DEF SubmitRst, SetConn, SetTable

LEMMA SubmitTerminateStep ==
  ASSUME Inv, NEW e \in Endpoints, SubmitTerminate(e) PROVE Inv'
<1>1. WiresOK' /\ UNCHANGED table /\ Terminate(e, conn[e], conn[e].err)
  BY WireOps, Here DEF SubmitTerminate
<1>2. LogsOK'
  <2>1. log' = [log EXCEPT ![e] = [log[e] EXCEPT !.closing = TRUE]]
    BY DEF SubmitTerminate
  <2>2. [log[e] EXCEPT !.closing = TRUE] \in Log
    BY Here DEF Log
  <2> QED
    BY <2>1, <2>2, Here DEF LogsOK
<1>3. conn[e] \in Conn /\ Later(conn[e], conn[e]) /\ conn[e].err \in ConnErrors
  BY Here, ConnOps DEF Conn
<1> QED
  BY <1>1, <1>2, <1>3, TerminateStep

LEMMA SubmitGoawayStep ==
  ASSUME Inv, NEW e \in Endpoints, SubmitGoaway(e) PROVE Inv'
<1>1. /\ UNCHANGED <<table, conn, wire>>
      /\ queue' = [queue EXCEPT ![e] = AddGoaway(queue[e], conn[e], conn[e].lastProc, FALSE)]
      /\ log' = [log EXCEPT ![e] = [log[e] EXCEPT !.closing = TRUE]]
  BY DEF SubmitGoaway
<1>2. conn[e] \in Conn /\ Later(conn[e], conn[e]) /\ conn[e].lastProc \in 0 .. MaxStreamId
  BY Here, ConnOps DEF Conn
<1>3. AddGoaway(queue[e], conn[e], conn[e].lastProc, FALSE) \in Queues(e)
  BY <1>2, AddOps, Here
<1>4. WiresOK' /\ LogsOK'
  <2>1. [log[e] EXCEPT !.closing = TRUE] \in Log
    BY Here DEF Log
  <2> QED
    BY <1>1, <2>1, WireOps, Here DEF LogsOK
<1> QED
  BY <1>1, <1>2, <1>3, <1>4, Here, PlainStep

-----------------------------------------------------------------------------
(* Sending                                                                 *)

(* What is taken from a queue is a frame of its kind, and may be sent.     *)
LEMMA TakeOps ==
  ASSUME Inv, NEW e \in Endpoints
  PROVE  /\ UrgReady(e) => /\ Head(queue[e].urg) \in FramesTo(Peer(e)) /\ AfterUrg(e) \in Queues(e)
         /\ RegReady(e) => /\ NextReg(e) \in RegFrames(e) /\ NextReg(e) \in FramesTo(Peer(e))
                          /\ AfterReg(e) \in Queues(e)
         /\ SynReady(e) => /\ Head(queue[e].syn) \in SynFrames /\ Head(queue[e].syn) \in FramesTo(Peer(e))
                          /\ AfterSyn(e) \in Queues(e)
         /\ \A id \in StreamIds : Data(id) \in FramesTo(Peer(e))
<1>1. Peer(Peer(e)) = e
  BY Ends
<1>2. /\ UrgFrames \subseteq FramesTo(Peer(e)) /\ RegFrames(e) \subseteq FramesTo(Peer(e))
      /\ SynFrames \subseteq FramesTo(Peer(e)) /\ DataFrames \subseteq FramesTo(Peer(e))
  BY <1>1 DEF FramesTo
<1>3. queue[e] \in Queues(e)
  BY Here
<1> QED
  BY <1>2, <1>3, QueueOps, FrameKinds
     DEF UrgReady, RegReady, SynReady, AfterUrg, AfterReg, AfterSyn, NextReg

LEMMA SendSettingsStep == ASSUME Inv, NEW e \in Endpoints, SendSettings(e) PROVE Inv'
<1>1. /\ queue' = [queue EXCEPT ![e] = AfterUrg(e)] /\ AfterUrg(e) \in Queues(e)
      /\ UNCHANGED <<table, conn, log>>
  BY TakeOps DEF SendSettings, SetQueue
<1>2. WiresOK' /\ LogsOK'
  BY TakeOps, WireOps, LogOps, Here DEF SendSettings
<1>3. conn[e] \in Conn /\ Later(conn[e], conn[e])
  BY Here, ConnOps
<1> QED
  BY <1>1, <1>2, <1>3, Here, PlainStep

LEMMA SendRequestStep == ASSUME Inv, SendRequest PROVE Inv'
<1> DEFINE e == "client"
           f == NextReg(e)
           c == conn[e]
<1>0. e \in Endpoints /\ Srv(e) = FALSE
  BY Ends
<1>1. /\ queue' = [queue EXCEPT ![e] = AfterReg(e)] /\ AfterReg(e) \in Queues(e)
      /\ f \in FramesTo(Peer(e)) /\ f.id \in StreamIds /\ IsMine(FALSE, f.id)
  <2>1. RegReady(e) /\ f.type = "HEADERS" /\ SetQueue(e, AfterReg(e))
    BY DEF SendRequest
  <2>2. f \in RegFrames(e) /\ f \in FramesTo(Peer(e)) /\ AfterReg(e) \in Queues(e)
    BY <1>0, <2>1, TakeOps
  <2> HIDE DEF e, f
  <2>3. f.id \in StreamIds /\ IsMine(FALSE, f.id)
    BY <1>0, <2>1, <2>2, FrameFacts DEF e
  <2> QED
    BY <2>1, <2>2, <2>3 DEF SetQueue
<1>2. c \in Conn /\ Later(c, c) /\ LogsOK
  BY <1>0, Here, ConnOps
<1>3. CASE /\ log' = [log EXCEPT ![e] = [log[e] EXCEPT !.why = [log[e].why EXCEPT ![f.id] = "REFUSED_STREAM"]]]
           /\ UNCHANGED <<table, conn, wire>>
  <2>1. PICK why \in [StreamIds -> Codes \cup {"open"}] : why = [log[e].why EXCEPT ![f.id] = "REFUSED_STREAM"]
    BY <1>0, <1>1, Here DEF Log, Codes
  <2>2. [log[e] EXCEPT !.why = why] \in Log
    BY <1>0, Here DEF Log
  <2>3. LogsOK'
    BY <1>2, <1>3, <2>1, <2>2 DEF LogsOK
  <2>4. WiresOK'
    BY <1>0, <1>3, WireOps, Here
  <2> HIDE DEF e, f
  <2> QED
    BY <1>0, <1>1, <1>2, <1>3, <2>3, <2>4, Here, PlainStep
<1>4. CASE /\ conn' = [conn EXCEPT ![e] = [c EXCEPT !.abort = "stream ids increase"]]
           /\ UNCHANGED <<table, wire, log>>
  <2>1. "stream ids increase" \in Asserts
    BY DEF Asserts
  <2>2. PICK d \in Conn : d = [c EXCEPT !.abort = "stream ids increase"] /\ Later(d, c)
    BY <1>2, <2>1, ConnOps
  <2>3. WiresOK' /\ LogsOK'
    BY <1>0, <1>4, WireOps, LogOps, Here
  <2> HIDE DEF e, f
  <2> QED
    BY <1>0, <1>1, <1>4, <2>2, <2>3, Here, PlainStep
<1> DEFINE o == OpenStream(table[e], FALSE, f.id, "OPENING")
           u == ShutWr(o, f.id)
<1>5. CASE /\ c.lastSent < f.id
           /\ table' = [table EXCEPT ![e] = u]
           /\ conn' = [conn EXCEPT ![e] = [c EXCEPT !.lastSent = f.id]]
           /\ Transmit(e, f)
           /\ log' = SentLast(e, "NO_ERROR", {f.id})
  <2>1. PICK d \in Conn : d = [c EXCEPT !.lastSent = f.id] /\ Later(d, c)
    BY <1>1, <1>2, <1>5, ConnOps
  <2>2. ~Announced(e, c, f.id)
    <3>1. c.lastSent \in Int /\ f.id \in Int
      BY <1>1, <1>2 DEF Conn, StreamIds
    <3>2. ~(f.id <= c.lastSent)
      BY <1>5, <3>1
    <3> QED
      BY <1>0, <1>1, <3>2, Ends DEF Announced
  <2>3. Good(o, Srv(e)) /\ KnowsFrom(o, table[e], {f.id})
    BY <1>0, <1>1, <2>2, OpenFresh
  <2> DEFINE N == {f.id}
  <2>4. Good(u, Srv(e)) /\ KnowsFrom(u, table[e], N)
    <3>1. Good(u, Srv(e)) /\ KnowsFrom(u, o, {})
      BY <1>0, <1>1, <2>3, FlagsGood
    <3>2. KnowsFrom(o, table[e], N)
      BY <2>3
    <3> HIDE DEF N, u, o, e
    <3> QED
      BY <3>1, <3>2, KnowsTwice
  <2>5. Announced(e, d, f.id)
    <3>1. d.lastSent = f.id /\ f.id \in Int
      BY <1>1, <1>2, <2>1 DEF Conn, StreamIds
    <3>2. f.id <= d.lastSent
      BY <3>1
    <3> QED
      BY <1>0, <1>1, <3>2, Ends DEF Announced
  <2>6. WiresOK' /\ LogsOK'
    <3>1. "NO_ERROR" \in Codes /\ {f.id} \in SUBSET StreamIds
      BY <1>1 DEF Codes
    <3>2. log' \in [Endpoints -> Log]
      BY <1>0, <1>2, <1>5, <3>1, LogOps
    <3> QED
      BY <1>0, <1>1, <1>5, <3>2, WireOps, Here DEF LogsOK
  <2>7. KnowsFrom(u, table[e], N) /\ \A id \in StreamIds : id \in N => Announced(e, d, id)
    BY <2>4, <2>5
  <2>8. conn' = [conn EXCEPT ![e] = d] /\ Later(d, conn[e])
    BY <1>5, <2>1
  <2>9. table' = [table EXCEPT ![e] = u]
    BY <1>5
  <2> HIDE DEF e, f, o, u, N
  <2> QED
    BY <1>0, <1>1, <2>1, <2>4, <2>6, <2>7, <2>8, <2>9, Step
<1>6. \/ /\ log' = [log EXCEPT ![e] = [log[e] EXCEPT !.why = [log[e].why EXCEPT ![f.id] = "REFUSED_STREAM"]]]
         /\ UNCHANGED <<table, conn, wire>>
      \/ /\ conn' = [conn EXCEPT ![e] = [c EXCEPT !.abort = "stream ids increase"]]
         /\ UNCHANGED <<table, wire, log>>
      \/ /\ ~(c.lastSent >= f.id)
         /\ table' = [table EXCEPT ![e] = u]
         /\ conn' = [conn EXCEPT ![e] = [c EXCEPT !.lastSent = f.id]]
         /\ Transmit(e, f)
         /\ log' = SentLast(e, "NO_ERROR", {f.id})
  BY DEF SendRequest, SetConn, SetTable
<1>7. ~(c.lastSent >= f.id) => c.lastSent < f.id
  <2>1. c.lastSent \in Int /\ f.id \in Int
    BY <1>1, <1>2 DEF Conn, StreamIds
  <2> QED
    BY <2>1
<1> QED
  BY <1>3, <1>4, <1>5, <1>6, <1>7

LEMMA SendResponseStep == ASSUME Inv, SendResponse PROVE Inv'
<1> DEFINE e == "server"
           f == NextReg(e)
           t == table[e]
<1>0. e \in Endpoints /\ Srv(e) = TRUE
  BY Ends
<1>1. /\ AfterReg(e) \in Queues(e) /\ f \in FramesTo(Peer(e)) /\ f.id \in StreamIds /\ f.end \in BOOLEAN
  <2>1. RegReady(e) /\ f.type = "HEADERS"
    BY DEF SendResponse
  <2>2. f \in RegFrames(e) /\ f \in FramesTo(Peer(e)) /\ AfterReg(e) \in Queues(e)
    BY <1>0, <2>1, TakeOps
  <2> HIDE DEF e, f
  <2> QED
    BY <1>0, <2>1, <2>2, FrameFacts
<1>2. Good(t, TRUE) /\ conn[e] \in Conn /\ Later(conn[e], conn[e]) /\ LogsOK
      /\ conn' = [conn EXCEPT ![e] = conn[e]]
  BY <1>0, Here, ConnOps DEF SendResponse
<1>3. CASE /\ MayRespond(t, AfterReg(e), conn[e], f.id)
           /\ table' = [table EXCEPT ![e] = ResponseSent(t, f.id, f.end)]
           /\ queue' = [queue EXCEPT ![e] = AfterReg(e)]
           /\ Transmit(e, f)
           /\ log' = SentLast(e, "NO_ERROR", IF f.end THEN {f.id} ELSE {})
  <2> DEFINE o == IF t.st[f.id] = "RESERVED" THEN PushResponseSent(t, f.id) ELSE SetState(t, f.id, "OPENED")
             u == ResponseSent(t, f.id, f.end)
  <2>1. Good(o, TRUE) /\ KnowsFrom(o, t, {})
    <3>1. CASE t.st[f.id] = "RESERVED"
      BY <1>1, <1>2, <3>1, PushResponseSentGood
    <3>2. CASE t.st[f.id] # "RESERVED"
      <4>1. t.st[f.id] = "OPENING"
        BY <1>3, <3>2 DEF MayRespond
      <4>2. Live(t, f.id) /\ f.id \notin t.push
        BY <1>2, <4>1 DEF Live, Good, TableShape
      <4> QED
        BY <1>1, <1>2, <3>2, <4>2, SetStateGood
    <3> QED
      BY <3>1, <3>2
  <2>2. Good(u, TRUE) /\ KnowsFrom(u, t, {})
    <3>1. u = IF f.end THEN CloseIfShut(ShutWr(o, f.id), TRUE, f.id) ELSE Attach(o, f.id)
      BY DEF ResponseSent
    <3> HIDE DEF o, u
    <3>2. Good(u, TRUE) /\ KnowsFrom(u, o, {})
      BY <1>1, <2>1, <3>1, ShutThenClose, FlagsGood
    <3> QED
      BY <2>1, <3>2, KnowsTwice
  <2>3. WiresOK' /\ LogsOK'
    <3>1. "NO_ERROR" \in Codes /\ (IF f.end THEN {f.id} ELSE {}) \in SUBSET StreamIds
      BY <1>1 DEF Codes
    <3>2. log' \in [Endpoints -> Log]
      BY <1>0, <1>2, <1>3, <3>1, LogOps
    <3> QED
      BY <1>0, <1>1, <1>3, <3>2, WireOps, Here DEF LogsOK
  <2>4. table' = [table EXCEPT ![e] = u] /\ KnowsFrom(u, table[e], {})
    BY <1>3, <2>2
  <2> HIDE DEF e, f, u, t
  <2> QED
    BY <1>0, <1>1, <1>2, <1>3, <2>2, <2>3, <2>4, PlainStep
<1>4. CASE /\ table' = [table EXCEPT ![e] = MarkClosing(t, f.id)]
           /\ queue' = [queue EXCEPT ![e] = AddRst(t, AfterReg(e), f.id, "INTERNAL_ERROR")]
           /\ UNCHANGED <<wire, log>>
  <2>1. Good(MarkClosing(t, f.id), TRUE) /\ KnowsFrom(MarkClosing(t, f.id), table[e], {})
    BY <1>1, <1>2, MarkClosingGood
  <2>2. AddRst(t, AfterReg(e), f.id, "INTERNAL_ERROR") \in Queues(e)
    <3>1. "INTERNAL_ERROR" \in Codes
      BY DEF Codes
    <3> QED
      BY <1>0, <1>1, <3>1, AddOps
  <2>3. WiresOK' /\ LogsOK'
    BY <1>0, <1>4, WireOps, LogOps, Here
  <2> HIDE DEF e, f, t
  <2> QED
    BY <1>0, <1>2, <1>4, <2>1, <2>2, <2>3, PlainStep
<1> QED
  BY <1>3, <1>4 DEF SendResponse, SetTable, SetQueue

LEMMA SendPromiseStep == ASSUME Inv, SendPromise PROVE Inv'
<1> DEFINE e == "server"
           f == NextReg(e)
           c == conn[e]
<1>0. e \in Endpoints /\ Srv(e) = TRUE
  BY Ends
<1>1. /\ queue' = [queue EXCEPT ![e] = AfterReg(e)] /\ AfterReg(e) \in Queues(e)
      /\ f \in FramesTo(Peer(e)) /\ f.arg \in StreamIds
  <2>1. RegReady(e) /\ f.type = "PUSH_PROMISE" /\ SetQueue(e, AfterReg(e))
    BY DEF SendPromise
  <2>2. f \in RegFrames(e) /\ f \in FramesTo(Peer(e)) /\ AfterReg(e) \in Queues(e)
    BY <1>0, <2>1, TakeOps
  <2> HIDE DEF e, f
  <2>3. f.arg \in StreamIds
    BY <1>0, <2>1, <2>2, FrameFacts
  <2> QED
    BY <2>1, <2>2, <2>3 DEF SetQueue
<1>2. c \in Conn /\ Later(c, c) /\ LogsOK /\ Good(table[e], TRUE)
  BY <1>0, Here, ConnOps
<1>3. CASE /\ table' = [table EXCEPT ![e] = CloseStream(table[e], TRUE, f.arg)]
           /\ log' = ClosedWith(e, "INTERNAL_ERROR")
           /\ UNCHANGED <<conn, wire>>
  <2>1. Good(CloseStream(table[e], TRUE, f.arg), TRUE) /\ KnowsFrom(CloseStream(table[e], TRUE, f.arg), table[e], {})
    BY <1>1, <1>2, CloseStreamGood
  <2>2. WiresOK' /\ LogsOK'
    <3>1. "INTERNAL_ERROR" \in Codes
      BY DEF Codes
    <3>2. log' \in [Endpoints -> Log]
      BY <1>0, <1>2, <1>3, <3>1, LogOps
    <3> QED
      BY <1>0, <1>3, <3>2, WireOps, Here DEF LogsOK
  <2> HIDE DEF e, f
  <2> QED
    BY <1>0, <1>1, <1>2, <1>3, <2>1, <2>2, Here, PlainStep
<1>4. CASE /\ conn' = [conn EXCEPT ![e] = [c EXCEPT !.abort = "stream ids increase"]]
           /\ UNCHANGED <<table, wire, log>>
  <2>1. "stream ids increase" \in Asserts
    BY DEF Asserts
  <2>2. PICK d \in Conn : d = [c EXCEPT !.abort = "stream ids increase"] /\ Later(d, c)
    BY <1>2, <2>1, ConnOps
  <2>3. WiresOK' /\ LogsOK'
    BY <1>0, <1>4, WireOps, LogOps, Here
  <2> HIDE DEF e, f
  <2> QED
    BY <1>0, <1>1, <1>4, <2>2, <2>3, Here, PlainStep
<1>5. CASE /\ ~(c.lastSent + 2 > f.arg)
           /\ conn' = [conn EXCEPT ![e] = [c EXCEPT !.lastSent = f.arg]]
           /\ Transmit(e, f) /\ UNCHANGED <<table, log>>
  <2>1. c.lastSent < f.arg
    <3>1. c.lastSent \in Int /\ f.arg \in Int
      BY <1>1, <1>2 DEF Conn, StreamIds
    <3> QED
      BY <1>5, <3>1
  <2>2. PICK d \in Conn : d = [c EXCEPT !.lastSent = f.arg] /\ Later(d, c)
    BY <1>1, <1>2, <2>1, ConnOps
  <2>3. WiresOK' /\ LogsOK'
    BY <1>0, <1>1, <1>5, WireOps, LogOps, Here
  <2> HIDE DEF e, f
  <2> QED
    BY <1>0, <1>1, <1>5, <2>2, <2>3, Here, PlainStep
<1> QED
  BY <1>3, <1>4, <1>5 DEF SendPromise, SetConn, SetTable

(* session_close_stream_on_goaway *)
LEMMA CloseOnGoawayGood ==
  ASSUME Inv, NEW e \in Endpoints, NEW last, NEW mine
  PROVE  Good(CloseOnGoaway(e, last, mine), Srv(e)) /\ KnowsFrom(CloseOnGoaway(e, last, mine), table[e], {})
<1> DEFINE S == {id \in LiveStreams(table[e]) : IsMine(Srv(e), id) = mine /\ id > last}
<1>1. S \in SUBSET LiveStreams(table[e])
  OBVIOUS
<1>2. Good(table[e], Srv(e)) /\ Srv(e) \in BOOLEAN
  BY Here, Ends
<1> HIDE DEF S
<1>3. Good(CloseStreams(table[e], Srv(e), S), Srv(e)) /\ KnowsFrom(CloseStreams(table[e], Srv(e), S), table[e], {})
  BY <1>1, <1>2, CloseStreamsGood
<1> QED
  BY <1>3 DEF CloseOnGoaway, S

LEMMA SendGoawayStep == ASSUME Inv, NEW e \in Endpoints, SendGoaway(e) PROVE Inv'
<1> DEFINE f == NextReg(e)
           g == conn[e].goaway \cup {"SENT"} \cup (IF f.end THEN {"TERM_SENT"} ELSE {})
           code == IF Srv(e) THEN "REFUSED_STREAM" ELSE "CANCEL"
<1>1. /\ RegReady(e) /\ f.type = "GOAWAY"
      /\ queue' = [queue EXCEPT ![e] = AfterReg(e)]
      /\ conn' = [conn EXCEPT ![e] = [conn[e] EXCEPT !.localLast = f.arg, !.goaway = g]]
      /\ table' = [table EXCEPT ![e] = CloseOnGoaway(e, f.arg, FALSE)]
      /\ log' = ClosedWith(e, code)
      /\ Transmit(e, f)
  BY DEF SendGoaway, SetQueue, SetConn, SetTable
<1>2. AfterReg(e) \in Queues(e) /\ f \in RegFrames(e) /\ f \in FramesTo(Peer(e))
  BY <1>1, TakeOps
<1> HIDE DEF f
<1>3. f.arg \in 0 .. MaxStreamId
  BY <1>1, <1>2, FrameFacts
<1>4. g \in SUBSET GoawayFlags
  BY Here DEF Conn, GoawayFlags
<1> HIDE DEF g
<1>5. PICK d \in Conn : d = [conn[e] EXCEPT !.localLast = f.arg, !.goaway = g] /\ Later(d, conn[e])
  BY <1>3, <1>4, ConnOps, Here
<1>6. WiresOK' /\ LogsOK'
  <2>1. code \in Codes
    BY DEF Codes
  <2>2. log' \in [Endpoints -> Log]
    BY <1>1, <2>1, LogOps, Here
  <2> QED
    BY <1>1, <1>2, <2>2, WireOps, Here DEF LogsOK
<1>7. Good(CloseOnGoaway(e, f.arg, FALSE), Srv(e)) /\ KnowsFrom(CloseOnGoaway(e, f.arg, FALSE), table[e], {})
  BY CloseOnGoawayGood
<1> HIDE DEF code
<1> QED
  BY <1>1, <1>2, <1>5, <1>6, <1>7, PlainStep

LEMMA SendRstStep == ASSUME Inv, NEW e \in Endpoints, SendRst(e) PROVE Inv'
<1> DEFINE f == Head(queue[e].syn)
<1>1. /\ SynReady(e) /\ queue' = [queue EXCEPT ![e] = AfterSyn(e)] /\ UNCHANGED conn
  BY DEF SendRst, SetQueue
<1>2. AfterSyn(e) \in Queues(e) /\ f \in SynFrames /\ f \in FramesTo(Peer(e))
  BY <1>1, TakeOps
<1>3. f.id \in StreamIds /\ f.code \in Codes
  BY <1>2 DEF SynFrames, Frame
<1>4. Good(table[e], Srv(e)) /\ Srv(e) \in BOOLEAN /\ conn[e] \in Conn /\ Later(conn[e], conn[e])
  BY Here, Ends, ConnOps
<1>5. CASE UNCHANGED <<table, wire, log>>
  <2>1. WiresOK' /\ LogsOK'
    BY <1>5, WireOps, LogOps, Here
  <2> QED
    BY <1>1, <1>2, <1>4, <1>5, <2>1, Here, PlainStep
<1>6. CASE /\ table' = [table EXCEPT ![e] = CloseStream(table[e], Srv(e), f.id)]
           /\ Transmit(e, f)
           /\ log' = SentLast(e, f.code, {f.id})
  <2>1. WiresOK' /\ LogsOK'
    <3>1. {f.id} \in SUBSET StreamIds
      BY <1>3
    <3>2. log' \in [Endpoints -> Log]
      BY <1>3, <1>6, <3>1, LogOps, Here
    <3> QED
      BY <1>2, <1>6, <3>2, WireOps, Here DEF LogsOK
  <2>2. Good(CloseStream(table[e], Srv(e), f.id), Srv(e)) /\ KnowsFrom(CloseStream(table[e], Srv(e), f.id), table[e], {})
    BY <1>3, <1>4, CloseStreamGood
  <2> HIDE DEF f
  <2> QED
    BY <1>1, <1>2, <1>4, <1>6, <2>1, <2>2, Here, PlainStep
<1> QED
  BY <1>5, <1>6 DEF SendRst, SetTable

LEMMA SendDataStep ==
  ASSUME Inv, NEW e \in Endpoints, NEW id \in StreamIds, SendData(e, id) PROVE Inv'
<1> DEFINE d == Detach(table[e], id)
           u == CloseIfShut(ShutWr(d, id), Srv(e), id)
<1>1. Good(table[e], Srv(e)) /\ Srv(e) \in BOOLEAN /\ conn[e] \in Conn /\ Later(conn[e], conn[e])
      /\ queue[e] \in Queues(e)
  BY Here, Ends, ConnOps
<1>2. Good(d, Srv(e)) /\ KnowsFrom(d, table[e], {})
  BY <1>1, FlagsGood
<1>3. Good(u, Srv(e)) /\ KnowsFrom(u, table[e], {})
  <2> HIDE DEF d
  <2>1. Good(u, Srv(e)) /\ KnowsFrom(u, d, {})
    BY <1>1, <1>2, ShutThenClose
  <2> QED
    BY <1>2, <2>1, KnowsTwice
<1>4. UNCHANGED <<queue, conn>>
  BY DEF SendData
<1>5. CASE /\ table' = [table EXCEPT ![e] = u] /\ Transmit(e, Data(id))
           /\ log' = SentLast(e, "NO_ERROR", {id})
  <2>1. WiresOK' /\ LogsOK'
    <3>1. {id} \in SUBSET StreamIds /\ "NO_ERROR" \in Codes
      BY DEF Codes
    <3>2. log' \in [Endpoints -> Log]
      BY <1>5, <3>1, LogOps, Here
    <3> QED
      BY <1>5, <3>2, TakeOps, WireOps, Here DEF LogsOK
  <2> HIDE DEF d, u
  <2> QED
    BY <1>1, <1>3, <1>4, <1>5, <2>1, Here, PlainStep
<1>6. CASE table' = [table EXCEPT ![e] = d] /\ UNCHANGED <<wire, log>>
  <2>1. WiresOK' /\ LogsOK'
    BY <1>6, WireOps, LogOps, Here
  <2> HIDE DEF d, u
  <2> QED
    BY <1>1, <1>2, <1>4, <1>6, <2>1, Here, PlainStep
<1> QED
  BY <1>5, <1>6 DEF SendData, SetTable

-----------------------------------------------------------------------------
(* Receiving                                                               *)

(* session_end_stream_headers_received and its like *)
LEMMA PeerEndedGood ==
  ASSUME NEW t, NEW srv \in BOOLEAN, Good(t, srv), NEW id \in StreamIds, NEW end \in BOOLEAN
  PROVE  Good(PeerEnded(t, srv, id, end), srv) /\ KnowsFrom(PeerEnded(t, srv, id, end), t, {})
<1>1. KnowsFrom(t, t, {})
  BY DEF KnowsFrom
<1> QED
  BY <1>1, ShutThenClose DEF PeerEnded

(* Every error is one of the list, and only HEADERS exceed the limit. *)
LEMMA ErrorKinds ==
  ASSUME NEW e \in Endpoints, NEW f
  PROVE  /\ ErrorOf(e, f) \in ConnErrors
         /\ ErrorOf(e, f) = "max concurrent streams exceeded" => f.type = "HEADERS"
<1>1. HeadersError(e, f.id) \in ConnErrors
  BY DEF HeadersError, ConnErrors
<1>2. DataError(e, f.id) \in ConnErrors \ {"max concurrent streams exceeded"}
  BY DEF DataError, ConnErrors
<1>3. PromiseError(e, f.id, f.arg) \in ConnErrors \ {"max concurrent streams exceeded"}
  BY DEF PromiseError, ConnErrors
<1>4. {"RST_STREAM: stream in idle", "GOAWAY: invalid last_stream_id", "none"}
        \subseteq ConnErrors \ {"max concurrent streams exceeded"}
  BY DEF ConnErrors
<1> QED
  BY <1>1, <1>2, <1>3, <1>4 DEF ErrorOf

LEMMA RecvInvalidStep == ASSUME Inv, NEW e \in Endpoints, RecvInvalid(e) PROVE Inv'
<1> DEFINE f == Head(wire[e])
           c == IF ErrorOf(e, f) = "max concurrent streams exceeded" /\ NewPeerId(e, f.id)
                THEN [conn[e] EXCEPT !.lastRecv = f.id] ELSE conn[e]
<1>1. /\ Arrives(e, f.type) /\ Terminate(e, c, ErrorOf(e, f)) /\ UNCHANGED <<table, log>>
  BY DEF RecvInvalid
<1>2. WiresOK' /\ LogsOK' /\ f \in FramesTo(e)
  BY <1>1, WireOps, LogOps, Here
<1> HIDE DEF f
<1>3. c \in Conn /\ Later(c, conn[e])
  <2>1. CASE ErrorOf(e, f) = "max concurrent streams exceeded" /\ NewPeerId(e, f.id)
    <3>1. f.id \in StreamIds
      BY <1>2, <2>1, ErrorKinds, FrameFacts
    <3> QED
      BY <2>1, <3>1, ConnOps, Here DEF NewPeerId
  <2>2. CASE ~(ErrorOf(e, f) = "max concurrent streams exceeded" /\ NewPeerId(e, f.id))
    BY <2>2, ConnOps, Here
  <2> QED
    BY <2>1, <2>2
<1> HIDE DEF c
<1> QED
  BY <1>1, <1>2, <1>3, ErrorKinds, TerminateStep

LEMMA RecvRequestStep == ASSUME Inv, RecvRequest PROVE Inv'
<1> DEFINE e == "server"
           f == Head(wire[e])
           t == table[e]
           c == [conn[e] EXCEPT !.lastRecv = f.id]
           d == [c EXCEPT !.lastProc = f.id]
           o == OpenStream(t, TRUE, f.id, "OPENING")
           max == IF c.localMax = NoLimit THEN c.pendingMax ELSE c.localMax
           a == AdjustClosed(o, max)
           u == PeerEnded(a, TRUE, f.id, f.end)
<1>0. e \in Endpoints /\ Srv(e) = TRUE
  BY Ends
<1>1. /\ Arrives(e, "HEADERS") /\ NewPeerId(e, f.id)
  BY DEF RecvRequest, Accepted
<1>2. WiresOK' /\ f \in FramesTo(e) /\ f.type = "HEADERS"
  BY <1>0, <1>1, WireOps, Here
<1>3. f.id \in StreamIds /\ f.end \in BOOLEAN /\ ~IsMine(TRUE, f.id) /\ conn[e].lastRecv < f.id
  <2> HIDE DEF e, f
  <2>1. f.id \in StreamIds /\ f.end \in BOOLEAN
    BY <1>0, <1>2, FrameFacts
  <2> QED
    BY <1>0, <1>1, <2>1 DEF NewPeerId
<1>4. /\ c \in Conn /\ Later(c, conn[e]) /\ d \in Conn /\ Later(d, conn[e]) /\ d.lastRecv = f.id
      /\ max \in Int
  <2>1. c \in Conn /\ Later(c, conn[e])
    BY <1>0, <1>3, ConnOps, Here
  <2>2. d = [conn[e] EXCEPT !.lastRecv = f.id, !.lastProc = f.id]
    OBVIOUS
  <2>3. d \in Conn /\ Later(d, conn[e])
    <3> HIDE DEF d
    <3> QED
      BY <1>0, <1>3, <2>2, ConnOps, Here
  <2>4. d.lastRecv = f.id
    BY <1>0, <2>2, Here DEF Conn
  <2> HIDE DEF c, d
  <2>5. max \in Int
    BY <2>1 DEF Conn
  <2> QED
    BY <2>1, <2>3, <2>4, <2>5
<1>5. queue[e] \in Queues(e) /\ Good(t, TRUE) /\ KnowsFrom(t, table[e], {}) /\ LogsOK
  BY <1>0, Here
<1>6. CASE conn' = [conn EXCEPT ![e] = c] /\ UNCHANGED <<table, queue, log>>
  <2>1. LogsOK'
    BY <1>0, <1>6, LogOps, Here
  <2> HIDE DEF e, c
  <2> QED
    BY <1>0, <1>2, <1>4, <1>6, <2>1, Here, PlainStep
<1>7. CASE /\ conn' = [conn EXCEPT ![e] = c]
           /\ queue' = [queue EXCEPT ![e] = AddRst(t, queue[e], f.id, "REFUSED_STREAM")]
           /\ UNCHANGED <<table, log>>
  <2>1. AddRst(t, queue[e], f.id, "REFUSED_STREAM") \in Queues(e)
    <3>1. "REFUSED_STREAM" \in Codes
      BY DEF Codes
    <3> QED
      BY <1>0, <1>3, <1>5, <3>1, AddOps
  <2>2. LogsOK'
    BY <1>0, <1>7, LogOps, Here
  <2> HIDE DEF e, c, f, t
  <2> QED
    BY <1>0, <1>2, <1>4, <1>7, <2>1, <2>2, Here, PlainStep
<1>8. CASE /\ conn' = [conn EXCEPT ![e] = d]
           /\ table' = [table EXCEPT ![e] = u]
           /\ log' = [log EXCEPT ![e] = [log[e] EXCEPT !.seen = log[e].seen \cup {f.id}]]
           /\ UNCHANGED queue
  <2> DEFINE N == {f.id}
  <2>1. ~Announced(e, conn[e], f.id)
    <3>1. conn[e].lastRecv \in Int /\ f.id \in Int
      BY <1>0, <1>3, Here DEF Conn, StreamIds
    <3>2. ~(f.id <= conn[e].lastRecv)
      BY <1>3, <3>1
    <3> QED
      BY <1>0, <1>3, <3>2, Ends DEF Announced
  <2>2. Good(o, TRUE) /\ KnowsFrom(o, table[e], N)
    BY <1>0, <1>3, <2>1, OpenFresh
  <2> HIDE DEF max, o, N
  <2>3. Good(a, TRUE) /\ KnowsFrom(a, o, {})
    BY <1>4, <2>2, AdjustClosedGood
  <2> HIDE DEF a
  <2>4. Good(u, TRUE) /\ KnowsFrom(u, a, {})
    BY <1>3, <2>3, PeerEndedGood
  <2> HIDE DEF u
  <2>5. KnowsFrom(u, table[e], N)
    <3>1. KnowsFrom(a, table[e], N)
      BY <2>2, <2>3, KnowsTwice
    <3> QED
      BY <2>4, <3>1, KnowsTwice
  <2>6. \A id \in StreamIds : id \in N => Announced(e, d, id)
    <3>1. f.id <= d.lastRecv
      BY <1>3, <1>4 DEF StreamIds
    <3> QED
      BY <1>0, <1>3, <3>1 DEF Announced, N
  <2>7. LogsOK'
    <3>1. [log[e] EXCEPT !.seen = log[e].seen \cup {f.id}] \in Log
      BY <1>0, <1>3, Here DEF Log
    <3> QED
      BY <1>0, <1>5, <1>8, <3>1 DEF LogsOK
  <2>8. queue' = [queue EXCEPT ![e] = queue[e]] /\ table' = [table EXCEPT ![e] = u]
        /\ Good(u, Srv(e))
    BY <1>0, <1>8, <2>4, Here DEF u
  <2>9. conn' = [conn EXCEPT ![e] = d] /\ d \in Conn /\ Later(d, conn[e]) /\ queue[e] \in Queues(e)
    BY <1>4, <1>5, <1>8
  <2> HIDE DEF e, d, f
  <2> QED
    BY <1>0, <1>2, <2>5, <2>6, <2>7, <2>8, <2>9, Step
<1> QED
  BY <1>6, <1>7, <1>8 DEF RecvRequest, SetConn, SetTable, SetQueue

LEMMA RecvResponseStep == ASSUME Inv, RecvResponse PROVE Inv'
<1> DEFINE e == "client"
           f == Head(wire[e])
           t == table[e]
<1>0. e \in Endpoints /\ Srv(e) = FALSE
  BY Ends
<1>1. Arrives(e, "HEADERS") /\ UNCHANGED conn
  BY DEF RecvResponse, Accepted
<1>2. WiresOK' /\ f \in FramesTo(e) /\ f.type = "HEADERS"
  BY <1>0, <1>1, WireOps, Here
<1>3. f.id \in StreamIds /\ f.end \in BOOLEAN
  <2> HIDE DEF e, f
  <2> QED
    BY <1>0, <1>2, FrameFacts
<1>4. /\ queue[e] \in Queues(e) /\ Good(t, FALSE) /\ KnowsFrom(t, table[e], {}) /\ LogsOK
      /\ conn[e] \in Conn /\ Later(conn[e], conn[e])
  BY <1>0, Here, ConnOps
<1>5. CASE UNCHANGED <<table, queue, log>>
  <2>1. LogsOK'
    BY <1>0, <1>5, LogOps, Here
  <2> HIDE DEF e
  <2> QED
    BY <1>0, <1>1, <1>2, <1>4, <1>5, <2>1, Here, PlainStep
<1>6. CASE /\ table' = [table EXCEPT ![e] = MarkClosing(t, f.id)]
           /\ queue' = [queue EXCEPT ![e] = AddRst(t, queue[e], f.id, "REFUSED_STREAM")]
           /\ UNCHANGED log
  <2>1. AddRst(t, queue[e], f.id, "REFUSED_STREAM") \in Queues(e)
    <3>1. "REFUSED_STREAM" \in Codes
      BY DEF Codes
    <3> QED
      BY <1>0, <1>3, <1>4, <3>1, AddOps
  <2>2. LogsOK'
    BY <1>0, <1>6, LogOps, Here
  <2>3. Good(MarkClosing(t, f.id), Srv(e)) /\ KnowsFrom(MarkClosing(t, f.id), table[e], {})
    BY <1>0, <1>3, <1>4, MarkClosingGood
  <2>4. conn' = [conn EXCEPT ![e] = conn[e]]
    BY <1>0, <1>1, Here
  <2> HIDE DEF e, f, t
  <2> QED
    BY <1>0, <1>2, <1>4, <1>6, <2>1, <2>2, <2>3, <2>4, PlainStep
<1> DEFINE S(u) == /\ table' = [table EXCEPT ![e] = PeerEnded(u, FALSE, f.id, f.end)]
                   /\ log' = [ClosedWith(e, "NO_ERROR") EXCEPT ![e].seen = @ \cup {f.id}]
                   /\ UNCHANGED queue
<1>7. ASSUME NEW u, Good(u, FALSE), KnowsFrom(u, t, {}), S(u) PROVE Inv'
  <2>1. Good(PeerEnded(u, FALSE, f.id, f.end), FALSE) /\ KnowsFrom(PeerEnded(u, FALSE, f.id, f.end), u, {})
    BY <1>3, <1>7, PeerEndedGood
  <2>2. KnowsFrom(PeerEnded(u, FALSE, f.id, f.end), table[e], {})
    BY <1>7, <2>1, KnowsTwice
  <2>3. LogsOK'
    <3> DEFINE L == ClosedWith(e, "NO_ERROR")
    <3>1. "NO_ERROR" \in Codes
      BY DEF Codes
    <3>2. L \in [Endpoints -> Log] /\ L[e] \in Log
      BY <1>0, <1>4, <3>1, LogOps
    <3>3. log' = [L EXCEPT ![e] = [L[e] EXCEPT !.seen = L[e].seen \cup {f.id}]]
      BY <1>7
    <3> HIDE DEF L
    <3>4. [L[e] EXCEPT !.seen = L[e].seen \cup {f.id}] \in Log
      BY <1>3, <3>2 DEF Log
    <3> QED
      BY <1>0, <3>2, <3>3, <3>4 DEF LogsOK
  <2>4. conn' = [conn EXCEPT ![e] = conn[e]] /\ queue' = [queue EXCEPT ![e] = queue[e]]
    BY <1>0, <1>1, <1>7, Here
  <2>5. Good(PeerEnded(u, FALSE, f.id, f.end), Srv(e))
    BY <1>0, <2>1
  <2> HIDE DEF e, f, t
  <2> QED
    BY <1>0, <1>2, <1>4, <1>7, <2>2, <2>3, <2>4, <2>5, PlainStep
<1>8. ASSUME t.st[f.id] = "RESERVED", S(PromiseFulfilled(t, f.id)) PROVE Inv'
  <2>1. Good(PromiseFulfilled(t, f.id), FALSE) /\ KnowsFrom(PromiseFulfilled(t, f.id), t, {})
    BY <1>3, <1>4, <1>8, PromiseFulfilledGood
  <2> HIDE DEF S, t, f
  <2> QED
    BY <1>7, <1>8, <2>1
<1>9. ASSUME t.st[f.id] \in {"OPENING", "OPENED"}, S(SetState(t, f.id, "OPENED")) PROVE Inv'
  <2>1. Live(t, f.id) /\ f.id \notin t.push
    BY <1>4, <1>9 DEF Live, Good, TableShape
  <2>2. Good(SetState(t, f.id, "OPENED"), FALSE) /\ KnowsFrom(SetState(t, f.id, "OPENED"), t, {})
    BY <1>3, <1>4, <2>1, SetStateGood
  <2> HIDE DEF S, t, f
  <2> QED
    BY <1>7, <1>9, <2>2
<1>10. \/ UNCHANGED <<table, queue, log>>
       \/ /\ table' = [table EXCEPT ![e] = MarkClosing(t, f.id)]
          /\ queue' = [queue EXCEPT ![e] = AddRst(t, queue[e], f.id, "REFUSED_STREAM")]
          /\ UNCHANGED log
       \/ t.st[f.id] = "RESERVED" /\ S(PromiseFulfilled(t, f.id))
       \/ t.st[f.id] \in {"OPENING", "OPENED"} /\ S(SetState(t, f.id, "OPENED"))
  BY DEF RecvResponse, SetTable, SetQueue
<1> HIDE DEF S
<1> QED
  BY <1>5, <1>6, <1>8, <1>9, <1>10

LEMMA RecvDataStep == ASSUME Inv, NEW e \in Endpoints, RecvData(e) PROVE Inv'
<1> DEFINE f == Head(wire[e])
           t == table[e]
<1>1. Arrives(e, "DATA") /\ UNCHANGED <<queue, conn>>
  BY DEF RecvData, Accepted
<1>2. WiresOK' /\ f \in FramesTo(e) /\ f.type = "DATA"
  BY <1>1, WireOps, Here
<1>3. f.id \in StreamIds /\ f.end \in BOOLEAN
  <2> HIDE DEF f
  <2> QED
    BY <1>2, FrameFacts
<1>4. /\ queue[e] \in Queues(e) /\ Good(t, Srv(e)) /\ Srv(e) \in BOOLEAN /\ LogsOK
      /\ conn[e] \in Conn /\ Later(conn[e], conn[e])
  BY Here, Ends, ConnOps
<1>5. CASE UNCHANGED <<table, log>>
  <2>1. LogsOK'
    BY <1>5, LogOps, Here
  <2> QED
    BY <1>1, <1>2, <1>4, <1>5, <2>1, Here, PlainStep
<1>6. CASE table' = [table EXCEPT ![e] = PeerEnded(t, Srv(e), f.id, f.end)] /\ log' = ClosedWith(e, "NO_ERROR")
  <2>1. Good(PeerEnded(t, Srv(e), f.id, f.end), Srv(e)) /\ KnowsFrom(PeerEnded(t, Srv(e), f.id, f.end), t, {})
    BY <1>3, <1>4, PeerEndedGood
  <2>2. LogsOK'
    <3>1. "NO_ERROR" \in Codes
      BY DEF Codes
    <3> QED
      BY <1>4, <1>6, <3>1, LogOps DEF LogsOK
  <2> HIDE DEF f
  <2> QED
    BY <1>1, <1>2, <1>4, <1>6, <2>1, <2>2, Here, PlainStep
<1> QED
  BY <1>5, <1>6 DEF RecvData, SetTable

LEMMA RecvPromiseStep == ASSUME Inv, RecvPromise PROVE Inv'
<1> DEFINE e == "client"
           f == Head(wire[e])
           t == table[e]
           c == [conn[e] EXCEPT !.lastRecv = f.arg]
           d == [conn[e] EXCEPT !.lastRecv = f.arg, !.lastProc = f.arg]
           u == OpenStream(t, FALSE, f.arg, "RESERVED")
<1>0. e \in Endpoints /\ Srv(e) = FALSE
  BY Ends
<1>1. Arrives(e, "PUSH_PROMISE") /\ ErrorOf(e, f) = "none" /\ UNCHANGED log
  BY DEF RecvPromise, Accepted
<1>2. WiresOK' /\ LogsOK' /\ f \in FramesTo(e) /\ f.type = "PUSH_PROMISE"
  BY <1>0, <1>1, WireOps, LogOps, Here
<1>3. f.arg \in StreamIds /\ IsMine(TRUE, f.arg)
  <2> HIDE DEF e, f
  <2> QED
    BY <1>0, <1>2, FrameFacts
<1>4. /\ queue[e] \in Queues(e) /\ Good(t, FALSE) /\ KnowsFrom(t, table[e], {})
      /\ conn[e] \in Conn /\ Later(conn[e], conn[e])
  BY <1>0, Here, ConnOps
<1>5. CASE UNCHANGED <<table, queue, conn>>
  <2> HIDE DEF e
  <2> QED
    BY <1>0, <1>2, <1>4, <1>5, Here, PlainStep
<1>6. AllowIncoming(conn[e]) => ~IsMine(FALSE, f.arg) /\ conn[e].lastRecv < f.arg
  <2>1. PromiseError(e, f.id, f.arg) = "none"
    <3> HIDE DEF e, f
    <3> QED
      BY <1>1, <1>2 DEF ErrorOf
  <2> HIDE DEF e, f
  <2> QED
    BY <1>0, <2>1 DEF PromiseError, NewPeerId
<1>7. CASE /\ AllowIncoming(conn[e])
           /\ conn' = [conn EXCEPT ![e] = c]
           /\ queue' = [queue EXCEPT ![e] = AddRst(t, queue[e], f.arg, "CANCEL")]
           /\ UNCHANGED table
  <2>1. c \in Conn /\ Later(c, conn[e])
    BY <1>3, <1>4, <1>6, <1>7, ConnOps
  <2>2. AddRst(t, queue[e], f.arg, "CANCEL") \in Queues(e)
    <3>1. "CANCEL" \in Codes
      BY DEF Codes
    <3> QED
      BY <1>0, <1>3, <1>4, <3>1, AddOps
  <2> HIDE DEF e, c, f, t
  <2> QED
    BY <1>0, <1>2, <1>7, <2>1, <2>2, Here, PlainStep
<1>8. CASE /\ AllowIncoming(conn[e])
           /\ conn' = [conn EXCEPT ![e] = d]
           /\ table' = [table EXCEPT ![e] = u]
           /\ UNCHANGED queue
  <2> DEFINE N == {f.arg}
  <2>1. d \in Conn /\ Later(d, conn[e]) /\ d.lastRecv = f.arg
    <3>1. d \in Conn /\ Later(d, conn[e])
      BY <1>3, <1>4, <1>6, <1>8, ConnOps
    <3> QED
      BY <1>4, <3>1 DEF Conn
  <2>2. ~Announced(e, conn[e], f.arg)
    <3>1. conn[e].lastRecv \in Int /\ f.arg \in Int
      BY <1>3, <1>4 DEF Conn, StreamIds
    <3>2. ~(f.arg <= conn[e].lastRecv)
      BY <1>6, <1>8, <3>1
    <3> QED
      BY <1>0, <1>6, <1>8, <3>2 DEF Announced
  <2>3. Good(u, FALSE) /\ KnowsFrom(u, table[e], N)
    BY <1>0, <1>3, <2>2, OpenFresh
  <2>4. \A id \in StreamIds : id \in N => Announced(e, d, id)
    <3>1. f.arg <= d.lastRecv
      BY <1>3, <2>1 DEF StreamIds
    <3> HIDE DEF d
    <3> QED
      BY <1>0, <1>6, <1>8, <3>1 DEF Announced
  <2>5. queue' = [queue EXCEPT ![e] = queue[e]] /\ Good(u, Srv(e))
    BY <1>0, <1>8, <2>3, Here
  <2> HIDE DEF e, d, f, t, u, N
  <2> QED
    BY <1>0, <1>2, <1>4, <1>8, <2>1, <2>3, <2>4, <2>5, Step
<1> QED
  BY <1>5, <1>7, <1>8 DEF RecvPromise, SetConn, SetTable, SetQueue

LEMMA RecvRstStep == ASSUME Inv, NEW e \in Endpoints, RecvRst(e) PROVE Inv'
<1> DEFINE f == Head(wire[e])
           t == IF Live(table[e], f.id) THEN ShutRd(table[e], f.id) ELSE table[e]
           u == CloseStream(t, Srv(e), f.id)
<1>1. /\ Arrives(e, "RST_STREAM") /\ UNCHANGED <<queue, conn>>
      /\ table' = [table EXCEPT ![e] = u] /\ log' = ClosedWith(e, f.code)
  BY DEF RecvRst, Accepted, SetTable
<1>2. WiresOK' /\ f \in FramesTo(e) /\ f.type = "RST_STREAM"
  BY <1>1, WireOps, Here
<1>3. f.id \in StreamIds /\ f.code \in Codes
  <2> HIDE DEF f
  <2> QED
    BY <1>2, FrameFacts
<1>4. /\ queue[e] \in Queues(e) /\ Good(table[e], Srv(e)) /\ Srv(e) \in BOOLEAN /\ LogsOK
      /\ KnowsFrom(table[e], table[e], {}) /\ conn[e] \in Conn /\ Later(conn[e], conn[e])
  BY Here, Ends, ConnOps
<1> HIDE DEF f
<1>5. Good(t, Srv(e)) /\ KnowsFrom(t, table[e], {})
  BY <1>3, <1>4, FlagsGood
<1> HIDE DEF t
<1>6. Good(u, Srv(e)) /\ KnowsFrom(u, t, {})
  BY <1>3, <1>4, <1>5, CloseStreamGood
<1> HIDE DEF u
<1>7. KnowsFrom(u, table[e], {})
  BY <1>5, <1>6, KnowsTwice
<1>8. LogsOK'
  <2>1. log' \in [Endpoints -> Log]
    BY <1>1, <1>3, <1>4, LogOps
  <2> QED
    BY <2>1 DEF LogsOK
<1> QED
  BY <1>1, <1>2, <1>4, <1>6, <1>7, <1>8, Here, PlainStep

LEMMA RecvSettingsStep == ASSUME Inv, NEW e \in Endpoints, RecvSettings(e) PROVE Inv'
<1> DEFINE n == Head(wire[e]).arg
           q == IF IsClosing(table[e], queue[e], conn'[e]) THEN queue[e]
                ELSE [queue[e] EXCEPT !.urg = Append(queue[e].urg, SettingsAck)]
<1>1. /\ Arrives(e, "SETTINGS") /\ UNCHANGED <<table, log>>
      /\ conn' = [conn EXCEPT ![e] = [conn[e] EXCEPT !.remoteMax = n]]
      /\ queue' = [queue EXCEPT ![e] = q]
  BY DEF RecvSettings, Accepted, SetConn, SetQueue
<1>2. WiresOK' /\ LogsOK' /\ Head(wire[e]) \in FramesTo(e)
  BY <1>1, WireOps, LogOps, Here
<1>3. n \in Nat
  BY <1>2, FrameFacts
<1> HIDE DEF n
<1>4. PICK d \in Conn : d = [conn[e] EXCEPT !.remoteMax = n] /\ Later(d, conn[e])
  BY <1>3, ConnOps, Here
<1>5. q \in Queues(e)
  BY QueueOps, FrameKinds, Here
<1> HIDE DEF q
<1> QED
  BY <1>1, <1>2, <1>4, <1>5, Here, PlainStep

LEMMA RecvSettingsAckStep == ASSUME Inv, NEW e \in Endpoints, RecvSettingsAck(e) PROVE Inv'
<1>1. /\ Arrives(e, "SETTINGS_ACK") /\ UNCHANGED <<table, queue, log>>
      /\ conn' = [conn EXCEPT ![e] = [conn[e] EXCEPT !.localMax = MaxOf(e), !.pendingMax = MaxOf(e)]]
  BY DEF RecvSettingsAck, Accepted, SetConn
<1>2. WiresOK' /\ LogsOK'
  BY <1>1, WireOps, LogOps, Here
<1>3. MaxOf(e) \in Nat
  BY SessionAssumption DEF MaxOf
<1>4. PICK d \in Conn : d = [conn[e] EXCEPT !.localMax = MaxOf(e), !.pendingMax = MaxOf(e)] /\ Later(d, conn[e])
  BY <1>3, ConnOps, Here
<1> QED
  BY <1>1, <1>2, <1>4, Here, PlainStep

LEMMA RecvGoawayStep == ASSUME Inv, NEW e \in Endpoints, RecvGoaway(e) PROVE Inv'
<1> DEFINE f == Head(wire[e])
           g == conn[e].goaway \cup {"RECV"}
<1>1. /\ Arrives(e, "GOAWAY") /\ UNCHANGED queue
      /\ conn' = [conn EXCEPT ![e] = [conn[e] EXCEPT !.goaway = g, !.remoteLast = f.arg]]
      /\ table' = [table EXCEPT ![e] = CloseOnGoaway(e, f.arg, TRUE)]
      /\ log' = ClosedWith(e, "CANCEL")
  BY DEF RecvGoaway, Accepted, SetConn, SetTable
<1>2. WiresOK' /\ f \in FramesTo(e) /\ f.type = "GOAWAY"
  BY <1>1, WireOps, Here
<1> HIDE DEF f
<1>3. f.arg \in 0 .. MaxStreamId
  BY <1>2, FrameFacts
<1>4. g \in SUBSET GoawayFlags
  BY Here DEF Conn, GoawayFlags
<1> HIDE DEF g
<1>5. PICK d \in Conn : d = [conn[e] EXCEPT !.goaway = g, !.remoteLast = f.arg] /\ Later(d, conn[e])
  BY <1>3, <1>4, ConnOps, Here
<1>6. LogsOK'
  <2>1. "CANCEL" \in Codes
    BY DEF Codes
  <2>2. log' \in [Endpoints -> Log]
    BY <1>1, <2>1, LogOps, Here
  <2> QED
    BY <2>2 DEF LogsOK
<1>7. Good(CloseOnGoaway(e, f.arg, TRUE), Srv(e)) /\ KnowsFrom(CloseOnGoaway(e, f.arg, TRUE), table[e], {})
  BY CloseOnGoawayGood
<1> QED
  BY <1>1, <1>2, <1>5, <1>6, <1>7, Here, PlainStep

LEMMA DropStep == ASSUME Inv, NEW e \in Endpoints, Drop(e) PROVE Inv'
<1>1. /\ UNCHANGED <<table, queue, wire, log>>
      /\ conn' = [conn EXCEPT ![e] = [conn[e] EXCEPT !.up = FALSE]]
  BY DEF Drop, SetConn
<1>2. WiresOK' /\ LogsOK'
  BY <1>1, WireOps, LogOps, Here
<1>3. PICK d \in Conn : d = [conn[e] EXCEPT !.up = FALSE] /\ Later(d, conn[e])
  BY ConnOps, Here
<1> QED
  BY <1>1, <1>2, <1>3, Here, PlainStep

-----------------------------------------------------------------------------
(* The theorems                                                            *)

LEMMA InitInv == Init => Inv
<1> SUFFICES ASSUME Init PROVE Inv
  OBVIOUS
<1>1. TablesGood /\ AllKnown
  <2>1. table = [e \in Endpoints |-> EmptyTable]
    BY DEF Init
  <2>2. \A e \in Endpoints : Good(EmptyTable, Srv(e)) /\ \A id \in StreamIds : ~Known(EmptyTable, id)
    BY EmptyTableGood
  <2>3. EmptyTable \in Table
    BY EmptyTableGood DEF Good
  <2> QED
    BY <2>1, <2>2, <2>3 DEF TablesGood, AllKnown
<1>2. \A e \in Endpoints : MaxOf(e) \in Nat
  BY SessionAssumption DEF MaxOf
<1>3. QueuesOK
  <2>1. ASSUME NEW e \in Endpoints
        PROVE  [urg |-> <<Settings(MaxOf(e))>>, reg |-> << >>, syn |-> << >>] \in Queues(e)
    <3>1. Settings(MaxOf(e)) \in UrgFrames
      BY <1>2, MaxStreamIdAssumption DEF Settings, F, UrgFrames, Frame, FrameTypes, Codes
    <3>2. <<Settings(MaxOf(e))>> \in Seq(UrgFrames) /\ << >> \in Seq(RegFrames(e)) /\ << >> \in Seq(SynFrames)
      BY <3>1
    <3> QED
      BY <3>2 DEF Queues
  <2>2. queue = [e \in Endpoints |-> [urg |-> <<Settings(MaxOf(e))>>, reg |-> << >>, syn |-> << >>]]
    BY DEF Init
  <2>3. \A e \in Endpoints : Queues(e) \subseteq Queues("client") \cup Queues("server")
    BY Ends
  <2> QED
    BY <2>1, <2>2, <2>3 DEF QueuesOK
<1>4. ConnsOK
  <2> DEFINE start(e) == [nextId     |-> IF e = "client" THEN 1 ELSE 2,
                          lastRecv   |-> 0, lastSent |-> 0, lastProc |-> 0,
                          localLast  |-> MaxStreamId, remoteLast |-> MaxStreamId,
                          goaway     |-> {},
                          localMax   |-> NoLimit, pendingMax |-> MaxOf(e), remoteMax |-> NoLimit,
                          err |-> "none", abort |-> "none", up |-> TRUE]
  <2>1. conn = [e \in Endpoints |-> start(e)]
    BY DEF Init
  <2>2. ASSUME NEW e \in Endpoints PROVE start(e) \in Conn
    <3>1. 0 \in 0 .. MaxStreamId /\ MaxStreamId \in 0 .. MaxStreamId /\ NoLimit \in Nat
      BY MaxStreamIdAssumption DEF NoLimit
    <3>2. (IF e = "client" THEN 1 ELSE 2) \in Nat
      OBVIOUS
    <3> QED
      BY <1>2, <3>1, <3>2 DEF Conn, ConnErrors, Asserts, GoawayFlags
  <2>3. start("client").nextId = 1 /\ start("server").nextId = 2
    OBVIOUS
  <2> HIDE DEF start
  <2> QED
    BY <2>1, <2>2, <2>3, Ends DEF ConnsOK
<1>5. WiresOK
  BY DEF Init, WiresOK
<1>6. LogsOK
  BY DEF Init, LogsOK, Log
<1> QED
  BY <1>1, <1>3, <1>4, <1>5, <1>6, InvParts

LEMMA NextInv == Inv /\ [Next]_vars => Inv'
<1> SUFFICES ASSUME Inv, [Next]_vars PROVE Inv'
  OBVIOUS
<1>1. CASE UNCHANGED vars
  BY <1>1 DEF vars, Inv, TypeOK, CountersExact, IdsAnnounced
<1>2. ASSUME NEW e \in Endpoints, Submit(e) PROVE Inv'
  BY <1>2, SubmitRequestStep, SubmitPushStep, SubmitResponseStep, SubmitRstStep,
     SubmitTerminateStep, SubmitGoawayStep DEF Submit
<1>3. ASSUME NEW e \in Endpoints, Send(e) PROVE Inv'
  BY <1>3, SendSettingsStep, SendRequestStep, SendResponseStep, SendPromiseStep,
     SendGoawayStep, SendRstStep, SendDataStep DEF Send
<1>4. ASSUME NEW e \in Endpoints, Recv(e) PROVE Inv'
  BY <1>4, RecvInvalidStep, RecvRequestStep, RecvResponseStep, RecvDataStep, RecvPromiseStep,
     RecvRstStep, RecvSettingsStep, RecvSettingsAckStep, RecvGoawayStep DEF Recv
<1>5. ASSUME NEW e \in Endpoints, Drop(e) PROVE Inv'
  BY <1>5, DropStep
<1> QED
  BY <1>1, <1>2, <1>3, <1>4, <1>5 DEF Next

LEMMA InvHolds == Spec => []Inv
BY InitInv, NextInv, PTL DEF Spec

(* Every variable always holds values of its type: no frame of the wrong   *)
(* kind enters a queue or the wire, no identifier leaves its range.        *)
THEOREM TypeCorrect == Spec => []TypeOK
<1>1. Inv => TypeOK
  BY DEF Inv
<1> QED
  BY <1>1, InvHolds, PTL

(* num_outgoing_streams, num_incoming_streams and                          *)
(* num_incoming_reserved_streams always equal the number of streams they   *)
(* stand for, at both ends, in every interleaving.                         *)
THEOREM CountersCorrect == Spec => []CountersExact
<1>1. Inv => CountersExact
  BY DEF Inv
<1> QED
  BY <1>1, InvHolds, PTL

(* No stream is in memory that was not announced, so that no identifier is *)
(* opened twice; what is reserved, pushed or kept is so for a reason.      *)
THEOREM OnlyAnnouncedStreams == Spec => []IdsAnnounced
<1>1. Inv => IdsAnnounced
  BY DEF Inv
<1> QED
  BY <1>1, InvHolds, PTL

-----------------------------------------------------------------------------
(* RetainedWithinLimit.                                                    *)
(*                                                                         *)
(* Closing a stream moves at most one from num_incoming_streams to the     *)
(* list of kept ones, because a kept stream is one its peer opened and     *)
(* such a stream is never a pushed one; and the limit in force is always   *)
(* the configured one or the initial one, which the trimming replaces.     *)

Fits(t, srv, n) == /\ Good(t, srv)
                   /\ Len(t.kept) + t.in <= n
                   /\ srv \/ t.kept = << >>
                   /\ \A id \in t.push : IsMine(TRUE, id)

TablesFit  == \A e \in Endpoints : Fits(table[e], Srv(e), MaxOf(e))
LimitsKept == \A e \in Endpoints : /\ conn[e].pendingMax = MaxOf(e)
                                   /\ conn[e].localMax \in {NoLimit, MaxOf(e)}

-----------------------------------------------------------------------------
(* What each operator of the stream table does to the room left.           *)

(* Flags, states and the counters of own streams do not matter. *)
LEMMA SameFit ==
  ASSUME NEW t, NEW u, NEW srv, NEW n, Fits(t, srv, n), Good(u, srv),
         u.kept = t.kept, u.in = t.in, u.push \subseteq t.push
  PROVE  Fits(u, srv, n)
BY DEF Fits

LEMMA FlagsFit ==
  ASSUME NEW t, NEW srv \in BOOLEAN, NEW n, Fits(t, srv, n), NEW id \in StreamIds,
         NEW u \in {ShutRd(t, id), ShutWr(t, id), Attach(t, id), Detach(t, id)}
  PROVE  Fits(u, srv, n)
<1>1. Good(t, srv) /\ t \in Table
  BY DEF Fits, Good
<1>2. Good(u, srv)
  BY <1>1, FlagsGood
<1>3. u.kept = t.kept /\ u.in = t.in /\ u.push = t.push
  BY <1>1 DEF Table, ShutRd, ShutWr, Attach, Detach
<1> QED
  BY <1>2, <1>3, SameFit

LEMMA SetStateFit ==
  ASSUME NEW t, NEW srv \in BOOLEAN, NEW n, Fits(t, srv, n), NEW id \in StreamIds, Live(t, id),
         NEW s \in {"OPENING", "OPENED", "CLOSING"}, id \in t.push => s = "CLOSING"
  PROVE  Fits(SetState(t, id, s), srv, n)
<1>1. Good(t, srv) /\ t \in Table
  BY DEF Fits, Good
<1>2. Good(SetState(t, id, s), srv)
  BY <1>1, SetStateGood
<1>3. /\ SetState(t, id, s).kept = t.kept /\ SetState(t, id, s).in = t.in
      /\ SetState(t, id, s).push = t.push
  BY <1>1 DEF Table, SetState
<1> QED
  BY <1>2, <1>3, SameFit

LEMMA MarkClosingFit ==
  ASSUME NEW t, NEW srv \in BOOLEAN, NEW n, Fits(t, srv, n), NEW id \in StreamIds
  PROVE  Fits(MarkClosing(t, id), srv, n)
BY SetStateFit DEF MarkClosing

LEMMA PushResponseSentFit ==
  ASSUME NEW t, NEW n, Fits(t, TRUE, n), NEW id \in StreamIds, t.st[id] = "RESERVED"
  PROVE  Fits(PushResponseSent(t, id), TRUE, n)
<1>1. Good(t, TRUE) /\ t \in Table
  BY DEF Fits, Good
<1>2. Good(PushResponseSent(t, id), TRUE)
  BY <1>1, PushResponseSentGood
<1>3. /\ PushResponseSent(t, id).kept = t.kept /\ PushResponseSent(t, id).in = t.in
      /\ PushResponseSent(t, id).push \subseteq t.push
  BY <1>1 DEF Table, PushResponseSent
<1> QED
  BY <1>2, <1>3, SameFit

(* SetToSeq is as long as its set is large. *)
LEMMA SetToSeqLength ==
  ASSUME NEW S \in SUBSET StreamIds
  PROVE  Len(SetToSeq(S)) = Cardinality(S)
<1>1. PICK n \in Nat : n = Cardinality(S)
  BY IdSetsFinite
<1>2. ExistsBijection(1 .. Cardinality(S), S)
  BY IdSetsFinite, FS_CardinalityType
<1>3. \E f \in [1 .. Cardinality(S) -> S] : IsInjective(f)
  BY <1>2 DEF ExistsBijection, Bijection, Injection
<1>4. SetToSeq(S) \in [1 .. Cardinality(S) -> S]
  BY <1>3 DEF SetToSeq
<1>5. SetToSeq(S) \in Seq(StreamIds) /\ DOMAIN SetToSeq(S) = 1 .. n
  BY <1>1, <1>4, SetToSeqType
<1>6. PICK m \in Nat : m = Len(SetToSeq(S)) /\ 1 .. m = DOMAIN SetToSeq(S)
  BY <1>5
<1> QED
  BY <1>1, <1>5, <1>6

(* Every stream a closure adds to the list leaves num_incoming_streams. *)
LEMMA CloseStreamsFit ==
  ASSUME NEW t, NEW srv \in BOOLEAN, NEW n \in Int, Fits(t, srv, n), NEW S \in SUBSET LiveStreams(t)
  PROVE  Fits(CloseStreams(t, srv, S), srv, n)
<1> DEFINE u    == CloseStreams(t, srv, S)
           keep == {id \in S : srv /\ ~IsMine(srv, id)}
           fall == IncomingSet(t, srv) \cap S
<1>1. Good(t, srv) /\ t \in Table
  BY DEF Fits, Good
<1>2. S \in SUBSET StreamIds /\ keep \in SUBSET StreamIds /\ fall \in SUBSET StreamIds
  BY DEF LiveStreams
<1>3. keep \subseteq fall
  <2> SUFFICES ASSUME NEW id \in S, srv, ~IsMine(srv, id) PROVE id \in IncomingSet(t, srv)
    OBVIOUS
  <2>1. id \notin t.push
    BY DEF Fits
  <2> QED
    BY <2>1 DEF IncomingSet
<1>4. Cardinality(keep) <= Cardinality(fall) /\ Cardinality(keep) \in Nat /\ Cardinality(fall) \in Nat
  BY <1>2, <1>3, IdSetsFinite, FS_Subset
<1>5. Len(SetToSeq(keep)) = Cardinality(keep) /\ SetToSeq(keep) \in Seq(StreamIds)
  BY <1>2, SetToSeqLength, SetToSeqType
<1>6. /\ u.kept = t.kept \o SetToSeq(keep)
      /\ u.in = t.in - Cardinality(fall)
      /\ u.push = t.push \ S
  BY DEF CloseStreams
<1>7. t.kept \in Seq(StreamIds) /\ t.in \in Int
  BY <1>1 DEF Table
<1>8. Good(u, srv)
  BY <1>1, CloseStreamsGood
<1>9. ~srv => u.kept = << >>
  <2> SUFFICES ASSUME ~srv PROVE u.kept = << >>
    OBVIOUS
  <2>1. t.kept = << >>
    BY DEF Fits
  <2>2. keep = {}
    OBVIOUS
  <2>3. Len(SetToSeq(keep)) = 0
    BY <1>5, <2>2, FS_EmptySet
  <2> HIDE DEF keep
  <2> QED
    BY <1>5, <1>6, <2>1, <2>3
<1> HIDE DEF u, keep, fall
<1>10. Len(u.kept) + u.in <= n
  BY <1>4, <1>5, <1>6, <1>7 DEF Fits
<1> QED
  BY <1>6, <1>8, <1>9, <1>10 DEF Fits, u

LEMMA CloseStreamFit ==
  ASSUME NEW t, NEW srv \in BOOLEAN, NEW n \in Int, Fits(t, srv, n), NEW id \in StreamIds
  PROVE  Fits(CloseStream(t, srv, id), srv, n) /\ Fits(CloseIfShut(t, srv, id), srv, n)
<1>1. Live(t, id) => {id} \in SUBSET LiveStreams(t)
  BY DEF LiveStreams
<1>2. Fits(CloseStream(t, srv, id), srv, n)
  BY <1>1, CloseStreamsFit DEF CloseStream
<1> QED
  BY <1>2 DEF CloseIfShut

LEMMA PeerEndedFit ==
  ASSUME NEW t, NEW srv \in BOOLEAN, NEW n \in Int, Fits(t, srv, n), NEW id \in StreamIds, NEW end \in BOOLEAN
  PROVE  Fits(PeerEnded(t, srv, id, end), srv, n)
<1>1. Fits(ShutRd(t, id), srv, n)
  BY FlagsFit
<1>2. Fits(CloseIfShut(ShutRd(t, id), srv, id), srv, n)
  BY <1>1, CloseStreamFit
<1> QED
  BY <1>2 DEF PeerEnded

(* Own streams and reserved ones do not count. *)
LEMMA OpenOwnFit ==
  ASSUME NEW t, NEW srv \in BOOLEAN, NEW n, Fits(t, srv, n), NEW id \in StreamIds,
         NEW initial \in {"OPENING", "RESERVED"},
         initial = "OPENING" => IsMine(srv, id), initial = "RESERVED" => IsMine(TRUE, id),
         Good(OpenStream(t, srv, id, initial), srv)
  PROVE  Fits(OpenStream(t, srv, id, initial), srv, n)
<1> DEFINE u == OpenStream(t, srv, id, initial)
<1>1. t \in Table
  BY DEF Fits, Good
<1>2. u.kept = t.kept /\ u.in = t.in /\ u.push \subseteq t.push \cup {id}
      /\ (initial = "OPENING" => u.push = t.push)
  BY <1>1 DEF Table, OpenStream
<1> HIDE DEF u
<1> QED
  BY <1>2 DEF Fits, u

(* A table with one more incoming stream fits once the list is trimmed.    *)
LEMMA TrimmedFit ==
  ASSUME NEW t, NEW srv \in BOOLEAN, srv, NEW n \in Int, Fits(t, srv, n), ~(n <= t.in),
         NEW o, Good(o, srv), o.kept = t.kept, o.in = t.in + 1, o.push = t.push
  PROVE  Fits(AdjustClosed(o, n), srv, n)
<1> DEFINE excess == Len(o.kept) + o.in - n
           m    == IF excess <= 0 THEN 0
                   ELSE IF excess < Len(o.kept) THEN excess ELSE Len(o.kept)
           a    == AdjustClosed(o, n)
<1>1. t \in Table /\ o \in Table
  BY DEF Fits, Good
<1>2. o.kept \in Seq(StreamIds) /\ o.in \in Int /\ t.in \in Int
  BY <1>1 DEF Table
<1>3. PICK len \in Nat : len = Len(o.kept)
  BY <1>2
<1>4. m \in 0 .. len /\ (len - m) + o.in <= n
  <2>1. PICK x \in Int : x = o.in /\ x <= n
    BY <1>2
  <2> DEFINE over == len + x - n
             k    == IF over <= 0 THEN 0 ELSE IF over < len THEN over ELSE len
  <2>2. k \in 0 .. len /\ (len - k) + x <= n
    BY <2>1
  <2>3. excess = over /\ m = k
    BY <1>3, <2>1
  <2> HIDE DEF m, k, over, excess
  <2> QED
    BY <2>1, <2>2, <2>3
<1>5. a.kept = SubSeq(o.kept, m + 1, Len(o.kept)) /\ a.in = o.in /\ a.push = o.push
  BY <1>1 DEF Table, AdjustClosed
<1>6. Good(a, srv)
  BY AdjustClosedGood
<1> HIDE DEF m, a
<1>7. Len(a.kept) = len - m
  BY <1>2, <1>3, <1>4, <1>5
<1> QED
  BY <1>2, <1>4, <1>5, <1>6, <1>7 DEF Fits, a

LEMMA AcceptFit ==
  ASSUME NEW t, NEW srv \in BOOLEAN, srv, NEW n \in Int, Fits(t, srv, n), ~(n <= t.in),
         NEW id \in StreamIds, ~IsMine(srv, id), Good(OpenStream(t, srv, id, "OPENING"), srv)
  PROVE  Fits(AdjustClosed(OpenStream(t, srv, id, "OPENING"), n), srv, n)
<1> DEFINE o == OpenStream(t, srv, id, "OPENING")
<1>1. t \in Table
  BY DEF Fits, Good
<1>2. o.kept = t.kept /\ o.in = t.in + 1 /\ o.push = t.push
  BY <1>1 DEF Table, OpenStream
<1> HIDE DEF o
<1> QED
  BY <1>2, TrimmedFit DEF o

(* A client keeps no list, and checks its limit before a promise counts. *)
LEMMA OneMoreFit ==
  ASSUME NEW t, NEW srv \in BOOLEAN, ~srv, NEW n \in Int, Fits(t, srv, n), ~(n <= t.in),
         NEW u, Good(u, srv), u.kept = t.kept, u.in = t.in + 1, u.push \subseteq t.push
  PROVE  Fits(u, srv, n)
<1>1. u.kept = << >> /\ Len(u.kept) = 0
  BY DEF Fits
<1>2. t.in \in Int
  BY DEF Fits, Good, Table
<1>3. Len(u.kept) + u.in <= n
  BY <1>1, <1>2
<1> QED
  BY <1>1, <1>3 DEF Fits

LEMMA FulfilledFit ==
  ASSUME NEW t, NEW n \in Int, Fits(t, FALSE, n), ~(n <= t.in),
         NEW id \in StreamIds, t.st[id] = "RESERVED"
  PROVE  Fits(PromiseFulfilled(t, id), FALSE, n)
<1> DEFINE u == PromiseFulfilled(t, id)
<1>1. Good(t, FALSE) /\ t \in Table
  BY DEF Fits, Good
<1>2. Good(u, FALSE)
  BY <1>1, PromiseFulfilledGood
<1>3. u.kept = t.kept /\ u.in = t.in + 1 /\ u.push \subseteq t.push
  BY <1>1 DEF Table, PromiseFulfilled
<1> HIDE DEF u
<1> QED
  BY <1>2, <1>3, OneMoreFit DEF u

-----------------------------------------------------------------------------
(* What each step does to the room left.                                   *)

LEMMA Room ==
  ASSUME TablesFit, NEW e \in Endpoints
  PROVE  Fits(table[e], Srv(e), MaxOf(e)) /\ Srv(e) \in BOOLEAN /\ MaxOf(e) \in Int
BY Ends, SessionAssumption DEF TablesFit, MaxOf

LEMMA OneTable ==
  ASSUME Inv, TablesFit, NEW e \in Endpoints, NEW t, table' = [table EXCEPT ![e] = t],
         Fits(t, Srv(e), MaxOf(e))
  PROVE  TablesFit'
<1>1. table \in [Endpoints -> Table]
  BY DEF Inv, TypeOK
<1>2. ASSUME NEW x \in Endpoints PROVE Fits(table'[x], Srv(x), MaxOf(x))
  <2>1. CASE x = e
    BY <1>1, <2>1
  <2>2. CASE x # e
    BY <1>1, <2>2 DEF TablesFit
  <2> QED
    BY <2>1, <2>2
<1> QED
  BY <1>2 DEF TablesFit

LEMMA SameTables == ASSUME TablesFit, UNCHANGED table PROVE TablesFit'
BY DEF TablesFit

(* The frames a session takes from its queues or reads name streams. *)
LEMMA Named ==
  ASSUME Inv, NEW e \in Endpoints
  PROVE  /\ RegReady(e) /\ NextReg(e).type = "HEADERS" => NextReg(e).id \in StreamIds /\ NextReg(e).end \in BOOLEAN
         /\ RegReady(e) /\ NextReg(e).type = "PUSH_PROMISE" => NextReg(e).arg \in StreamIds
         /\ SynReady(e) => Head(queue[e].syn).id \in StreamIds
         /\ \A type \in {"HEADERS", "DATA", "RST_STREAM", "PUSH_PROMISE"} : Arrives(e, type) =>
              Head(wire[e]).id \in StreamIds /\ Head(wire[e]).end \in BOOLEAN
         /\ Arrives(e, "PUSH_PROMISE") => Head(wire[e]).arg \in StreamIds
<1>1. RegReady(e) => NextReg(e) \in RegFrames(e)
  BY TakeOps
<1>2. SynReady(e) => Head(queue[e].syn).type = "RST_STREAM" /\ Head(queue[e].syn) \in FramesTo(Peer(e))
  BY TakeOps DEF SynFrames
<1>3. \A type : Arrives(e, type) => Head(wire[e]) \in FramesTo(e) /\ Head(wire[e]).type = type
  BY WireOps, Here
<1>4. SynReady(e) => Head(queue[e].syn).id \in StreamIds
  BY <1>2, FrameFacts, Ends
<1>5. RegReady(e) /\ NextReg(e).type = "HEADERS" => NextReg(e).id \in StreamIds /\ NextReg(e).end \in BOOLEAN
  BY <1>1, FrameFacts DEF Frame
<1>6. RegReady(e) /\ NextReg(e).type = "PUSH_PROMISE" => NextReg(e).arg \in StreamIds
  BY <1>1, FrameFacts
<1>7. ASSUME NEW type \in {"HEADERS", "DATA", "RST_STREAM", "PUSH_PROMISE"}, Arrives(e, type)
      PROVE  Head(wire[e]).id \in StreamIds /\ Head(wire[e]).end \in BOOLEAN
  BY <1>3, <1>7, FrameFacts DEF Frame
<1>8. Arrives(e, "PUSH_PROMISE") => Head(wire[e]).arg \in StreamIds
  BY <1>3, FrameFacts
<1> QED
  BY <1>4, <1>5, <1>6, <1>7, <1>8

(* Steps that open or close nothing. *)
LEMMA OtherStepsFit ==
  ASSUME Inv, TablesFit, NEW e \in Endpoints,
         \/ SubmitRequest \/ SubmitTerminate(e) \/ SubmitGoaway(e)
         \/ \E id \in StreamIds, end \in BOOLEAN : SubmitResponse(id, end)
         \/ SendSettings(e) \/ RecvInvalid(e) \/ RecvSettings(e) \/ RecvSettingsAck(e) \/ Drop(e)
  PROVE  TablesFit'
<1>1. UNCHANGED table
  BY DEF SubmitRequest, SubmitTerminate, SubmitGoaway, SubmitResponse, SendSettings, RecvInvalid,
         RecvSettings, RecvSettingsAck, Drop
<1> QED
  BY <1>1, SameTables

(* A promise is an own stream of the server. *)
LEMMA SubmitPushFits ==
  ASSUME Inv, TablesFit, Inv', NEW parent \in StreamIds, SubmitPush(parent)
  PROVE  TablesFit'
<1> DEFINE id == conn["server"].nextId
           u  == OpenStream(table["server"], TRUE, id, "RESERVED")
<1>1. table' = [table EXCEPT !["server"] = u] /\ id <= LastId("server")
  BY DEF SubmitPush, SetTable
<1>2. id \in StreamIds /\ IsMine(TRUE, id)
  <2>1. id \in Nat /\ id % 2 = 0 /\ id > 0
    BY Here, Ends DEF Inv, IdsAnnounced, Conn
  <2>2. LastId("server") = 2 * Pushes
    BY Ends DEF LastId
  <2>3. id <= MaxStreamId
    BY <1>1, <2>1, <2>2, SessionAssumption, MaxStreamIdAssumption
  <2> QED
    BY <2>1, <2>3, MaxStreamIdAssumption DEF StreamIds, IsMine
<1>3. Good(u, TRUE)
  <2>1. table \in [Endpoints -> Table]
    BY DEF Inv, TypeOK
  <2> HIDE DEF u
  <2>2. table'["server"] = u
    BY <1>1, <2>1, Ends
  <2>3. table'["server"] \in Table /\ TableShape(table'["server"]) /\ CountsMatch(table'["server"], TRUE)
    BY Ends DEF Inv, TypeOK, IdsAnnounced, CountersExact
  <2> QED
    BY <2>2, <2>3 DEF Good
<1>4. Fits(u, TRUE, MaxOf("server"))
  <2> HIDE DEF id
  <2> QED
    BY <1>2, <1>3, Room, Ends, OpenOwnFit
<1> HIDE DEF u
<1> QED
  BY <1>1, <1>4, Ends, OneTable

LEMMA SubmitRstFits ==
  ASSUME Inv, TablesFit, NEW e \in Endpoints, NEW id \in StreamIds, SubmitRst(e, id)
  PROVE  TablesFit'
<1>1. UNCHANGED table \/ table' = [table EXCEPT ![e] = MarkClosing(table[e], id)]
  BY DEF SubmitRst, SetTable
<1>2. Fits(MarkClosing(table[e], id), Srv(e), MaxOf(e))
  BY Room, MarkClosingFit
<1> QED
  BY <1>1, <1>2, SameTables, OneTable

LEMMA SendRequestFits == ASSUME Inv, TablesFit, SendRequest PROVE TablesFit'
<1> DEFINE e == "client"
           f == NextReg(e)
           u == OpenStream(table[e], FALSE, f.id, "OPENING")
<1>0. e \in Endpoints /\ Srv(e) = FALSE
  BY Ends
<1>1. CASE UNCHANGED table
  BY <1>1, SameTables
<1>2. CASE table' = [table EXCEPT ![e] = ShutWr(u, f.id)] /\ ~(conn[e].lastSent >= f.id)
  <2>1. f.id \in StreamIds /\ IsMine(FALSE, f.id)
    <3>1. RegReady(e) /\ f.type = "HEADERS"
      BY DEF SendRequest
    <3>2. f \in RegFrames(e)
      BY <1>0, <3>1, TakeOps
    <3> HIDE DEF f
    <3> QED
      BY <1>0, <3>1, <3>2, FrameFacts
  <2>2. ~Announced(e, conn[e], f.id)
    <3>1. conn[e].lastSent \in Int /\ f.id \in Int
      BY <1>0, <2>1, Here DEF Conn, StreamIds
    <3>2. ~(f.id <= conn[e].lastSent)
      BY <1>2, <3>1
    <3> QED
      BY <1>0, <2>1, <3>2 DEF Announced
  <2>3. Good(u, FALSE)
    BY <1>0, <2>1, <2>2, OpenFresh
  <2>4. Fits(u, FALSE, MaxOf(e))
    BY <1>0, <2>1, <2>3, Room, OpenOwnFit
  <2> HIDE DEF e, f, u
  <2>5. Fits(ShutWr(u, f.id), FALSE, MaxOf(e))
    BY <2>1, <2>4, FlagsFit
  <2> QED
    BY <1>0, <1>2, <2>5, OneTable
<1> QED
  BY <1>1, <1>2 DEF SendRequest, SetTable

LEMMA SendResponseFits == ASSUME Inv, TablesFit, SendResponse PROVE TablesFit'
<1> DEFINE e == "server"
           f == NextReg(e)
           t == table[e]
           n == MaxOf(e)
<1>0. e \in Endpoints /\ Srv(e) = TRUE /\ Fits(t, TRUE, n) /\ n \in Int
  BY Ends, Room
<1>1. f.id \in StreamIds /\ f.end \in BOOLEAN
  BY <1>0, Named DEF SendResponse
<1>2. CASE table' = [table EXCEPT ![e] = MarkClosing(t, f.id)]
  <2>1. Fits(MarkClosing(t, f.id), TRUE, n)
    BY <1>0, <1>1, MarkClosingFit
  <2> HIDE DEF f
  <2> QED
    BY <1>0, <1>2, <2>1, OneTable
<1>3. CASE /\ MayRespond(t, AfterReg(e), conn[e], f.id)
           /\ table' = [table EXCEPT ![e] = ResponseSent(t, f.id, f.end)]
  <2> DEFINE o == IF t.st[f.id] = "RESERVED" THEN PushResponseSent(t, f.id) ELSE SetState(t, f.id, "OPENED")
             u == ResponseSent(t, f.id, f.end)
  <2>1. Fits(o, TRUE, n)
    <3>1. CASE t.st[f.id] = "RESERVED"
      BY <1>0, <1>1, <3>1, PushResponseSentFit
    <3>2. CASE t.st[f.id] # "RESERVED"
      <4>1. t.st[f.id] = "OPENING"
        BY <1>3, <3>2 DEF MayRespond
      <4>2. Live(t, f.id) /\ f.id \notin t.push
        BY <1>0, <4>1 DEF Live, Fits, Good, TableShape
      <4> QED
        BY <1>0, <1>1, <3>2, <4>2, SetStateFit
    <3> QED
      BY <3>1, <3>2
  <2>2. u = IF f.end THEN CloseIfShut(ShutWr(o, f.id), TRUE, f.id) ELSE Attach(o, f.id)
    BY DEF ResponseSent
  <2> HIDE DEF e, f, t, n, o, u
  <2>3. Fits(ShutWr(o, f.id), TRUE, n) /\ Fits(Attach(o, f.id), TRUE, n)
    BY <1>1, <2>1, FlagsFit
  <2>4. Fits(CloseIfShut(ShutWr(o, f.id), TRUE, f.id), TRUE, n)
    BY <1>0, <1>1, <2>3, CloseStreamFit
  <2>5. Fits(u, TRUE, n)
    BY <2>2, <2>3, <2>4
  <2> QED
    BY <1>0, <1>3, <2>5, OneTable DEF u, n
<1> QED
  BY <1>2, <1>3 DEF SendResponse, SetTable

LEMMA SendPromiseFits == ASSUME Inv, TablesFit, SendPromise PROVE TablesFit'
<1> DEFINE e == "server"
           f == NextReg(e)
           u == CloseStream(table[e], TRUE, f.arg)
<1>0. e \in Endpoints /\ Srv(e) = TRUE
  BY Ends
<1>1. UNCHANGED table \/ table' = [table EXCEPT ![e] = u]
  BY DEF SendPromise, SetTable
<1>2. f.arg \in StreamIds
  BY <1>0, Named DEF SendPromise
<1>3. Fits(u, TRUE, MaxOf(e))
  BY <1>0, <1>2, Room, CloseStreamFit
<1> HIDE DEF u
<1> QED
  BY <1>0, <1>1, <1>3, SameTables, OneTable

LEMMA CloseOnGoawayFits ==
  ASSUME TablesFit, NEW e \in Endpoints, NEW last, NEW mine
  PROVE  Fits(CloseOnGoaway(e, last, mine), Srv(e), MaxOf(e))
<1> DEFINE S == {id \in LiveStreams(table[e]) : IsMine(Srv(e), id) = mine /\ id > last}
<1>1. S \in SUBSET LiveStreams(table[e])
  OBVIOUS
<1> HIDE DEF S
<1>2. Fits(CloseStreams(table[e], Srv(e), S), Srv(e), MaxOf(e))
  BY <1>1, Room, CloseStreamsFit
<1> QED
  BY <1>2 DEF CloseOnGoaway, S

LEMMA GoawayFits ==
  ASSUME Inv, TablesFit, NEW e \in Endpoints, SendGoaway(e) \/ RecvGoaway(e)
  PROVE  TablesFit'
<1>1. PICK last, mine : table' = [table EXCEPT ![e] = CloseOnGoaway(e, last, mine)]
  BY DEF SendGoaway, RecvGoaway, SetTable
<1> QED
  BY <1>1, CloseOnGoawayFits, OneTable

LEMMA SendRstFits == ASSUME Inv, TablesFit, NEW e \in Endpoints, SendRst(e) PROVE TablesFit'
<1> DEFINE f == Head(queue[e].syn)
           u == CloseStream(table[e], Srv(e), f.id)
<1>1. UNCHANGED table \/ table' = [table EXCEPT ![e] = u]
  BY DEF SendRst, SetTable
<1>2. f.id \in StreamIds
  BY Named DEF SendRst
<1>3. Fits(u, Srv(e), MaxOf(e))
  BY <1>2, Room, CloseStreamFit
<1> HIDE DEF u
<1> QED
  BY <1>1, <1>3, SameTables, OneTable

LEMMA SendDataFits ==
  ASSUME Inv, TablesFit, NEW e \in Endpoints, NEW id \in StreamIds, SendData(e, id) PROVE TablesFit'
<1> DEFINE d == Detach(table[e], id)
           w == ShutWr(d, id)
           u == CloseIfShut(w, Srv(e), id)
<1>1. table' = [table EXCEPT ![e] = d] \/ table' = [table EXCEPT ![e] = u]
  BY DEF SendData, SetTable
<1>2. Fits(d, Srv(e), MaxOf(e))
  BY Room, FlagsFit
<1> HIDE DEF d
<1>3. Fits(w, Srv(e), MaxOf(e))
  BY <1>2, Room, FlagsFit
<1> HIDE DEF w
<1>4. Fits(u, Srv(e), MaxOf(e))
  BY <1>3, Room, CloseStreamFit
<1> HIDE DEF u
<1> QED
  BY <1>1, <1>2, <1>4, OneTable

(* An accepted request finds room below the limit in force, which is the   *)
(* configured one whether or not the peer has acknowledged it, and the     *)
(* list is trimmed to what is left.                                        *)
LEMMA RecvRequestFits == ASSUME Inv, TablesFit, LimitsKept, RecvRequest PROVE TablesFit'
<1> DEFINE e == "server"
           f == Head(wire[e])
           t == table[e]
           c == [conn[e] EXCEPT !.lastRecv = f.id]
           max == IF c.localMax = NoLimit THEN c.pendingMax ELSE c.localMax
           o == OpenStream(t, TRUE, f.id, "OPENING")
           a == AdjustClosed(o, max)
           u == PeerEnded(a, TRUE, f.id, f.end)
           n == MaxOf(e)
<1>0. e \in Endpoints /\ Srv(e) = TRUE /\ Fits(t, TRUE, n) /\ n \in Int
  BY Ends, Room
<1>1. CASE UNCHANGED table
  BY <1>1, SameTables
<1>2. CASE ~AtPendingMax(t, c) /\ table' = [table EXCEPT ![e] = u]
  <2>1. f.id \in StreamIds /\ f.end \in BOOLEAN
    BY <1>0, Named DEF RecvRequest, Accepted
  <2>2. ~IsMine(TRUE, f.id) /\ conn[e].lastRecv < f.id
    BY <1>0 DEF RecvRequest, NewPeerId
  <2>3. ~Announced(e, conn[e], f.id)
    <3>1. conn[e].lastRecv \in Int /\ f.id \in Int
      BY <1>0, <2>1, Here DEF Conn, StreamIds
    <3>2. ~(f.id <= conn[e].lastRecv)
      BY <2>2, <3>1
    <3> QED
      BY <1>0, <2>2, <3>2 DEF Announced
  <2>4. Good(o, TRUE)
    BY <1>0, <2>1, <2>3, OpenFresh
  <2>5. c.pendingMax = n /\ c.localMax \in {NoLimit, n}
    <3>1. conn[e] \in Conn
      BY <1>0, Here
    <3>2. c.pendingMax = conn[e].pendingMax /\ c.localMax = conn[e].localMax
      BY <3>1 DEF Conn
    <3> QED
      BY <1>0, <3>2 DEF LimitsKept
  <2>6. max = n /\ ~(n <= t.in)
    <3> HIDE DEF c, n
    <3> QED
      BY <1>2, <2>5 DEF AtPendingMax
  <2> HIDE DEF max
  <2>7. Fits(a, TRUE, n)
    BY <1>0, <2>1, <2>2, <2>4, <2>6, AcceptFit
  <2> HIDE DEF e, f, t, c, o, a, n
  <2>8. Fits(u, TRUE, n)
    BY <1>0, <2>1, <2>7, PeerEndedFit
  <2> HIDE DEF u
  <2> QED
    BY <1>0, <1>2, <2>8, OneTable DEF n
<1> QED
  BY <1>1, <1>2 DEF RecvRequest, SetTable

LEMMA RecvResponseFits == ASSUME Inv, TablesFit, LimitsKept, RecvResponse PROVE TablesFit'
<1> DEFINE e == "client"
           f == Head(wire[e])
           t == table[e]
           n == MaxOf(e)
           S(u) == table' = [table EXCEPT ![e] = PeerEnded(u, FALSE, f.id, f.end)]
<1>0. e \in Endpoints /\ Srv(e) = FALSE /\ Fits(t, FALSE, n) /\ n \in Int
  BY Ends, Room
<1>1. f.id \in StreamIds /\ f.end \in BOOLEAN
  BY <1>0, Named DEF RecvResponse, Accepted
<1>2. CASE UNCHANGED table
  BY <1>2, SameTables
<1>3. CASE table' = [table EXCEPT ![e] = MarkClosing(t, f.id)]
  <2>1. Fits(MarkClosing(t, f.id), FALSE, n)
    BY <1>0, <1>1, MarkClosingFit
  <2> HIDE DEF f
  <2> QED
    BY <1>0, <1>3, <2>1, OneTable
<1>4. ASSUME NEW u, Fits(u, FALSE, n), S(u) PROVE TablesFit'
  <2>1. Fits(PeerEnded(u, FALSE, f.id, f.end), FALSE, n)
    BY <1>0, <1>1, <1>4, PeerEndedFit
  <2> HIDE DEF f
  <2> QED
    BY <1>0, <1>4, <2>1, OneTable
<1>5. ASSUME t.st[f.id] = "RESERVED", ~AtPendingMax(t, conn[e]), S(PromiseFulfilled(t, f.id)) PROVE TablesFit'
  <2>1. ~(n <= t.in)
    BY <1>0, <1>5 DEF AtPendingMax, LimitsKept
  <2>2. Fits(PromiseFulfilled(t, f.id), FALSE, n)
    BY <1>0, <1>1, <1>5, <2>1, FulfilledFit
  <2> HIDE DEF S, t, f
  <2> QED
    BY <1>4, <1>5, <2>2
<1>6. ASSUME t.st[f.id] \in {"OPENING", "OPENED"}, S(SetState(t, f.id, "OPENED")) PROVE TablesFit'
  <2>1. Live(t, f.id) /\ f.id \notin t.push
    BY <1>0, <1>6 DEF Live, Fits, Good, TableShape
  <2>2. Fits(SetState(t, f.id, "OPENED"), FALSE, n)
    BY <1>0, <1>1, <2>1, SetStateFit
  <2> HIDE DEF S, t, f
  <2> QED
    BY <1>4, <1>6, <2>2
<1>7. \/ UNCHANGED table
      \/ table' = [table EXCEPT ![e] = MarkClosing(t, f.id)]
      \/ t.st[f.id] = "RESERVED" /\ ~AtPendingMax(t, conn[e]) /\ S(PromiseFulfilled(t, f.id))
      \/ t.st[f.id] \in {"OPENING", "OPENED"} /\ S(SetState(t, f.id, "OPENED"))
  BY DEF RecvResponse, SetTable
<1> HIDE DEF S
<1> QED
  BY <1>2, <1>3, <1>5, <1>6, <1>7

LEMMA RecvDataFits == ASSUME Inv, TablesFit, NEW e \in Endpoints, RecvData(e) PROVE TablesFit'
<1> DEFINE f == Head(wire[e])
           u == PeerEnded(table[e], Srv(e), f.id, f.end)
<1>1. UNCHANGED table \/ table' = [table EXCEPT ![e] = u]
  BY DEF RecvData, SetTable
<1>2. f.id \in StreamIds /\ f.end \in BOOLEAN
  BY Named DEF RecvData, Accepted
<1>3. Fits(u, Srv(e), MaxOf(e))
  BY <1>2, Room, PeerEndedFit
<1> HIDE DEF u
<1> QED
  BY <1>1, <1>3, SameTables, OneTable

(* A promise a client accepts is reserved, it does not count yet. *)
LEMMA RecvPromiseFits == ASSUME Inv, TablesFit, RecvPromise PROVE TablesFit'
<1> DEFINE e == "client"
           f == Head(wire[e])
           u == OpenStream(table[e], FALSE, f.arg, "RESERVED")
<1>0. e \in Endpoints /\ Srv(e) = FALSE
  BY Ends
<1>1. CASE UNCHANGED table
  BY <1>1, SameTables
<1>2. CASE AllowIncoming(conn[e]) /\ table' = [table EXCEPT ![e] = u]
  <2>1. Arrives(e, "PUSH_PROMISE") /\ ErrorOf(e, f) = "none"
    BY DEF RecvPromise, Accepted
  <2>2. f.type = "PUSH_PROMISE" /\ f \in FramesTo(e) /\ f.arg \in StreamIds /\ IsMine(TRUE, f.arg)
    <3>1. f.type = "PUSH_PROMISE" /\ f \in FramesTo(e)
      BY <1>0, <2>1, WireOps, Here
    <3> HIDE DEF e, f
    <3> QED
      BY <1>0, <3>1, FrameFacts
  <2>3. ~IsMine(FALSE, f.arg) /\ conn[e].lastRecv < f.arg
    <3>1. PromiseError(e, f.id, f.arg) = "none"
      <4> HIDE DEF e, f
      <4> QED
        BY <2>1, <2>2 DEF ErrorOf
    <3> HIDE DEF e, f
    <3> QED
      BY <1>0, <1>2, <3>1 DEF PromiseError, NewPeerId
  <2>4. ~Announced(e, conn[e], f.arg)
    <3>1. conn[e].lastRecv \in Int /\ f.arg \in Int
      BY <1>0, <2>2, Here DEF Conn, StreamIds
    <3>2. ~(f.arg <= conn[e].lastRecv)
      BY <2>3, <3>1
    <3> QED
      BY <1>0, <2>3, <3>2 DEF Announced
  <2>5. Good(u, FALSE)
    BY <1>0, <2>2, <2>4, OpenFresh
  <2>6. Fits(u, FALSE, MaxOf(e))
    BY <1>0, <2>2, <2>5, Room, OpenOwnFit
  <2> HIDE DEF e, f, u
  <2> QED
    BY <1>0, <1>2, <2>6, OneTable
<1> QED
  BY <1>1, <1>2 DEF RecvPromise, SetTable

LEMMA RecvRstFits == ASSUME Inv, TablesFit, NEW e \in Endpoints, RecvRst(e) PROVE TablesFit'
<1> DEFINE f == Head(wire[e])
           t == IF Live(table[e], f.id) THEN ShutRd(table[e], f.id) ELSE table[e]
           u == CloseStream(t, Srv(e), f.id)
<1>1. table' = [table EXCEPT ![e] = u]
  BY DEF RecvRst, SetTable
<1>2. f.id \in StreamIds
  BY Named DEF RecvRst, Accepted
<1>3. Fits(t, Srv(e), MaxOf(e))
  BY <1>2, Room, FlagsFit
<1> HIDE DEF t
<1>4. Fits(u, Srv(e), MaxOf(e))
  BY <1>2, <1>3, Room, CloseStreamFit
<1> HIDE DEF u
<1> QED
  BY <1>1, <1>4, OneTable

-----------------------------------------------------------------------------
(* The limit in force                                                      *)

(* No step changes a limit but the acknowledgement of SETTINGS. *)
LEMMA LimitsStep == ASSUME Inv, LimitsKept, [Next]_vars PROVE LimitsKept'
<1>1. ASSUME NEW e \in Endpoints, NEW d, conn' = [conn EXCEPT ![e] = d], d.pendingMax = MaxOf(e),
             d.localMax \in {conn[e].localMax, MaxOf(e)}
      PROVE  LimitsKept'
  <2>1. conn \in [Endpoints -> Conn]
    BY DEF Inv, TypeOK
  <2>2. conn'[e] = d /\ \A x \in Endpoints : x # e => conn'[x] = conn[x]
    BY <1>1, <2>1
  <2> QED
    BY <1>1, <2>2 DEF LimitsKept
<1>2. ASSUME UNCHANGED conn PROVE LimitsKept'
  BY <1>2 DEF LimitsKept
<1>3. ASSUME NEW e \in Endpoints, NEW d, conn' = [conn EXCEPT ![e] = d],
             d.pendingMax = conn[e].pendingMax, d.localMax = conn[e].localMax
      PROVE  LimitsKept'
  BY <1>1, <1>3 DEF LimitsKept
<1>4. \A e \in Endpoints : conn[e] \in Conn
  BY Here
<1>5. ASSUME NEW e \in Endpoints, NEW c, NEW why, Terminate(e, c, why),
             c.pendingMax = conn[e].pendingMax, c.localMax = conn[e].localMax, c \in Conn
      PROVE  LimitsKept'
  <2>1. CASE conn' = [conn EXCEPT ![e] = c]
    BY <1>3, <1>5, <2>1
  <2>2. CASE conn' = [conn EXCEPT ![e] = [c EXCEPT !.goaway = c.goaway \cup {"TERM_ON_SEND"}, !.err = why]]
    <3> DEFINE d == [c EXCEPT !.goaway = c.goaway \cup {"TERM_ON_SEND"}, !.err = why]
    <3>1. d.pendingMax = c.pendingMax /\ d.localMax = c.localMax
      BY <1>5 DEF Conn
    <3> HIDE DEF d
    <3> QED
      BY <1>3, <1>5, <2>2, <3>1 DEF d
  <2> QED
    BY <1>5, <2>1, <2>2 DEF Terminate, SetConn
<1>6. ASSUME NEW e \in Endpoints, Submit(e) PROVE LimitsKept'
  <2>1. CASE e = "client" /\ SubmitRequest
    <3> DEFINE d == [conn[e] EXCEPT !.nextId = conn[e].nextId + 2]
    <3>1. conn' = [conn EXCEPT ![e] = d]
      BY <2>1 DEF SubmitRequest, SetConn
    <3>2. d.pendingMax = conn[e].pendingMax /\ d.localMax = conn[e].localMax
      BY <1>4 DEF Conn
    <3> HIDE DEF d
    <3> QED
      BY <1>3, <3>1, <3>2
  <2>2. CASE \E id \in StreamIds : e = "server" /\ SubmitPush(id)
    <3> DEFINE d == [conn[e] EXCEPT !.nextId = conn[e].nextId + 2]
    <3>1. conn' = [conn EXCEPT ![e] = d]
      BY <2>2 DEF SubmitPush, SetConn
    <3>2. d.pendingMax = conn[e].pendingMax /\ d.localMax = conn[e].localMax
      BY <1>4 DEF Conn
    <3> HIDE DEF d
    <3> QED
      BY <1>3, <3>1, <3>2
  <2>3. CASE \E id \in StreamIds, end \in BOOLEAN : e = "server" /\ SubmitResponse(id, end)
    BY <1>2, <2>3 DEF SubmitResponse
  <2>4. CASE \E id \in StreamIds : SubmitRst(e, id)
    <3> DEFINE d == [conn[e] EXCEPT !.abort = "ob_syn holds HEADERS"]
    <3>1. UNCHANGED conn \/ conn' = [conn EXCEPT ![e] = d]
      BY <2>4 DEF SubmitRst, SetConn
    <3>2. d.pendingMax = conn[e].pendingMax /\ d.localMax = conn[e].localMax
      BY <1>4 DEF Conn
    <3> HIDE DEF d
    <3> QED
      BY <1>2, <1>3, <3>1, <3>2
  <2>5. CASE SubmitTerminate(e)
    BY <1>4, <1>5, <2>5 DEF SubmitTerminate
  <2>6. CASE SubmitGoaway(e)
    BY <1>2, <2>6 DEF SubmitGoaway
  <2> QED
    BY <1>6, <2>1, <2>2, <2>3, <2>4, <2>5, <2>6 DEF Submit
<1>7. ASSUME NEW e \in Endpoints, Send(e) PROVE LimitsKept'
  <2>1. CASE SendSettings(e) \/ SendRst(e) \/ (e = "server" /\ SendResponse) \/ \E id \in StreamIds : SendData(e, id)
    BY <1>2, <2>1 DEF SendSettings, SendRst, SendResponse, SendData
  <2>2. CASE e = "client" /\ SendRequest
    <3> DEFINE c == [conn[e] EXCEPT !.abort = "stream ids increase"]
               d == [conn[e] EXCEPT !.lastSent = NextReg(e).id]
    <3>1. UNCHANGED conn \/ conn' = [conn EXCEPT ![e] = c] \/ conn' = [conn EXCEPT ![e] = d]
      BY <2>2 DEF SendRequest, SetConn
    <3>2. /\ c.pendingMax = conn[e].pendingMax /\ c.localMax = conn[e].localMax
          /\ d.pendingMax = conn[e].pendingMax /\ d.localMax = conn[e].localMax
      BY <1>4 DEF Conn
    <3> HIDE DEF c, d
    <3> QED
      BY <1>2, <1>3, <3>1, <3>2
  <2>3. CASE e = "server" /\ SendPromise
    <3> DEFINE c == [conn[e] EXCEPT !.abort = "stream ids increase"]
               d == [conn[e] EXCEPT !.lastSent = NextReg(e).arg]
    <3>1. UNCHANGED conn \/ conn' = [conn EXCEPT ![e] = c] \/ conn' = [conn EXCEPT ![e] = d]
      BY <2>3 DEF SendPromise, SetConn
    <3>2. /\ c.pendingMax = conn[e].pendingMax /\ c.localMax = conn[e].localMax
          /\ d.pendingMax = conn[e].pendingMax /\ d.localMax = conn[e].localMax
      BY <1>4 DEF Conn
    <3> HIDE DEF c, d
    <3> QED
      BY <1>2, <1>3, <3>1, <3>2
  <2>4. CASE SendGoaway(e)
    <3> DEFINE f == NextReg(e)
               g == conn[e].goaway \cup {"SENT"} \cup (IF f.end THEN {"TERM_SENT"} ELSE {})
               d == [conn[e] EXCEPT !.localLast = f.arg, !.goaway = g]
    <3>1. conn' = [conn EXCEPT ![e] = d]
      BY <2>4 DEF SendGoaway, SetConn
    <3>2. d.pendingMax = conn[e].pendingMax /\ d.localMax = conn[e].localMax
      BY <1>4 DEF Conn
    <3> HIDE DEF d
    <3> QED
      BY <1>3, <3>1, <3>2
  <2> QED
    BY <1>7, <2>1, <2>2, <2>3, <2>4 DEF Send
<1>8. ASSUME NEW e \in Endpoints, Recv(e) PROVE LimitsKept'
  <2>1. CASE RecvData(e) \/ RecvRst(e) \/ (e = "client" /\ RecvResponse)
    BY <1>2, <2>1 DEF RecvData, RecvRst, RecvResponse
  <2>2. CASE RecvInvalid(e)
    <3> DEFINE f == Head(wire[e])
               c == IF ErrorOf(e, f) = "max concurrent streams exceeded" /\ NewPeerId(e, f.id)
                    THEN [conn[e] EXCEPT !.lastRecv = f.id] ELSE conn[e]
    <3>1. Terminate(e, c, ErrorOf(e, f))
      BY <2>2 DEF RecvInvalid
    <3>2. f \in FramesTo(e)
      <4>1. Arrives(e, f.type)
        BY <2>2 DEF RecvInvalid
      <4> QED
        BY <4>1, WireOps, Here
    <3>3. ErrorOf(e, f) = "max concurrent streams exceeded" => f.id \in StreamIds
      <4> HIDE DEF f
      <4> QED
        BY <3>2, ErrorKinds, FrameFacts
    <3>4. c \in Conn
      <4> HIDE DEF f
      <4>1. conn[e] \in Conn
        BY <1>4
      <4>2. ErrorOf(e, f) = "max concurrent streams exceeded" /\ NewPeerId(e, f.id)
              => [conn[e] EXCEPT !.lastRecv = f.id] \in Conn
        BY <3>3, <4>1, ConnOps DEF NewPeerId
      <4> QED
        BY <4>1, <4>2
    <3>5. c.pendingMax = conn[e].pendingMax /\ c.localMax = conn[e].localMax
      BY <1>4 DEF Conn
    <3> HIDE DEF c, f
    <3> QED
      BY <1>5, <3>1, <3>4, <3>5
  <2>3. CASE e = "server" /\ RecvRequest
    <3> DEFINE c == [conn[e] EXCEPT !.lastRecv = Head(wire[e]).id]
               d == [c EXCEPT !.lastProc = Head(wire[e]).id]
    <3>1. UNCHANGED conn \/ conn' = [conn EXCEPT ![e] = c] \/ conn' = [conn EXCEPT ![e] = d]
      BY <2>3 DEF RecvRequest, SetConn
    <3>2. /\ c.pendingMax = conn[e].pendingMax /\ c.localMax = conn[e].localMax
          /\ d.pendingMax = conn[e].pendingMax /\ d.localMax = conn[e].localMax
      BY <1>4 DEF Conn
    <3> HIDE DEF c, d
    <3> QED
      BY <1>2, <1>3, <3>1, <3>2
  <2>4. CASE e = "client" /\ RecvPromise
    <3> DEFINE c == [conn[e] EXCEPT !.lastRecv = Head(wire[e]).arg]
               d == [conn[e] EXCEPT !.lastRecv = Head(wire[e]).arg, !.lastProc = Head(wire[e]).arg]
    <3>1. UNCHANGED conn \/ conn' = [conn EXCEPT ![e] = c] \/ conn' = [conn EXCEPT ![e] = d]
      BY <2>4 DEF RecvPromise, SetConn
    <3>2. /\ c.pendingMax = conn[e].pendingMax /\ c.localMax = conn[e].localMax
          /\ d.pendingMax = conn[e].pendingMax /\ d.localMax = conn[e].localMax
      BY <1>4 DEF Conn
    <3> HIDE DEF c, d
    <3> QED
      BY <1>2, <1>3, <3>1, <3>2
  <2>5. CASE RecvSettings(e)
    <3> DEFINE d == [conn[e] EXCEPT !.remoteMax = Head(wire[e]).arg]
    <3>1. conn' = [conn EXCEPT ![e] = d]
      BY <2>5 DEF RecvSettings, SetConn
    <3>2. d.pendingMax = conn[e].pendingMax /\ d.localMax = conn[e].localMax
      BY <1>4 DEF Conn
    <3> HIDE DEF d
    <3> QED
      BY <1>3, <3>1, <3>2
  <2>6. CASE RecvSettingsAck(e)
    <3> DEFINE d == [conn[e] EXCEPT !.localMax = MaxOf(e), !.pendingMax = MaxOf(e)]
    <3>1. conn' = [conn EXCEPT ![e] = d]
      BY <2>6 DEF RecvSettingsAck, SetConn
    <3>2. d.pendingMax = MaxOf(e) /\ d.localMax = MaxOf(e)
      BY <1>4 DEF Conn
    <3> HIDE DEF d
    <3> QED
      BY <1>1, <3>1, <3>2
  <2>7. CASE RecvGoaway(e)
    <3> DEFINE d == [conn[e] EXCEPT !.goaway = conn[e].goaway \cup {"RECV"}, !.remoteLast = Head(wire[e]).arg]
    <3>1. conn' = [conn EXCEPT ![e] = d]
      BY <2>7 DEF RecvGoaway, SetConn
    <3>2. d.pendingMax = conn[e].pendingMax /\ d.localMax = conn[e].localMax
      BY <1>4 DEF Conn
    <3> HIDE DEF d
    <3> QED
      BY <1>3, <3>1, <3>2
  <2> QED
    BY <1>8, <2>1, <2>2, <2>3, <2>4, <2>5, <2>6, <2>7 DEF Recv
<1>9. ASSUME NEW e \in Endpoints, Drop(e) PROVE LimitsKept'
  <2> DEFINE d == [conn[e] EXCEPT !.up = FALSE]
  <2>1. conn' = [conn EXCEPT ![e] = d]
    BY <1>9 DEF Drop, SetConn
  <2>2. d.pendingMax = conn[e].pendingMax /\ d.localMax = conn[e].localMax
    BY <1>4 DEF Conn
  <2> HIDE DEF d
  <2> QED
    BY <1>3, <2>1, <2>2
<1>10. CASE UNCHANGED vars
  BY <1>2, <1>10 DEF vars
<1> QED
  BY <1>6, <1>7, <1>8, <1>9, <1>10 DEF Next

-----------------------------------------------------------------------------
(* The theorem                                                             *)

LEMMA TablesStep == ASSUME Inv, TablesFit, LimitsKept, [Next]_vars PROVE TablesFit'
<1>1. ASSUME NEW e \in Endpoints, Submit(e) PROVE TablesFit'
  <2>1. Inv'
    BY <1>1, NextInv DEF Next
  <2> QED
    BY <1>1, <2>1, OtherStepsFit, SubmitPushFits, SubmitRstFits DEF Submit
<1>2. ASSUME NEW e \in Endpoints, Send(e) PROVE TablesFit'
  BY <1>2, OtherStepsFit, SendRequestFits, SendResponseFits, SendPromiseFits, GoawayFits,
     SendRstFits, SendDataFits DEF Send
<1>3. ASSUME NEW e \in Endpoints, Recv(e) PROVE TablesFit'
  BY <1>3, OtherStepsFit, RecvRequestFits, RecvResponseFits, RecvDataFits, RecvPromiseFits,
     RecvRstFits, GoawayFits DEF Recv
<1>4. ASSUME NEW e \in Endpoints, Drop(e) PROVE TablesFit'
  BY <1>4, OtherStepsFit
<1>5. CASE UNCHANGED vars
  BY <1>5, SameTables DEF vars
<1> QED
  BY <1>1, <1>2, <1>3, <1>4, <1>5 DEF Next

LEMMA InitRoom == Init => TablesFit /\ LimitsKept
<1> SUFFICES ASSUME Init PROVE TablesFit /\ LimitsKept
  OBVIOUS
<1>1. ASSUME NEW e \in Endpoints PROVE Fits(EmptyTable, Srv(e), MaxOf(e))
  <2>1. MaxOf(e) \in Nat
    BY SessionAssumption DEF MaxOf
  <2>2. EmptyTable.kept = << >> /\ EmptyTable.in = 0 /\ EmptyTable.push = {}
    BY DEF EmptyTable
  <2> QED
    BY <2>1, <2>2, EmptyTableGood DEF Fits
<1>2. TablesFit
  BY <1>1 DEF Init, TablesFit
<1>3. LimitsKept
  BY DEF Init, LimitsKept
<1> QED
  BY <1>2, <1>3

(* Kept and running streams together never exceed                          *)
(* SETTINGS_MAX_CONCURRENT_STREAMS at either end, in every interleaving    *)
(* and whatever the limits are: nghttp2_session_close_stream may fill the  *)
(* list without trimming it.                                               *)
THEOREM RetentionBounded == Spec => []RetainedWithinLimit
<1>1. Inv /\ TablesFit /\ LimitsKept /\ [Next]_vars => (Inv /\ TablesFit /\ LimitsKept)'
  BY NextInv, TablesStep, LimitsStep
<1>2. Init => Inv /\ TablesFit /\ LimitsKept
  BY InitInv, InitRoom
<1>3. TablesFit /\ LimitsKept => RetainedWithinLimit
  BY DEF TablesFit, LimitsKept, Fits, RetainedWithinLimit
<1> QED
  BY <1>1, <1>2, <1>3, PTL DEF Spec
=============================================================================
