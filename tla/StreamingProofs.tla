--------------------------- MODULE StreamingProofs ---------------------------
(***************************************************************************)
(* The server and the client of module Streaming use the library only as   *)
(* module Session allows: what is proved of two sessions holds of them.    *)
(***************************************************************************)
EXTENDS Streaming, SessionProofs

(* What the close callback of a push captured is 0 or a request's stream.  *)
ParentsOK ==
  /\ DOMAIN server = {"seg", "others", "read", "res", "parent", "pushed", "freed"}
  /\ server = [k \in DOMAIN server |-> server[k]]
  /\ server.parent \in [StreamIds -> StreamIds \cup {0}]

LEMMA InitParents == StreamingInit => ParentsOK
<1> SUFFICES ASSUME StreamingInit PROVE ParentsOK
  OBVIOUS
<1>1. server = [seg |-> 0, others |-> 0, read |-> -1,
                res |-> [id \in StreamIds |-> "NONE"], parent |-> [id \in StreamIds |-> 0],
                pushed |-> << >>, freed |-> FALSE]
  BY DEF StreamingInit
<1>2. server.parent = [id \in StreamIds |-> 0]
  BY <1>1
<1>3. DOMAIN server = {"seg", "others", "read", "res", "parent", "pushed", "freed"}
  BY <1>1
<1>4. server = [k \in DOMAIN server |-> server[k]]
  BY <1>1
<1>5. server.parent \in [StreamIds -> StreamIds \cup {0}]
  BY <1>2
<1> QED
  BY <1>3, <1>4, <1>5 DEF ParentsOK

LEMMA LibraryParents ==
  ASSUME ParentsOK, UNCHANGED server
  PROVE  ParentsOK'
BY DEF ParentsOK

LEMMA ServerCallbackParents ==
  ASSUME ParentsOK, NEW id \in StreamIds, ServerCallback(id)
  PROVE  ParentsOK'
<1>1. CASE ReqVod(id)
  <2>1. CASE server' = [server EXCEPT !.res[id] = "INITIAL"]
    BY <2>1 DEF ParentsOK
  <2>2. CASE server' = [server EXCEPT
                 !.res    = [@ EXCEPT ![id] = "INITIAL", ![conn["server"].nextId] = "BODY_STARTED"],
                 !.parent[conn["server"].nextId] = id,
                 !.pushed = Append(@, server.seg + 1)]
    BY <2>2 DEF ParentsOK
  <2> QED
    BY <1>1, <2>1, <2>2 DEF ReqVod
<1>2. CASE PromiseSent(id)
  BY <1>2, LibraryParents DEF PromiseSent
<1>3. CASE PushClosed(id)
  <2> DEFINE parent == server.parent[id]
             res    == [server.res EXCEPT ![id] = "NONE"]
             after  == [server EXCEPT !.seg = Counted(@, log["server"].why[id] = "NO_ERROR"),
                                      !.res = res]
  <2>1. CASE server' = [after EXCEPT !.res[parent] = "BODY_STARTED"]
    BY <2>1 DEF ParentsOK
  <2>2. CASE server' = [after EXCEPT !.freed = @ \/ server.res[parent] = "NONE"]
    BY <2>2 DEF ParentsOK
  <2> QED
    BY <1>3, <2>1, <2>2 DEF PushClosed
<1>4. CASE AnswerClosed(id)
  BY <1>4 DEF AnswerClosed, ParentsOK
<1> QED
  BY <1>1, <1>2, <1>3, <1>4 DEF ServerCallback

LEMMA NextParents == ParentsOK /\ [StreamingNext]_allVars => ParentsOK'
<1> SUFFICES ASSUME ParentsOK, [StreamingNext]_allVars PROVE ParentsOK'
  OBVIOUS
<1>1. CASE UNCHANGED allVars
  BY <1>1, LibraryParents DEF allVars
<1>2. CASE Start
  BY <1>2, LibraryParents DEF Start
<1>3. CASE OtherReads
  BY <1>3 DEF OtherReads, ParentsOK
<1>4. CASE OtherWrites
  BY <1>4 DEF OtherWrites, ParentsOK
<1>5. ASSUME NEW e \in Endpoints, Library(e) PROVE ParentsOK'
  BY <1>5, LibraryParents DEF Library
<1>6. ASSUME NEW id \in StreamIds, ServerCallback(id) PROVE ParentsOK'
  BY <1>6, ServerCallbackParents
<1>7. ASSUME NEW id \in StreamIds, ClientCallback(id) PROVE ParentsOK'
  BY <1>7, LibraryParents DEF ClientCallback, PromiseBegins, SegmentClosed, RequestClosed
<1> QED
  BY <1>1, <1>2, <1>3, <1>4, <1>5, <1>6, <1>7 DEF StreamingNext

(* A callback of the server makes at most one call of the library.         *)
LEMMA ServerCallbackStep ==
  ASSUME ParentsOK, NEW id \in StreamIds, ServerCallback(id)
  PROVE  [Next]_vars
<1>1. CASE ReqVod(id)
  <2>1. SubmitPush(id) \/ UNCHANGED vars
    BY <1>1 DEF ReqVod
  <2> QED
    BY <2>1 DEF Next, Submit, Endpoints
<1>2. CASE PromiseSent(id)
  <2>1. SubmitResponse(id, FALSE) \/ UNCHANGED vars
    BY <1>2 DEF PromiseSent
  <2> QED
    BY <2>1 DEF Next, Submit, Endpoints
<1>3. CASE PushClosed(id)
  <2> DEFINE parent == server.parent[id]
  <2>1. parent \in StreamIds
    BY <1>3 DEF PushClosed, ParentsOK
  <2>2. SubmitResponse(parent, FALSE) \/ UNCHANGED vars
    BY <1>3 DEF PushClosed
  <2> HIDE DEF parent
  <2> QED
    BY <2>1, <2>2 DEF Next, Submit, Endpoints
<1>4. CASE AnswerClosed(id)
  BY <1>4 DEF AnswerClosed
<1> QED
  BY <1>1, <1>2, <1>3, <1>4 DEF ServerCallback

(* So does a callback of the client.                                       *)
LEMMA ClientCallbackStep ==
  ASSUME NEW id \in StreamIds, ClientCallback(id)
  PROVE  [Next]_vars
<1>1. SubmitRequest \/ SubmitTerminate("client") \/ UNCHANGED vars
  BY DEF ClientCallback, PromiseBegins, SegmentClosed, RequestClosed, TerminateIf
<1> QED
  BY <1>1 DEF Next, Submit, Endpoints

LEMMA StreamingStep == ParentsOK /\ [StreamingNext]_allVars => [Next]_vars
<1> SUFFICES ASSUME ParentsOK, [StreamingNext]_allVars PROVE [Next]_vars
  OBVIOUS
<1>1. CASE UNCHANGED allVars
  BY <1>1 DEF allVars
<1>2. CASE Start
  BY <1>2 DEF Start, Next, Submit, Endpoints
<1>3. CASE OtherReads \/ OtherWrites
  BY <1>3 DEF OtherReads, OtherWrites
<1>4. ASSUME NEW e \in Endpoints, Library(e) PROVE [Next]_vars
  BY <1>4 DEF Library, Next
<1>5. ASSUME NEW id \in StreamIds, ServerCallback(id) PROVE [Next]_vars
  BY <1>5, ServerCallbackStep
<1>6. ASSUME NEW id \in StreamIds, ClientCallback(id) PROVE [Next]_vars
  BY <1>6, ClientCallbackStep
<1> QED
  BY <1>1, <1>2, <1>3, <1>4, <1>5, <1>6 DEF StreamingNext

(* The push server and the adaptive client drive the library as an         *)
(* application may: every behaviour of the composition, whatever the       *)
(* other viewers do, is one of the two sessions.                           *)
THEOREM StreamingUsesSession == StreamingSpec => Spec
<1>1. StreamingInit => Init
  BY DEF StreamingInit
<1> QED
  BY <1>1, InitParents, NextParents, StreamingStep, PTL DEF StreamingSpec, Spec

(* Hence the stream counters of the streaming system are exact as well.    *)
THEOREM StreamingCounters == StreamingSpec => []CountersExact
BY StreamingUsesSession, CountersCorrect, PTL
=============================================================================
