# Verification of HTTPStreaming

TLA+ models, TLC runs and TLAPS proofs for the adaptive streaming system in
this repository: a push server (`testbed/Server/server_KPush.cpp`), adaptive
clients (`testbed/Proposed.cc`, `BOLA.cc`, `FESTIVE.cc`, `PANDA.cc`,
`Conventional.cpp`, each built as nghttp2's `nghttp`), and the HTTP/2 library
both run on, a modified libnghttp2 (`testbed/nghttp2/lib`, the copies of
`nghttp2_session.c` elsewhere in the tree are the same file).

## 1. Inventory

| Component | State | Operations | Talks to |
|---|---|---|---|
| libnghttp2 stream table (`nghttp2_session.c`, `nghttp2_stream.c`) | stream map, states, shutdown flags, DATA item, counters of outgoing, incoming and reserved streams, list of closed streams | open, attach, detach, shut, close, destroy, keep, trim | the session, by direct calls |
| libnghttp2 session (`nghttp2_session.c`, `nghttp2_submit.c`) | queues `ob_urgent`, `ob_reg`, `ob_syn`; stream ids; GOAWAY flags; local and remote settings | submit functions, `mem_send` (one item at a time: pop, prepare, after-sent), `mem_recv` (one handler per frame type), `want_read`, `want_write` | the peer session by frames, the application by callbacks that run inside send and receive |
| libnghttp2 flow control (`nghttp2_helper.c` and its users) | send and receive windows per stream and connection, pending reduction, consumed bytes, `window_update_queued` | receive DATA, consume, grant, resize, set a window, defer, resume | the session |
| libnghttp2 priority tree (`nghttp2_stream.c`, `nghttp2_pq.c`) | dependency tree, weights, one queue per node with its cycles, idle anchors, closed streams that are kept | insert, remove and move streams and subtrees, change weight; attach, defer, reschedule, detach an item; next item | the session |
| libnghttp2 header compression (`nghttp2_hd.c`) | dynamic tables of both ends, the deflater's hash map, pending size changes | deflate and inflate a block, change the table size | frame preparation and reception |
| asio server (`asio_server_http2_handler.cc`, `asio_server_response_impl.cc`, `asio_server_connection.h`) | stream objects, response state, push flags, read and write state of the socket | request, promise sent, close, not-sent callbacks; `push`, `write_head`, `end` | the library and the request handlers |
| push server (`server_KPush.cpp`) | `server_seg`, `on_steady_stage`, start time: globals shared by ten threads | `/req_vod/`, `/rebuff/`, `/reset_session`, the close callback of a push | asio server |
| adaptive client, protocol (`Proposed.cc`) | request list, `complete`, `dang_seg_index` | `connection_made`, promise and close callbacks, `hung_KPush_method`, terminate | the library |
| adaptive client, control (the five players) | samples and estimates of throughput, buffer level, chosen rate, pause or delay | measure, smooth, choose a rate, set the inter-request time, record the buffer | the protocol part |
| `topology.py`, nghttpx, nghttpd, h2load, asio client, Python bindings, tests, documents | | | outside the models, see section 9 |

What the repository changed in the library: `RST_STREAM` moved from `ob_reg`
to `ob_syn` and all `HEADERS` from `ob_syn` to `ob_reg`
(`nghttp2_session_add_item`, 849-888), and `hung_terminate_immediately`, a
`static int` with value 1, guards marking a reset stream as closing. The first
change is behind two of the findings.

What is hard: frames of both ends cross; the submit functions run at any
moment between the library's sends; the order in three queues differs from the
order of submission; counters and windows are moved by hand in a dozen places;
refusals, GOAWAY and SETTINGS take effect at different times at the two ends;
two compression tables must change in step although they change at different
times; a response is sent only if the path from its stream to the root of the
tree is queued at every node; the server's close callback uses a raw pointer
into another stream; one global names the segments of all viewers; the client's
sequencing relies on the order in which two streams close; its filters multiply
by measured time. Every hazard with its line is in `PROJECT.json`.

What makes each component correct:
- stream table: the counters equal the streams they stand for, kept streams
  stay within the limit, no identifier is opened twice;
- session: two sessions of this library never bring each other to a connection
  error or a failed assertion; nothing follows the end of a stream; a clean
  close is a complete response; a refusal means the request was not processed;
  the two ends agree when nothing is under way; every stream ends;
- flow control: credit is neither lost nor invented, DATA that was allowed is
  never refused, nothing is granted that was not consumed, a window that opens
  wakes its stream, every response ends;
- priority: the tree stays a tree, exactly the streams with something to send
  below them are queued, no item is stuck in a closed stream, siblings take turns;
- header compression: both ends hold the same table whenever nothing is under way to the receiver,
  and blocks arrive unchanged and in order;
- server: a response outlives the callback that writes to it, every stream
  object is erased, segments are named in order while nobody else moves the counter;
- client: one segment at a time, each measured before the next is requested,
  termination after the last and only then;
- control: the buffer stays near its target, the pause is bounded, the rate is
  one of the set and rises only when a measurement carries it.

## 2. Modules

| Module | Models | Uses |
|---|---|---|
| `StreamTable` | the stream map of one session as a value; each operator returns the table the C function leaves | |
| `Session` | two sessions, a client's and a server's, on one connection | EXTENDS `StreamTable` |
| `SessionProperties`, `MCSession` | the properties of the two sessions; the module the session runs check | EXTENDS `Session` |
| `SegmentFetch` | the abstract specification: what a player needs of the system below it | |
| `Streaming` | asio server, push server and adaptive client on the two sessions | EXTENDS `SessionProperties`, INSTANCE `SegmentFetch` |
| `AbrClient`, `MCAbr` | rate adaptation and buffer control of the five players, with their properties | |
| `Window` | the receive side of one flow control window, as a value | |
| `FlowControl` | a receiver and a sender with the windows of a connection and its streams | EXTENDS `Window` |
| `FlowProperties`, `MCFlow` | the properties, with the account of the credit under way | EXTEND `FlowControl` |
| `HpackTable` | the dynamic table: ring, hash map, eviction, choice of a representation | |
| `Hpack` | a deflater and an inflater with SETTINGS_HEADER_TABLE_SIZE between them | EXTENDS `HpackTable` |
| `HeaderStream` | the abstract specification of header compression: a FIFO of blocks | |
| `HpackProperties`, `MCHpack` | the properties and the refinement | EXTENDS `Hpack`, INSTANCE `HeaderStream` |
| `DependencyTree` | the dependency tree and its queues, as operators on a tree | |
| `PriorityTree`, `PriorityProperties` | the streams of a server that open, answer and close while the client rearranges the tree; the properties | EXTENDS `DependencyTree` |
| `SessionProofs`, `EndProofs`, `VerdictProofs`, `QuietProofs`, `StreamingProofs`, `AbrProofs`, `FlowProofs`, `HpackProofs` | theorems, section 5 | EXTEND the modules they are about, and TLAPS |

### `Session`

`table[e]` is the stream map of session e; `queue[e]` its three outbound queues;
`conn[e]` the rest of `struct nghttp2_session`; `wire[e]` the frames on their way
to e, a reliable FIFO as TCP gives; `log` what the applications saw and did,
which the library does not keep.

An application call (`SubmitRequest`, `SubmitPush`, `SubmitResponse`, `SubmitRst`,
`SubmitTerminate`, `SubmitGoaway`) is one action and may come at any moment at
which its thread runs. Sending is one action per item taken from the queues by
`nghttp2_session_pop_next_ob_item`: the preparation with its predicates
(`session_prep_frame`), the failure path with the callback the asio server
installs for it, and `session_after_frame_sent1`. Receiving is one action per
frame: the handler of its type, or `RecvInvalid` when the handler would end the
session with a connection error; the order of the checks is that of the code.
`Drop` is what both event loops do when the session neither wants to read nor to
write, or the peer is gone.

Abstractions, each with the reason it is harmless for the properties: a response
has one DATA frame or none (the properties speak of its end); requests have no
body and there are no trailers (the clients of the repository send none);
the choice among streams with DATA is free (a superset of what the priority tree
does, which has a model of its own); windows never block (`FlowControl`); push is
enabled (the client's default); no frame is malformed (the peer is this
library). `assert` failures are recorded in `conn[e].abort` and end that process.

### `Streaming`

A step of the library also determines the callbacks it makes; `todo[e]` holds
them, and e takes no other library step until they have run, as callbacks run
inside `nghttp2_session_mem_recv` and `mem_send`. `ReqVod` is the whole handler
of `/req_vod/`, `PushClosed` the close callback of the push, `PromiseSent` and
`AnswerClosed` the callbacks of the asio server; `Start`, `PromiseBegins`,
`SegmentClosed` and `RequestClosed` are the client's `connection_made`,
`on_begin_headers_callback` and `on_stream_close_callback`. Other viewers appear
as `OtherReads` and `OtherWrites`, the two halves of the unlocked increment of
`server_seg` in another thread. Delays, rates and throughput are left out: a
sleep in a callback only postpones the steps of that process, which the
interleaving allows anyway.

### `AbrClient`

What `Streaming` leaves out. A segment is two actions: the push closes
(`PacedPushClosed` or `DelayedPushClosed`: samples are written), then the request
(one action per player: `hung_KPush_method` with the estimate, the rate, the
pause and the next index). The paced clients sleep before they record the
buffer, FESTIVE and BOLA wait before the request and record it at the push.
Real-valued estimates are integers rounded down. The argument of BOLA's largest
reward, FESTIVE's harmonic mean (between its extreme samples), its comparison
of costs and its random buffer level are free choices. The integers the
uninitialised `rateUp` and `rateDown` of PANDA.cc and Conventional.cpp may hold
are the constant `Garbage`.

### `FlowControl`

`window[a]` is the receiver's window of the connection (0) or a stream,
`remote[a]` the sender's copy. Each operator of `Window` is one C function and
returns the window, the increment it wants sent and whether it succeeded. The
receiver's actions are reception (`RecvData`, `RecvAck`, `RecvRst`), sending by
queue (`SendSettings`, `SendRequest`, `SendUpdate`, `SendRst`) and the calls of
the application (`Consume`, `SetLocalWindowSize`, `SubmitWindowUpdate`,
`SubmitSettings`, `Cancel`); those of the sender likewise, with DATA that is
deferred for want of a window (`Defer`) or of data (`Withhold`). A stream
carries one response and the choice among streams is free.

### `HpackTable`, `Hpack`

A context is the ring (a sequence, newest first), its size and limit, `next_seq`
modulo `SeqWrap` and, for the deflater, the hash map. A block is deflated when
`mem_send` prepares its frame, inflated when the frame arrives; the deflater
changes its table when SETTINGS arrive, the inflater when their ACK does. Bytes
are left out: a header field has a name, a value and a room, a representation
names an index or a literal. Huffman and integer coding are conversions of one
string. A block and a table are worked through by recursive functions, one step per
field (`DeflateField`) or representation (`InflateRepr`).

### `DependencyTree`, `PriorityTree`

A tree is a function from nodes to records with the parent, the children in
their order, the weights, the item and the queue with its cycles. The operators
have the names and the case distinctions of `nghttp2_stream.c`. The heap of
`nghttp2_pq.c` is not modelled: its top is an entry that no other precedes, or
any entry when the wrapped order has no such entry. The actions are the handlers
of HEADERS and PRIORITY, the application's change of a priority, closing,
submitting, resuming, and the parts of `mem_send` that touch the tree: deferring
an item, giving it up, packing a DATA frame, and what follows when it was sent.

`nghttp2_session_close_stream` detaches the item of the stream, then calls
`on_stream_close_callback`, and only then marks the stream as closed. `Closed`
keeps that order: the application may submit DATA in the callback, and the kept,
closed stream then has an item in the queues. When its turn comes,
`session_prep_frame` finds the stream closed (`DataMayGo`) and detaches the item
(`GiveUpData`); it is neither sent nor deferred. If the stream is evicted first,
the item is lost (section 6). `StreamTable` and `Session` leave such a submission
out: the servers modelled here make none.

## 3. Runs

| Run | Result | Question |
|---|---|---|
| `session_live` | pass, 29,754 states | with a server that may reset one stream and announce a GOAWAY: does every stream end (`StreamsEnd`), is a clean close a complete response (`CleanCloseIsComplete`), is the reset of an unannounced stream the only connection error (`OnlyResetOfUnannouncedFails`) |
| `session_limits` | pass, 938,107 states | limits 1 and 0, a client reset, a terminating server: `TypeOK`, `CountersExact`, `IdsAnnounced` (the inductive invariant of the proofs), `RetainedWithinLimit`, `SafeRetry`, `QuietAgreement`, `AboveGoawayUnprocessed`, `NothingAfterEnd` |
| `streaming` | pass, 7,369 states | the composition implements `SegmentFetch` with liveness (`FetchesInOrder`), `NoFailure`, `ResponseOutlivesPush`, `NamesInOrder`, `NothingLeft` |
| `abr` | pass, 478,651 states | five players, six segments, slow, fitting and fast pushes: `AbrTypeOK`, `BufferBounded`, `PauseBounded`, `RateOffered`, `RiseIsBacked` |
| `flow` | pass, 1,280,000 states | a connection and a stream, both modes of WINDOW_UPDATE, every call: `FlowTypeOK`, `CreditConserved`, `OnlyLoweredStreamFails`, `BackPressure`, `NoLostWakeup` |
| `flow_live` | pass, 71,000 states | two streams: every response ends (`EveryResponseEnds`) |
| `hpack` | pass, 494,632 states | blocks and size changes cross: `HpackTypeOK`, `TablesSound`, `MapMirrorsTable`, `TablesAgree`, and the refinement `BlocksArrive` |
| `priority` | pass, 91,589 states | three streams in every order of opening, moving, answering, closing (with or without a submission from the callback), keeping and evicting: `PriorityTypeOK`, `TreeWellFormed`, `QueuedWhenActive`, `NoItemStuck` |
| `priority_turns` | pass, 8,697 states | two siblings whose weights change while cycles wrap around, and which may close with an item: `EveryStreamHasTurns` |
| `session_reset_assert` | violation | `SynQueueHoldsHeaders`: the assertion in `nghttp2_session_add_rst_stream` |
| `session_reset_leak` | violation | `ResetTakesEffect`: a reset blocked by the limit that its own stream fills |
| `priority_moved` | violation | `SameScale`: a subtree that moves loses the cycle its children count from |

Every property of a passing run has a mutant of a mapped definition, placed
before it and marked as one, under which TLC finds the property violated.

Properties with an exception say it in their formula: `OnlyLoweredStreamFails`
names the two ways a stream of an honest peer is refused and when
`consumed_size` may exceed its maximum, `RateOffered` and the
bounds of PANDA hold for samples its filters can follow (`QuietSamples`: no
interval above five seconds and each sample able to carry the lowest rate), and
`EveryResponseEnds` leaves out a lowered initial window without automatic
updates, where less than nothing of the window may be left. `RiseIsBacked`
compares FESTIVE's counter with a history of decisions, not with the counter.
`NamesInOrder` holds as long as no other viewer moved `server_seg`; with other
viewers no order is left, and no property covers the shared counter itself.

### Bounds

Session: `MaxStreamId` bounds identifiers; `Requests`, `Pushes`, `ClientResets`
and `ServerResets` bound what the applications submit; `Terminators` and
`Leavers` say who may close the session. Three identifiers are two requests and a
promise: enough for a stream to be refused while another is open, for one to be
kept while another is trimmed, for a promise to cross the end of its parent, for
a RST_STREAM to wait behind a limit, and for a GOAWAY to separate two requests.
The limits are 0, 1, or above what a run can reach. In `streaming`, three
segments give a first, a middle and a last one, and two pushes of other viewers
can lose an update.

AbrClient: times in seconds, a target of two segments, a ladder of three rates
farther apart than the margin. Six segments let a player fill its buffer, leave
buffering, drain and rise to the top level. PANDA converges to its bound too slowly
for six segments: the run does not reach it, and its part of `BufferBounded` rests
on the theorem `BufferStaysBounded` of section 5.

Flow: the maximum window is 5 instead of 2^31 - 1, so that every overflow check
is reached; windows of 2 and 3, bodies of 3 and frames of 2 make streams wait
for both windows. `Changes` bounds the calls that change a window or a setting,
`Cancels` the resets.

Hpack: a table of two entries (room 2 or 3 of 6), so that each insertion may
evict; one bucket of the map for all names but the static ones, so that they
collide; `SeqWrap` 4 instead of 2^32, more than a table holds; a SETTINGS frame
that shrinks the table and one that changes it three times; two blocks and two
SETTINGS under way.

Priority: three streams are the least for a subtree that moves under its own
descendant and for an exclusive insertion; two active, so that one is kept and
evicted, one anchor. `Resubmits` are the streams whose application submits from the
close callback: one in `priority`, both in `priority_turns`, where two closed
streams can hold an item at once. Cycles wrap at 4, 8 or 16 instead of 2^32;
`NGHTTP2_MAX_CYCLE_DISTANCE` is scaled to the largest frame and weight as in the
code, below half of the wrap in the two runs about cycles. `priority` has no
payload: its properties do not depend on cycles.

Runs disable the deadlock check because a connection that is closed at both
ends, a player that is done, or an application with nothing left to submit, stops.

### Fairness

`FairSpec`: an event loop keeps sending while items are queued, keeps reading
while frames arrive and drops the connection when the session wants neither
(weak fairness of `Send`, `Recv`, `Drop` at each end); both loops call
`nghttp2_session_mem_send` after every read, whatever `want_write` says
(`connection::do_read`, `HttpClient::on_read`). The server's application answers
every request (`Answer`), as the handlers of the repository do. Resets, pushes and
GOAWAY are free. `StreamingSpec`: the library steps of both programs, and their
callbacks, which return. Other viewers are not fair: nothing depends on them.

`FlowFairSpec`: both event loops send and receive, the receiving application
consumes what it was given, a sending application that withheld data resumes it
(weak fairness), and a stream that can be sent again and again is sent or
deferred (strong fairness: the free choice among streams stands for the turns of
the tree, and the application does not withhold data for ever).
`PriorityFairSpec`: the application calls `mem_send` while there is something to
send. `EveryStreamHasTurns` is about siblings that go on sending: responses of
one frame that follow each other start at the cycle of the last turn and do
overtake a long one.

## 4. Abstract specifications

- `SegmentFetch`: what the player relies on: segments are requested one at a time,
  each after the measurement of the one before, and all are fetched.
  `Streaming` implements it with its liveness.
- `HeaderStream`: the session sees a FIFO of header blocks whose receiver may
  ignore a block but never misreads or loses one. `Hpack` implements it; the
  refinement maps the pending blocks to those on the wire, with the fields they
  were deflated from.
- `CreditConserved` is the abstract account of flow control: one number, the
  room the receiver has left, of which the sender's window, the DATA and the
  updates under way are the parts.

## 5. Proofs

`SessionProofs` proves for all values of the constants that satisfy
`MaxStreamIdAssumption` and `SessionAssumption` (identifiers suffice for the
requests and pushes):

- `TypeCorrect`: `Spec => []TypeOK`;
- `CountersCorrect`: `Spec => []CountersExact`;
- `OnlyAnnouncedStreams`: `Spec => []IdsAnnounced`.

The inductive invariant is their conjunction. `CountersExact` alone is not
inductive: opening a stream increments a counter, which is right only if that
identifier is not in memory yet, and closing one decrements the counter its
`PUSH` flag selects. `IdsAnnounced` supplies both: every known stream was
announced by the stream identifiers the session keeps (so a new one is not
known), and `TableShape` says which states carry the flag. `TypeOK` says which
frames a queue may hold, so that a step works on streams of the right side. The
proof has one step per action; each table operator has its lemmas first (it
keeps the type, the shape and the count, and it adds no stream that was not
known), which rest on the library's theorems about cardinalities.

`SessionProofs` also proves `RetentionBounded`, `Spec => []RetainedWithinLimit`. A
close moves at most one from `num_incoming_streams` to the kept list, because
only streams the peer opened are kept and none of them is still a push
(`TablesFit`); only accepting a request or a pushed response adds to the sum, and
it finds the limit in force, which is the initial one or the configured one
(`LimitsKept`), not reached. `SetToSeqLength` is the lemma on the order in which
several closed streams enter the list.

`EndProofs` proves `NothingSentAfterEnd`, `Spec => NothingAfterEnd`. No single
guard gives it; `EndInv` collects three reasons. An ended stream still in memory
has its write side shut, which every predicate of `session_prep_frame` looks at
(`TableOK`), and no operator but opening a stream takes that back (`Steady`). An
ended stream is not opened again, because its identifier was given out before
(`Given`) and a new one is above all of those. And a request whose HEADERS still
wait in the client's queue has not ended (`OnceEach`): it is the only frame that
is sent without such a predicate, and a RST_STREAM for it leaves only when the
regular queue is empty.

`VerdictProofs` proves what the client's application may conclude from
`on_stream_close`: `CleanCloseComplete` (`CleanCloseIsComplete`), `RetryIsSafe`
(`SafeRetry`) and `GoawayRespected` (`AboveGoawayUnprocessed`). Each of them
relates the log of one end to that of the other, with frames between, so the
invariant (`VerdictInv`) says that what a frame on the wire or a waiting RST_STREAM
tells is true at the server already and cannot become false before it arrives: a
DATA frame with END_STREAM under way means the server ended the stream; a refused
request was received and its identifier is old, so it can never be handed over
(`FramesTrue`); a request given to the application was sent by the client, below
`last_recv_stream_id` (`SeenTrue`). The proof sorts the steps into those that say
nothing (`Plain`), those of the server that promise something, and those of the
client that draw a conclusion. `GoawayRespected` assumes `"server" \notin Leavers`:
a server that calls `nghttp2_submit_goaway` chooses the last stream when it queues
the frame and may accept a request before it is sent, so there the property does
not hold; `session_limits`, which checks it, makes the same assumption.

`QuietProofs` proves `QuietEndsAgree`, `Spec => []QuietAgreement`. The two ends
differ about a stream most of the time, so the invariant (`QuietInv`) says why: while
they differ, something that will settle it waits or is under way. For each stream
`Settled` names it: the HEADERS or PUSH_PROMISE that opens it at the other end, the
END_STREAM or RST_STREAM that closes it there, or the RST_STREAM still queued for
a stream marked `CLOSING`. That is not inductive alone. `Final` says that what ends a
stream is the last its sender says of it, so that the stream is not open again
when it arrives; `Orderly` and `PromisesQueued` that identifiers are announced in order,
so that an old identifier cannot come back to life at the receiver; and `Unended`
that a promise under way with no end behind it belongs to a stream the server still
has. All of it holds while nobody said GOAWAY and both ends run (`AtWork`), which no
step restores (`AtWorkBefore`). TLC checked `QuietInv` with the constants of
`session_limits` and of `session_live`. Each action has one lemma that
says what it does to the stream it works on, and `ServerQuiet` and `ClientQuiet` say
that for every other stream, whose table entry and frames stay, nothing changes.

`StreamingProofs` proves `StreamingUsesSession`, `StreamingSpec => Spec`: whatever
the callbacks of the push server and the adaptive client do, and whatever the
other viewers do to `server_seg`, each step of the composition is one call or one
library step of module `Session`, or leaves the sessions alone. The invariant it
needs is `ParentsOK`: the response a push callback captured belongs to a stream.
With it the theorems above hold of the streaming system; `StreamingCounters`
states the one about the counters.

`AbrProofs` proves, from `AbrAssumption` alone (any ladder, target, segment
duration and measurements), `AbrTypeCorrect`, `BufferStaysBounded`, `SleepBounded`,
`RatesAreOffered` and `RisesAreBacked` (the action property `RiseIsBacked`; its
invariant ties the reference level of FESTIVE and the counter of its history to
the rate that was chosen). A bound of the buffer is not inductive: what keeps it is
the pause that was computed at the decision before. `AbrInv` adds `PauseFits`
(the pause that is due is long enough for the buffer there will be),
`FiltersAboveLeast` (the filters of PANDA and of the smoothing stay above the
least sample while no interval exceeds five seconds, a nonlinear step proved
case by case), and what buffering says about the level.

`FlowProofs` proves, from `FlowAssumption` and `WindowAssumption`,
`FlowTypeCorrect` (the windows that the peer's frames move stay within what an
int32_t holds), `WakeupsKept` (`NoLostWakeup`) and `HeldWithinWindow`
(`BackPressure`). Each operator of `Window` has a lemma that says how it changes
the room and what is unconsumed (`ResultOf`). The invariant adds `Owed` (an
application holds at most what its window has received and not given back, plus
what was granted by hand), `Untouched` (a stream that is not open yet holds
nothing) and `RegOK` (a request waits in the queue once, so that its stream
starts with a fresh window).

`CreditKept` (`CreditConserved`) is about sums over queues of any length. `Bytes`
is a recursive function, so what it does with an appended, removed or concatenated
frame has to be proved first; the induction over the length is done with the least
element of the set of lengths at which a claim fails, and that set has one because
the library says a finite set of sets has a minimal member (`LeastElement`,
`SumsExist`, `SumsAgree`). The invariant (`CreditInv`) counts a stream from the
moment its request is sent, before the sender has heard of it, and therefore needs
the order of the frames: nothing of a stream is under way before its request, and
nothing overtakes it (`OrderInv`). It also says that a reduction never hides more
than the window allows (`Sound`). From it follows `ConnectionSurvives`, the part of
`OnlyLoweredStreamFails` about the connection: with automatic updates the
connection never ends with FLOW_CONTROL_ERROR, and without them only the count of
consumed bytes can end it.

`HpackProofs` proves of header compression every property its run checks, for all
fields, blocks, limits and SETTINGS and for any number of them under way:
`HpackTypeCorrect`, `BooksKept` (`TablesSound`), `MapFollowsTable`
(`MapMirrorsTable`), `TablesStayEqual` (`TablesAgree`) and the refinement
`BlocksKeep` (`BlocksArrive`: `HpackSpec` implements `HeaderStream`). It assumes
what `HpackTableAssumption` and `HpackAssumption` state: in particular a limit has
32 bits, and fewer than `SeqWrap` entries fit into any table, as an entry takes 32
octets of a limit below 2^32. Three layers:

- one table. `Filed` says that the size is the room of the entries, that they are
  numbered without a gap up to `next_seq` modulo `SeqWrap`, and that each bucket
  holds the entries with its hash in the order of the ring. Eviction and insertion
  keep it (`EvictResult`, `AddResult`), and two tables with the same fields lose and
  gain the same ones (`EvictSame`, `AddSame`), although the hashes differ.
- one block. An entry found by its bucket is named by its number, and the inflater
  finds the same field at that position (`SearchAnswers`, `FieldRead`); so a field
  is read as it was written (`FieldStep`), and by induction a block is (`BlockRead`).
- two ends. `InStep` relates a deflater to an inflater that waits for its next
  block: same fields, and whatever the deflater has to announce (the least limit
  since its last block, then the one in force) is accepted and evicts nothing the
  deflater still has. Applying one SETTINGS frame at both ends keeps it
  (`AppliesInStep`), although it holds only between blocks and the two ends apply
  the frame at different times.

The invariant (`HpackInv`) puts the time back: there is a path of inflaters, one for
each frame on the wire, which starts at the inflater as it is now and ends at one
that is in step with the deflater. Every action moves an end of the path by one
frame. The recursive functions of the model are read as folds; induction over their
length uses a least element, as in `FlowProofs`.

Only model-checked: all liveness (`StreamsEnd`, `FetchesInOrder` with its
fairness, `EveryResponseEnds`, `EveryStreamHasTurns`), which TLAPS cannot prove;
the properties of `PriorityTree`, whose RECURSIVE operators walk up and down a tree; what
`OnlyLoweredStreamFails` says of streams, which needs the order of SETTINGS and
their ACKs among the DATA; `NoFailure` and `OnlyResetOfUnannouncedFails`, which hold
under the restrictions of the runs that check them and not for every value of the
constants; and the safety properties of `Streaming`, which need an invariant of the
whole exchange between the two applications.

## 6. Findings

Three, each with its run and its quotation in `PROJECT.json`: the assertion and the
blocked reset that follow from moving `RST_STREAM` to `ob_syn`; and the cycle
that a moved subtree loses.

Behaviour the models show that no document of the repository denies, or that
the programs of the repository do not reach:

- requests leave through `ob_reg` and are no longer held back by the limit of
  the peer; the peer refuses those above it;
- a push that crosses a GOAWAY of the client ends the session with an error;
- a GOAWAY submitted with `nghttp2_session_get_last_proc_stream_id` is older than
  the frame that is sent; `nghttp2_session_terminate_session` is not affected;
- `server_seg` is shared: a later viewer is pushed the segments from where the
  others are (`NamesInOrder` is what remains);
- a lowered initial window may refuse a stream of an honest peer when a
  WINDOW_UPDATE was queued before the ACK;
- what `nghttp2_submit_window_update` grants by hand is still to be consumed, so an
  application that also calls `nghttp2_session_consume` can take `consumed_size` over
  its maximum and end the connection;
- DATA submitted in the close callback is lost without being freed if the closed
  stream is evicted before its turn, e.g. by the next request with a limit of one:
  `nghttp2_session_destroy_stream` and `nghttp2_stream_free` leave the item alone
  (the comment at nghttp2_stream.c:109-111 counts on the close or `session_del`,
  and neither sees it). In `PriorityTree`, `Destroy` then drops a node whose item is
  not `"none"`. None of the servers modelled here submits in that callback;
- `nghttp2_stream_change_weight` keeps a cycle from falling behind the last turn
  only when they do not lie on two sides of the wrap-around;
- PANDA.cc and Conventional.cpp read thresholds nobody wrote after a slow
  segment; the buffer level of every player may become negative; FESTIVE.cc's
  `numOfSwitches` reads before its array for indices 9 to 13.

## 7. Plan

1. `Session`, `Streaming`, `SegmentFetch` and their proofs: done.
2. `AbrClient`, `FlowControl`, `Hpack`, `PriorityTree`: done, with proofs for the
   first three.
3. `Streaming` with resets by the server and a failing connection: what the client
   measures when a segment is cut short (`on_stream_close_callback` ignores the
   error code).
4. SETTINGS detail in `Session` (ENABLE_PUSH), identifier exhaustion.
5. Proofs: the safety part of `Streaming`; the streams in `OnlyLoweredStreamFails`;
   `TreeWellFormed` of a tree given as a parent function.

## 8. How to run

`tlc -config session_live.cfg MCSession` (likewise the other `session_*`),
`tlc -config streaming.cfg Streaming`, `tlc -config abr.cfg MCAbr`,
`tlc -config flow.cfg MCFlow` (likewise `flow_live`), `tlc -config hpack.cfg MCHpack`,
`tlc -config priority.cfg PriorityProperties` (likewise `priority_turns`,
`priority_moved`); `tlapm SessionProofs.tla`, and likewise `EndProofs`,
`VerdictProofs`, `QuietProofs`, `StreamingProofs`, `AbrProofs`, `FlowProofs`, `HpackProofs`.

## 9. Not modelled

- Frame packing, buffers, HTTP header validation, the hash map of streams, memory:
  one-frame data conversions; typed frames stand for them.
- Huffman and integer coding, reference counted strings, and frames that are
  canceled after they were deflated (the `before_frame_send_callback` of the five
  players, of nghttp.cc, hung_nghttp.cc and h2load always returns 0, so that none is).
- The heap of the priority queues, pushed streams in the tree, padding.
- PING, ALTSVC, ENABLE_PUSH, extension frames, trailers, request bodies, upgrade,
  TLS.
- `/rebuff/` and `/reset_session`: no client in the repository requests them.
- The statistics of the players, the logarithms of BOLA, HTML parsing: formulas
  and output. Most of each player's 3,800 lines is the unchanged `nghttp.cc`.
- nghttpx, nghttpd, h2load, the asio client, bindings and examples: parts of the
  vendored nghttp2 the streaming system does not run.
- `topology.py`: network delays and start times; the models allow all of them.
