-------------------------- MODULE PriorityProperties --------------------------
(***************************************************************************)
(* The properties of the dependency tree and of the turns it gives.        *)
(***************************************************************************)
EXTENDS PriorityTree

InTree == {s \in Streams : life[s] # "none"}

NodeTypes ==
  [dep_prev : Nodes \cup {NONE}, deps : Seq(Streams), weight : 1 .. MaxWeight,
   sum_dep_weight : Nat, item : {"none", "ready", "deferred"}, queued : BOOLEAN,
   obq : Seq(Streams), cycle : 0 .. CycleWrap - 1,
   descendant_last_cycle : 0 .. CycleWrap - 1, pending_penalty : 0 .. MaxWeight - 1,
   last_writelen : 0 .. MaxLength]

(* Types: in particular every weight that is handed down stays positive,   *)
(* since a cycle is divided by it.                                          *)
PriorityTypeOK ==
  /\ tree \in [Nodes -> NodeTypes]
  /\ life \in [Streams -> {"none", "idle", "open", "closed"}]
  /\ lastRecv \in 0 .. NumStreams
  /\ idle \in Seq(Streams) /\ closed \in Seq(Streams)
  /\ aob.stream \in Streams \cup {NONE} /\ aob.eof \in BOOLEAN

(* However streams are inserted, moved and removed, the streams in memory  *)
(* form a tree below the root: each is once in the list of the parent it   *)
(* points to, none is its own ancestor, and every parent knows the sum of  *)
(* the weights below it (check_dep_prev and check_sum_dep).                *)
TreeWellFormed ==
  /\ \A s \in Streams : s \in InTree <=> tree[s].dep_prev # NONE
  /\ \A p \in Nodes :
       /\ ToSet(tree[p].deps) = {s \in InTree : tree[s].dep_prev = p}
       /\ IsInjective(tree[p].deps)
       /\ tree[p].sum_dep_weight =
            FoldLeft(LAMBDA sum, s : sum + tree[s].weight, 0, tree[p].deps)
  /\ \A s \in InTree : nghttp2_stream_dep_find_ancestor(tree, s, Root)

(* No response is forgotten and none is asked in vain: a stream is in the  *)
(* queue of its parent exactly when it, or one of its descendants, has     *)
(* something to send (check_queued, ensure_inactive; nghttp2_stream.h: "if *)
(* a stream is queued, then its ancestors, except for root, are also       *)
(* queued").                                                                *)
QueuedWhenActive ==
  /\ ~tree[Root].queued
  /\ \A p \in Nodes :
       /\ ToSet(tree[p].obq) = {s \in ToSet(tree[p].deps) : tree[s].queued}
       /\ IsInjective(tree[p].obq)
  /\ \A s \in InTree :
       tree[s].queued <=> \E r \in InTree : /\ stream_active(tree, r)
                                           /\ nghttp2_stream_dep_find_ancestor(tree, r, s)

(* No item is stuck in the tree: the anchors have none, and a closed stream *)
(* that is kept has only what the application submitted while it was being  *)
(* closed ("item is still attached to the stream", session_prep_frame), also *)
(* when that happened while its frame was being sent.  Such an item is in    *)
(* the queues, so that its turn comes and it is freed; it is never deferred, *)
(* since nobody resumes a closed stream.                                     *)
NoItemStuck ==
  \A s \in Streams : tree[s].item # "none" =>
    \/ life[s] = "open"
    \/ life[s] = "closed" /\ tree[s].item = "ready" /\ tree[s].queued

(* "Maximum distance between any two stream's cycle in the same prirority  *)
(* queue" (nghttp2_stream.c): beyond it stream_less takes the smaller cycle *)
(* for one that has wrapped around, and the order of the turns is lost.    *)
Distance(a, b) == LET d == (tree[a].cycle - tree[b].cycle) % CycleWrap
                  IN  Min({d, CycleWrap - d})

SameScale ==
  \A p \in Nodes : \A a, b \in ToSet(tree[p].obq) : Distance(a, b) <= MaxCycleDistance

(* No sibling is starved: once the responses only go on, with frames that   *)
(* are written and weights that the client changes, a stream that has       *)
(* something to send gets its turn, also if it was closed in the meantime     *)
(* and its turn is only given up.  (Responses of one frame that follow    *)
(* each other do overtake it: each starts at the cycle of the last turn.)   *)
GoesOn ==
  \/ \E s \in Streams, spec \in Specs : RecvPriority(s, spec) \/ ChangePriority(s, spec)
  \/ \E s \in Streams, length \in Lengths : PackData(s, length, FALSE)
  \/ \E s \in Streams : life[s] = "closed" /\ GiveUpData(s)
  \/ DataSent /\ tree' = tree

EveryStreamHasTurns ==
  <>[][GoesOn]_priorityVars =>
    \A s \in Streams : (tree[s].item = "ready") ~> (aob.stream = s \/ tree[s].item # "ready")
=============================================================================
