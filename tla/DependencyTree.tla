---------------------------- MODULE DependencyTree ----------------------------
(***************************************************************************)
(* The dependency tree of a session and the queues that schedule its DATA  *)
(* (nghttp2_stream.c), as operators on a tree: a function from the root    *)
(* and the streams to their records.                                       *)
(*                                                                         *)
(* Abstractions: a sibling list is a sequence; the priority queue obq is   *)
(* the sequence of its entries in the order of their seq, and its top is   *)
(* an entry that no other precedes (nghttp2_pq.c is taken to find it);     *)
(* cycles count modulo CycleWrap, not 2^32; memory does not run out.       *)
(***************************************************************************)
EXTENDS Integers, SequencesExt, FiniteSetsExt

CONSTANTS NumStreams,   (* streams the peer may open                        *)
          MaxWeight,    (* NGHTTP2_MAX_WEIGHT                               *)
          MaxLength,    (* largest DATA payload                             *)
          CycleWrap     (* cycles count modulo this                         *)

ASSUME TreeAssumption ==
  /\ NumStreams \in Nat /\ MaxWeight \in Nat \ {0} /\ MaxLength \in Nat
  /\ CycleWrap \in Nat \ {0}

Streams == 1 .. NumStreams
Root    == 0
Nodes   == {Root} \cup Streams
NONE    == -1             (* no stream                                      *)

(* NGHTTP2_MAX_CYCLE_DISTANCE: what one turn can add to a cycle.           *)
MaxCycleDistance == MaxLength * MaxWeight + MaxWeight - 1

(* nghttp2_stream_init *)
NewNode(weight) ==
  [dep_prev |-> NONE, deps |-> <<>>, weight |-> weight, sum_dep_weight |-> 0,
   item |-> "none", queued |-> FALSE, obq |-> <<>>, cycle |-> 0,
   descendant_last_cycle |-> 0, pending_penalty |-> 0, last_writelen |-> 0]

stream_active(t, s)         == t[s].item = "ready"
stream_subtree_active(t, s) == stream_active(t, s) \/ t[s].obq # <<>>

PlaceOf(list, s) == CHOOSE i \in DOMAIN list : list[i] = s

-----------------------------------------------------------------------------
(* The queues *)

(* stream_less: cycles that are too far apart have wrapped around; seq, the *)
(* place in obq, breaks a tie.                                              *)
(* Mutant: cycles are compared as if they never wrapped around.            *)
Precedes_NoWrap(t, p, a, b) ==
  LET x == t[a].cycle
      y == t[b].cycle
  IN  x < y \/ (x = y /\ PlaceOf(t[p].obq, a) < PlaceOf(t[p].obq, b))

Precedes(t, p, a, b) ==
  LET x == t[a].cycle
      y == t[b].cycle
  IN  \/ x < y /\ y - x <= MaxCycleDistance
      \/ x > y /\ x - y > MaxCycleDistance
      \/ x = y /\ PlaceOf(t[p].obq, a) < PlaceOf(t[p].obq, b)

Tops(t, p) ==
  LET entries == ToSet(t[p].obq)
      least   == {s \in entries : \A r \in entries : ~Precedes(t, p, r, s)}
  IN  IF least # {} THEN least ELSE entries

NextCycle(node, last_cycle) ==
  LET penalty == node.last_writelen * MaxWeight + node.pending_penalty
  IN  [node EXCEPT !.cycle = (last_cycle + penalty \div node.weight) % CycleWrap,
                   !.pending_penalty = penalty % node.weight]

Enqueue(t, p, s) ==
  [t EXCEPT ![s] = [NextCycle(@, t[p].descendant_last_cycle) EXCEPT !.queued = TRUE],
            ![p].obq = Append(@, s)]

(* A stream joins the queue of its parent, and the parent its own parent's, *)
(* as far up as they are not queued yet.                                    *)
RECURSIVE stream_obq_push(_, _, _)
stream_obq_push(t, p, s) ==
  IF p = NONE \/ t[s].queued THEN t
  ELSE stream_obq_push(Enqueue(t, p, s), t[p].dep_prev, p)

(* A stream leaves its parent's queue; a parent that has nothing left to    *)
(* send leaves too.                                                         *)
Dequeue(t, p, s) ==
  [t EXCEPT ![s] = [@ EXCEPT !.queued = FALSE, !.cycle = 0, !.pending_penalty = 0,
                             !.descendant_last_cycle = 0, !.last_writelen = 0],
            ![p].obq = Remove(@, s)]

RECURSIVE DequeueUp(_, _, _)
DequeueUp(t, p, s) ==
  IF p = NONE THEN t
  ELSE LET u == Dequeue(t, p, s)
       IN  IF stream_subtree_active(u, p) THEN u ELSE DequeueUp(u, u[p].dep_prev, p)

stream_obq_remove(t, s) ==
  IF t[s].queued THEN DequeueUp(t, t[s].dep_prev, s) ELSE t

stream_obq_move(t, dest, src, s) ==
  IF ~t[s].queued THEN t
  ELSE stream_obq_push([t EXCEPT ![src].obq = Remove(@, s), ![s].queued = FALSE],
                       dest, s)

(* After DATA: the stream and its ancestors go back in their queues by the *)
(* length that was written.                                                 *)
RECURSIVE Reschedule(_, _, _)
Reschedule(t, p, s) ==
  IF p = NONE THEN t
  ELSE Reschedule([t EXCEPT ![s] = NextCycle(@, t[p].descendant_last_cycle),
                            ![p].obq = Append(Remove(@, s), s),
                            ![p].last_writelen = t[s].last_writelen],
                  t[p].dep_prev, p)

nghttp2_stream_reschedule(t, s, length) ==
  Reschedule([t EXCEPT ![s].last_writelen = length], t[s].dep_prev, s)

(* The streams whose turn it may be: down from the root, along the tops of *)
(* the queues, to the first that is active.                                 *)
RECURSIVE NextFrom(_, _)
NextFrom(t, n) == IF stream_active(t, n) THEN {n}
                  ELSE UNION {NextFrom(t, s) : s \in Tops(t, n)}

(* Its cycle, and that of its ancestors, is where their siblings start.    *)
RECURSIVE MarkCycles(_, _)
MarkCycles(t, s) ==
  IF t[s].dep_prev = NONE THEN t
  ELSE MarkCycles([t EXCEPT ![t[s].dep_prev].descendant_last_cycle = t[s].cycle],
                  t[s].dep_prev)

-----------------------------------------------------------------------------
(* Items *)

nghttp2_stream_attach_item(t, s) ==
  stream_obq_push([t EXCEPT ![s].item = "ready"], t[s].dep_prev, s)

DequeueIdle(t, s) == IF t[s].obq = <<>> THEN stream_obq_remove(t, s) ELSE t

nghttp2_stream_detach_item(t, s) == DequeueIdle([t EXCEPT ![s].item = "none"], s)
nghttp2_stream_defer_item(t, s)  == DequeueIdle([t EXCEPT ![s].item = "deferred"], s)

-----------------------------------------------------------------------------
(* The tree *)

RECURSIVE nghttp2_stream_dep_find_ancestor(_, _, _)
nghttp2_stream_dep_find_ancestor(t, s, target) ==
  s # NONE /\ (s = target \/ nghttp2_stream_dep_find_ancestor(t, t[s].dep_prev, target))

(* The streams of list move from below src to below dest, one by one.      *)
MoveQueued(t, list, src, dest) ==
  FoldLeft(LAMBDA u, s : stream_obq_move(u, dest, src, s), t, list)

Reparent(t, list, p) ==
  FoldLeft(LAMBDA u, s : [u EXCEPT ![s].dep_prev = p], t, list)

PushIfActive(t, p, s) == IF stream_subtree_active(t, s) THEN stream_obq_push(t, p, s) ELSE t

(* A new stream takes all the children of p.                               *)
nghttp2_stream_dep_insert(t, p, s) ==
  LET sums  == [t EXCEPT ![s].sum_dep_weight = t[p].sum_dep_weight,
                         ![p].sum_dep_weight = t[s].weight]
      moved == MoveQueued(Reparent(sums, t[p].deps, s), t[p].deps, p, s)
      built == [moved EXCEPT ![s].deps = t[p].deps, ![p].deps = <<s>>, ![s].dep_prev = p]
  IN  PushIfActive(built, p, s)

nghttp2_stream_dep_add(t, p, s) ==
  [t EXCEPT ![p].sum_dep_weight = @ + t[s].weight, ![p].deps = <<s>> \o @,
            ![s].dep_prev = p]

(* The weight of a child of s, when s leaves.                              *)
(* Mutant: the share of a light stream is rounded down to nothing.         *)
nghttp2_stream_dep_distributed_weight_NoFloor(t, s, weight) ==
  (t[s].weight * weight) \div t[s].sum_dep_weight

nghttp2_stream_dep_distributed_weight(t, s, weight) ==
  Max({1, (t[s].weight * weight) \div t[s].sum_dep_weight})

(* A stream leaves; its children take its place and share its weight.      *)
nghttp2_stream_dep_remove(t, s) ==
  LET p        == t[s].dep_prev
      list     == t[s].deps
      shared   == FoldLeft(LAMBDA u, c :
                             [u EXCEPT ![c].weight =
                                nghttp2_stream_dep_distributed_weight(t, s, @)],
                           t, list)
      delta    == FoldLeft(LAMBDA sum, c : sum + shared[c].weight, -t[s].weight, list)
      summed   == [shared EXCEPT ![p].sum_dep_weight = @ + delta]
      left     == stream_obq_remove(MoveQueued(summed, list, s, p), s)
      place    == PlaceOf(t[p].deps, s)
      siblings == SubSeq(t[p].deps, 1, place - 1) \o list
                    \o SubSeq(t[p].deps, place + 1, Len(t[p].deps))
  IN  [Reparent(left, list, p) EXCEPT
         ![p].deps = siblings,
         ![s] = [@ EXCEPT !.sum_dep_weight = 0, !.dep_prev = NONE, !.deps = <<>>]]

(* Mutant: the parent still counts the weight of the subtree.              *)
nghttp2_stream_dep_remove_subtree_WeightStays(t, s) ==
  [stream_obq_remove([t EXCEPT ![t[s].dep_prev].deps = Remove(@, s)], s)
     EXCEPT ![s].dep_prev = NONE]

(* A subtree leaves.                                                       *)
nghttp2_stream_dep_remove_subtree(t, s) ==
  LET p == t[s].dep_prev
      u == [t EXCEPT ![p].deps = Remove(@, s), ![p].sum_dep_weight = @ - t[s].weight]
  IN  [stream_obq_remove(u, s) EXCEPT ![s].dep_prev = NONE]

(* Mutant: only the children of p are queued again, not the subtree.       *)
nghttp2_stream_dep_insert_subtree_NotQueued(t, p, s) ==
  LET others == t[p].deps
      built  == [t EXCEPT ![s].sum_dep_weight = @ + t[p].sum_dep_weight,
                          ![p].sum_dep_weight = t[s].weight,
                          ![p].deps = <<s>>, ![s].dep_prev = p,
                          ![s].deps = @ \o others]
  IN  MoveQueued(Reparent(built, others, s), others, p, s)

(* A subtree comes in and takes all the children of p.                     *)
nghttp2_stream_dep_insert_subtree(t, p, s) ==
  LET others == t[p].deps
      built  == [t EXCEPT ![s].sum_dep_weight = @ + t[p].sum_dep_weight,
                          ![p].sum_dep_weight = t[s].weight,
                          ![p].deps = <<s>>, ![s].dep_prev = p,
                          ![s].deps = @ \o others]
      moved  == MoveQueued(Reparent(built, others, s), others, p, s)
  IN  PushIfActive(moved, p, s)

nghttp2_stream_dep_add_subtree(t, p, s) ==
  PushIfActive(nghttp2_stream_dep_add(t, p, s), p, s)

(* A new weight: the cycle is computed again from where it started, but is *)
(* never before that of the last stream that had its turn.                  *)
nghttp2_stream_change_weight(t, s, weight) ==
  LET p       == t[s].dep_prev
      old     == t[s].weight
      written == t[s].last_writelen * MaxWeight
      unpaid  == (t[s].pending_penalty + old - (written % old)) % old
      start   == (t[s].cycle - (written + unpaid) \div old) % CycleWrap
      node    == NextCycle([t[s] EXCEPT !.weight = weight, !.pending_penalty = unpaid], start)
      behind  == t[p].descendant_last_cycle - node.cycle
      cycle   == IF behind \in 1 .. MaxCycleDistance
                 THEN t[p].descendant_last_cycle ELSE node.cycle
      summed  == [t EXCEPT ![p].sum_dep_weight = @ + weight - old, ![s].weight = weight]
  IN  IF weight = old THEN t
      ELSE IF ~t[s].queued THEN summed
      ELSE [summed EXCEPT ![s] = [node EXCEPT !.cycle = cycle]]
=============================================================================
