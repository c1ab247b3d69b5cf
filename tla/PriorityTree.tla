----------------------------- MODULE PriorityTree -----------------------------
(***************************************************************************)
(* The priorities of a server session: streams that open, answer and close *)
(* while the client rearranges the dependency tree and the session sends   *)
(* one DATA frame after the other (nghttp2_session.c).                     *)
(*                                                                         *)
(* Abstractions: only requests of the client (no pushed streams); the two  *)
(* reasons to defer an item are one; frames other than DATA, flow control  *)
(* and the closing of the connection are left out.                         *)
(***************************************************************************)
EXTENDS DependencyTree

CONSTANTS Weights,        (* weights the client asks for                    *)
          Exclusives,     (* whether it may ask for an exclusive dependency *)
          Parents,        (* streams it names as a dependency               *)
          Lengths,        (* payloads of DATA frames                        *)
          MaxActive,      (* local max_concurrent_streams                   *)
          MaxIdle,        (* num_idle_streams that are kept                 *)
          Resubmits       (* streams that get DATA from the close callback  *)

DefaultWeight == Max(Weights)     (* NGHTTP2_DEFAULT_WEIGHT                 *)

ASSUME PriorityAssumption ==
  /\ Weights \subseteq 1 .. MaxWeight /\ Weights # {}
  /\ Exclusives \subseteq BOOLEAN /\ Parents \subseteq Nodes
  /\ Lengths \subseteq 0 .. MaxLength /\ MaxActive \in Nat /\ MaxIdle \in Nat
  /\ Resubmits \subseteq Streams

VARIABLES tree,      (* session->root and the streams                       *)
          life,      (* what each stream is to the session                  *)
          lastRecv,  (* last_recv_stream_id                                 *)
          idle,      (* idle_stream_head ..: anchors, the oldest first      *)
          closed,    (* closed_stream_head ..: closed streams that are kept *)
          aob        (* the DATA frame that is being sent                   *)

priorityVars == <<tree, life, lastRecv, idle, closed, aob>>

NoFrame == [stream |-> NONE, eof |-> FALSE]

PriorityInit ==
  /\ tree = [n \in Nodes |-> NewNode(IF n = Root THEN 1 ELSE DefaultWeight)]
  /\ life = [s \in Streams |-> "none"]
  /\ lastRecv = 0 /\ idle = <<>> /\ closed = <<>> /\ aob = NoFrame

Specs == [dep : Parents, weight : Weights, exclusive : Exclusives]

DefaultSpec == [dep |-> Root, weight |-> DefaultWeight, exclusive |-> FALSE]

-----------------------------------------------------------------------------
(* The handlers work on the part of the session that follows.              *)
Streams0 == [tree |-> tree, life |-> life, idle |-> idle, closed |-> closed]

Becomes(r) == /\ tree' = r.tree /\ life' = r.life
              /\ idle' = r.idle /\ closed' = r.closed

(* nghttp2_session_destroy_stream *)
Destroy(r, s) ==
  [r EXCEPT !.tree = [nghttp2_stream_dep_remove(@, s) EXCEPT ![s] = NewNode(DefaultWeight)],
            !.life[s] = "none"]

RECURSIVE nghttp2_session_adjust_idle_stream(_)
nghttp2_session_adjust_idle_stream(r) ==
  IF Len(r.idle) <= MaxIdle THEN r
  ELSE nghttp2_session_adjust_idle_stream(
         [Destroy(r, Head(r.idle)) EXCEPT !.idle = Tail(@)])

NumOpen(l) == Cardinality({s \in Streams : l[s] = "open"})

RECURSIVE nghttp2_session_adjust_closed_stream(_)
nghttp2_session_adjust_closed_stream(r) ==
  IF \/ r.closed = <<>>
     \/ Len(r.closed) + NumOpen(r.life) <= MaxActive
  THEN r
  ELSE nghttp2_session_adjust_closed_stream(
         [Destroy(r, Head(r.closed)) EXCEPT !.closed = Tail(@)])

(* A new or reopened node, in the state and place it is given.             *)
Place(r, s, spec, state) ==
  LET fresh == [r.tree EXCEPT ![s] = NewNode(spec.weight)]
  IN  [r EXCEPT !.life[s] = state,
                !.idle = IF state = "idle" THEN Append(@, s) ELSE @,
                !.tree = IF spec.exclusive
                         THEN nghttp2_stream_dep_insert(fresh, spec.dep, s)
                         ELSE nghttp2_stream_dep_add(fresh, spec.dep, s)]

(* The stream a priority names: one that does not exist yet becomes an     *)
(* anchor below the root; one that is gone for good stands for the default *)
(* priority.                                                                *)
IsIdleId(r, d, last) == r.life[d] = "none" /\ d > last

WithAnchor(r, spec, last) ==
  IF spec.dep # Root /\ IsIdleId(r, spec.dep, last)
  THEN Place(r, spec.dep, DefaultSpec, "idle") ELSE r

Resolved(r, spec, last) ==
  IF spec.dep # Root /\ r.life[spec.dep] = "none" /\ ~IsIdleId(r, spec.dep, last)
  THEN DefaultSpec ELSE spec

nghttp2_session_open_stream(r, s, spec, state, last) ==
  LET detached == IF r.life[s] = "idle"
                  THEN [r EXCEPT !.idle = Remove(@, s), !.life[s] = "none",
                                 !.tree = nghttp2_stream_dep_remove(@, s)]
                  ELSE r
  IN  Place(WithAnchor(detached, spec, last), s, Resolved(detached, spec, last), state)

(* A dependency on one's own descendant first moves that descendant up.    *)
MoveUp(t, s, d) ==
  IF d # Root /\ nghttp2_stream_dep_find_ancestor(t, d, s)
  THEN nghttp2_stream_dep_add_subtree(nghttp2_stream_dep_remove_subtree(t, d),
                                      t[s].dep_prev, d)
  ELSE t

Reprioritize(t, s, spec) ==
  LET moved == MoveUp(t, s, spec.dep)
      free  == [nghttp2_stream_dep_remove_subtree(moved, s) EXCEPT ![s].weight = spec.weight]
  IN  IF spec.dep = moved[s].dep_prev /\ ~spec.exclusive
      THEN nghttp2_stream_change_weight(moved, s, spec.weight)
      ELSE IF spec.exclusive
      THEN nghttp2_stream_dep_insert_subtree(free, spec.dep, s)
      ELSE nghttp2_stream_dep_add_subtree(free, spec.dep, s)

nghttp2_session_reprioritize_stream(r, s, spec) ==
  [WithAnchor(r, spec, lastRecv) EXCEPT
     !.tree = Reprioritize(@, s, Resolved(r, spec, lastRecv))]

-----------------------------------------------------------------------------
(* mem_recv and mem_send begin with this: idle streams beyond the limit go. *)
BeginCall ==
  /\ Len(idle) > MaxIdle
  /\ Becomes(nghttp2_session_adjust_idle_stream(Streams0))
  /\ UNCHANGED <<lastRecv, aob>>

(* HEADERS of a request.  One too many is refused: an anchor it had stays. *)
RecvHeaders(s, spec) ==
  /\ s > lastRecv /\ spec.dep # s
  /\ lastRecv' = s
  /\ Becomes(IF NumOpen(life) < MaxActive
             THEN nghttp2_session_adjust_closed_stream(
                    nghttp2_session_open_stream(Streams0, s, spec, "open", s))
             ELSE Streams0)
  /\ UNCHANGED aob

(* PRIORITY for a stream in memory, or for one that is still idle.         *)
RecvPriority(s, spec) ==
  /\ spec.dep # s
  /\ \/ /\ life[s] # "none"
        /\ Becomes(nghttp2_session_adjust_idle_stream(
                     nghttp2_session_reprioritize_stream(Streams0, s, spec)))
     \/ /\ IsIdleId(Streams0, s, lastRecv)
        /\ Becomes(nghttp2_session_adjust_idle_stream(
                     nghttp2_session_open_stream(Streams0, s, spec, "idle", lastRecv)))
  /\ UNCHANGED <<lastRecv, aob>>

(* nghttp2_session_change_stream_priority *)
ChangePriority(s, spec) ==
  /\ spec.dep # s /\ life[s] # "none"
  /\ Becomes(nghttp2_session_reprioritize_stream(Streams0, s, spec))
  /\ UNCHANGED <<lastRecv, aob>>

(* A stream is closed and kept in the tree.  Its item is detached (one that *)
(* is being sent stays with the aob), then on_stream_close_callback runs,   *)
(* and only then is the stream marked as closed: again says whether the     *)
(* application submits DATA once more in the callback (for a stream of      *)
(* Resubmits it may).                                                       *)
(* Mutant: the item stays with the closed stream.                          *)
Closed_KeepsItem(r, s, again) ==
  [r EXCEPT !.tree = IF again /\ @[s].item = "none"
                     THEN nghttp2_stream_attach_item(@, s) ELSE @,
            !.life[s] = "closed", !.closed = Append(@, s)]

Closed(r, s, again) ==
  LET without == IF r.tree[s].item = "none" THEN r.tree
                 ELSE nghttp2_stream_detach_item(r.tree, s)
  IN  [r EXCEPT !.tree = IF again THEN nghttp2_stream_attach_item(without, s) ELSE without,
                !.life[s] = "closed", !.closed = Append(@, s)]

(* RST_STREAM, sent or received. *)
Close(s) ==
  /\ life[s] = "open"
  /\ \E again \in BOOLEAN :
       (again => s \in Resubmits) /\ Becomes(Closed(Streams0, s, again))
  /\ UNCHANGED <<lastRecv, aob>>

-----------------------------------------------------------------------------
TreeChanges(t) == tree' = t /\ UNCHANGED <<life, lastRecv, idle, closed>>

(* nghttp2_session_add_item for DATA *)
Submit(s) ==
  /\ life[s] = "open" /\ tree[s].item = "none"
  /\ TreeChanges(nghttp2_stream_attach_item(tree, s)) /\ UNCHANGED aob

Resume(s) ==
  /\ life[s] = "open" /\ tree[s].item = "deferred"
  /\ TreeChanges(nghttp2_stream_attach_item(tree, s)) /\ UNCHANGED aob

(* mem_send takes the item whose turn it is.  It may have to be deferred,  *)
(* for want of data or of a window, or given up.                            *)
Turn(s) == /\ aob = NoFrame /\ s \in NextFrom(tree, Root)

(* nghttp2_session_predicate_data_send *)
DataMayGo(s) == life[s] = "open"

DeferData(s) ==
  /\ Turn(s) /\ DataMayGo(s)
  /\ TreeChanges(nghttp2_stream_defer_item(MarkCycles(tree, s), s))
  /\ UNCHANGED aob

(* The stream is closed by now, RST_STREAM is queued, or the callback fails; *)
(* or an empty frame without END_STREAM is dropped after it was counted as  *)
(* a turn.                                                                  *)
GiveUpData(s) ==
  /\ Turn(s)
  /\ \E counted \in BOOLEAN :
       /\ counted => DataMayGo(s)
       /\ LET marked == MarkCycles(tree, s)
          IN  TreeChanges(nghttp2_stream_detach_item(
                IF counted THEN nghttp2_stream_reschedule(marked, s, 0) ELSE marked, s))
  /\ UNCHANGED aob

PackData(s, length, eof) ==
  /\ Turn(s) /\ DataMayGo(s)
  /\ TreeChanges(nghttp2_stream_reschedule(MarkCycles(tree, s), s, length))
  /\ aob' = [stream |-> s, eof |-> eof]

(* The whole frame has left.  The item is done after the last one of a     *)
(* response, or when RST_STREAM is queued; with END_STREAM the stream is    *)
(* closed too, unless the request is still coming in.  An item that a        *)
(* closed stream got in the meantime is another one, and is left alone.     *)
DataSent ==
  /\ aob # NoFrame
  /\ LET s    == aob.stream
         rest == [Streams0 EXCEPT !.tree = nghttp2_stream_detach_item(@, s)]
     IN  IF life[s] # "open" THEN Becomes(Streams0)
         ELSE \/ ~aob.eof /\ Becomes(Streams0)
              \/ Becomes(rest)
              \/ /\ aob.eof
                 /\ \E again \in BOOLEAN :
                      (again => s \in Resubmits) /\ Becomes(Closed(rest, s, again))
  /\ aob' = NoFrame /\ UNCHANGED lastRecv

-----------------------------------------------------------------------------
Send == \/ \E s \in Streams : DeferData(s) \/ GiveUpData(s)
        \/ \E s \in Streams, length \in Lengths, eof \in BOOLEAN : PackData(s, length, eof)
        \/ DataSent

PriorityNext ==
  \/ BeginCall
  \/ \E s \in Streams, spec \in Specs :
       RecvHeaders(s, spec) \/ RecvPriority(s, spec) \/ ChangePriority(s, spec)
  \/ \E s \in Streams : Submit(s) \/ Resume(s) \/ Close(s)
  \/ Send

PrioritySpec == PriorityInit /\ [][PriorityNext]_priorityVars

(* The application calls mem_send as long as there is something to send.   *)
PriorityFairSpec == PrioritySpec /\ WF_priorityVars(Send)
=============================================================================
