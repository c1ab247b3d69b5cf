-------------------------------- MODULE Hpack --------------------------------
(***************************************************************************)
(* Header compression of one direction of a connection: the deflater of    *)
(* the session that sends header blocks, the inflater of the one that      *)
(* receives them, and the SETTINGS_HEADER_TABLE_SIZE with which the        *)
(* receiver changes the table while blocks are under way (nghttp2_hd.c,    *)
(* nghttp2_session.c).                                                     *)
(*                                                                         *)
(* Abstractions: a block with its CONTINUATION frames is read in one step; *)
(* RST_STREAM for a block the application refuses is left out; a failure   *)
(* of the inflater ends the connection, so nothing follows it; no frame is *)
(* canceled by before_frame_send after it was deflated.                    *)
(***************************************************************************)
EXTENDS HpackTable

CONSTANTS Blocks,         (* the header blocks that are sent                *)
          DefaultLimit,   (* NGHTTP2_HD_DEFAULT_MAX_BUFFER_SIZE             *)
          DeflateLimits,  (* max_deflate_dynamic_table_size of the sender   *)
          Asks,           (* SETTINGS_HEADER_TABLE_SIZE entries of a frame  *)
          MaxBlocks,      (* bound: blocks on the wire                      *)
          MaxSettings     (* bound: SETTINGS without their ACK              *)

(* Every value that SETTINGS_HEADER_TABLE_SIZE has.                         *)
Advertised == {DefaultLimit} \cup UNION {ToSet(ask) : ask \in Asks}

(* An entry takes 32 octets or more and a setting has 32 bits: a table that *)
(* fits has fewer than SeqWrap entries.                                     *)
ASSUME HpackAssumption ==
  /\ Blocks \subseteq Seq(HeaderFields) /\ Asks \subseteq Seq(Nat) /\ <<>> \notin Asks
  /\ DefaultLimit \in Nat /\ DeflateLimits \subseteq Nat
  /\ \A limit \in Advertised :
       /\ limit <= UINT32_MAX
       /\ \A f \in HeaderFields : limit < EntryRoom[f] * SeqWrap
  /\ MaxBlocks \in Nat /\ MaxSettings \in Nat

VARIABLES deflater,   (* session->hd_deflater of the sender                 *)
          inflater,   (* session->hd_inflater of the receiver               *)
          settings,   (* SETTINGS frames on their way to the sender         *)
          inflight,   (* the receiver's inflight_settings                   *)
          wire,       (* header blocks and ACKs on their way to the receiver *)
          received    (* the last block that the receiver read and did not  *)
                      (* ignore                                             *)

hpackVars == <<deflater, inflater, settings, inflight, wire, received>>

Failed == <<"NGHTTP2_ERR_HEADER_COMP">>

NewDeflater(limit) ==
  [ctx    |-> NewContext(Buckets, IF limit < DefaultLimit THEN limit ELSE DefaultLimit),
   limit  |-> limit, min |-> UINT32_MAX, notify |-> limit < DefaultLimit]

NewInflater ==
  [ctx |-> NewContext({}, DefaultLimit), settings |-> DefaultLimit,
   min |-> UINT32_MAX, state |-> "START", bad |-> FALSE]

HpackInit ==
  /\ deflater \in {NewDeflater(limit) : limit \in DeflateLimits}
  /\ inflater = NewInflater
  /\ settings = <<>> /\ inflight = <<>> /\ wire = <<>>
  /\ received = <<>>

-----------------------------------------------------------------------------
nghttp2_hd_deflate_change_table_size(d, asked) ==
  LET next == Min({asked, d.limit})
  IN  [d EXCEPT !.ctx    = hd_context_shrink_table_size([@ EXCEPT !.max = next]),
                !.min    = Min({@, next}),
                !.notify = TRUE]

(* Mutant: a smaller limit is noted but the table is not shrunk to it. *)
nghttp2_hd_inflate_change_table_size_NoShrink(i, asked) ==
  LET smaller == i.ctx.max > asked
  IN  [i EXCEPT !.state    = IF smaller THEN "EXPECT_TABLE_SIZE" ELSE @,
                !.min      = IF smaller THEN asked ELSE @,
                !.settings = asked,
                !.ctx.max  = asked]

(* A size that is smaller than the one in use must be confirmed by the     *)
(* first representation of the next block.                                 *)
nghttp2_hd_inflate_change_table_size(i, asked) ==
  LET smaller == i.ctx.max > asked
  IN  [i EXCEPT !.state    = IF smaller THEN "EXPECT_TABLE_SIZE" ELSE @,
                !.min      = IF smaller THEN asked ELSE @,
                !.settings = asked,
                !.ctx      = hd_context_shrink_table_size([@ EXCEPT !.max = asked])]

-----------------------------------------------------------------------------
(* Mutant: only the limit in use is announced, not the smallest since. *)
SizeUpdates_LastOnly(d) ==
  IF d.notify THEN <<[op |-> "size", size |-> d.ctx.max]>> ELSE <<>>

(* The size updates at the head of a block.                                *)
SizeUpdates(d) ==
  IF ~d.notify THEN <<>>
  ELSE IF d.ctx.max > d.min
  THEN <<[op |-> "size", size |-> d.min], [op |-> "size", size |-> d.ctx.max]>>
  ELSE <<[op |-> "size", size |-> d.ctx.max]>>

(* One field, after those that gave the representations so far.            *)
DeflateField(acc, field) ==
  LET step == deflate_nv(acc.deflater.ctx, field)
  IN  [deflater |-> [acc.deflater EXCEPT !.ctx = step.context],
       reprs    |-> Append(acc.reprs, step.repr)]

(* A block: the deflater after it, and its representations.                *)
nghttp2_hd_deflate_hd_bufs(d, block) ==
  LET first == [deflater |-> [d EXCEPT !.notify = FALSE,
                                       !.min = IF d.notify THEN UINT32_MAX ELSE @],
                reprs    |-> SizeUpdates(d)]
      run[n \in 0 .. Len(block)] ==
        IF n = 0 THEN first ELSE DeflateField(run[n - 1], block[n])
  IN  run[Len(block)]

(* What is not accepted: a block that does not begin with the size update  *)
(* the inflater waits for, a size update that is not at the head or too    *)
(* large, an index outside the tables.                                     *)
Malformed(i, repr) ==
  \/ i.state = "EXPECT_TABLE_SIZE" /\ repr.op # "size"
  \/ repr.op = "size" /\ (i.state = "OPCODE" \/ repr.size > Min({i.min, i.settings}))
  \/ repr.op \in {"indexed", "indname"} /\ ~IndexValid(i.ctx, repr.index)

(* One representation, after those that gave out.                          *)
InflateRepr(acc, repr) ==
  LET i == acc.inflater
  IN  IF i.bad THEN acc
      ELSE IF Malformed(i, repr)
      THEN [inflater |-> [i EXCEPT !.bad = TRUE], out |-> Failed]
      ELSE IF repr.op = "size"
      THEN [inflater |->
              [i EXCEPT !.min = UINT32_MAX, !.state = "START",
                        !.ctx = hd_context_shrink_table_size([@ EXCEPT !.max = repr.size])],
            out |-> acc.out]
      ELSE [inflater |-> [i EXCEPT !.ctx = CommitField(@, repr), !.state = "OPCODE"],
            out      |-> Append(acc.out, FieldOf(i.ctx, repr))]

nghttp2_hd_inflate_hd_nv(i, reprs) ==
  LET run[n \in 0 .. Len(reprs)] ==
        IF n = 0 THEN [inflater |-> i, out |-> <<>>] ELSE InflateRepr(run[n - 1], reprs[n])
  IN  run[Len(reprs)]

(* The end of the block: the size update may still be missing.             *)
inflate_header_block(i, reprs) ==
  LET last == nghttp2_hd_inflate_hd_nv(i, reprs)
  IN  IF ~last.inflater.bad /\ last.inflater.state = "EXPECT_TABLE_SIZE"
      THEN [inflater |-> [last.inflater EXCEPT !.bad = TRUE], out |-> Failed]
      ELSE [last EXCEPT !.inflater.state = "START"]

-----------------------------------------------------------------------------
(* The values of one SETTINGS frame that both sides apply: the smallest,   *)
(* when it is not the last, then the last.                                 *)
DeflaterApplies(d, ask) ==
  LET least == Min(ToSet(ask))
      first == IF least < Last(ask) THEN nghttp2_hd_deflate_change_table_size(d, least)
                                    ELSE d
  IN  nghttp2_hd_deflate_change_table_size(first, Last(ask))

InflaterApplies(i, ask) ==
  LET least == Min(ToSet(ask))
      first == IF least < Last(ask) THEN nghttp2_hd_inflate_change_table_size(i, least)
                                    ELSE i
  IN  nghttp2_hd_inflate_change_table_size(first, Last(ask))

-----------------------------------------------------------------------------
(* The receiver's session *)

Open == ~inflater.bad

(* nghttp2_submit_settings *)
AddSettings(ask) ==
  /\ Open /\ Len(inflight) < MaxSettings
  /\ settings' = Append(settings, ask)
  /\ inflight' = Append(inflight, ask)
  /\ UNCHANGED <<deflater, inflater, wire, received>>

(* The ACK of the oldest SETTINGS: its values apply from here on.          *)
ReceiveAck ==
  /\ Open /\ wire # <<>> /\ Head(wire).type = "ACK"
  /\ inflater' = InflaterApplies(inflater, Head(inflight))
  /\ inflight' = Tail(inflight)
  /\ wire'     = Tail(wire)
  /\ UNCHANGED <<deflater, settings, received>>

(* A header block.  One whose stream is gone, or that the application      *)
(* refuses halfway, is decoded to its end all the same: only its fields    *)
(* are not passed on (ignored).                                            *)
ReceiveBlock(ignored) ==
  /\ Open /\ wire # <<>> /\ Head(wire).type = "BLOCK"
  /\ LET result == inflate_header_block(inflater, Head(wire).reprs)
     IN  /\ inflater' = result.inflater
         /\ received' = IF ignored /\ ~result.inflater.bad THEN received
                        ELSE result.out
  /\ wire' = Tail(wire)
  /\ UNCHANGED <<deflater, settings, inflight>>

-----------------------------------------------------------------------------
(* The sender's session *)

(* SETTINGS: the deflater changes at once.  The ACK is urgent: it leaves   *)
(* before every block that is deflated later.                              *)
ReceiveSettings ==
  /\ Open /\ settings # <<>>
  /\ deflater' = DeflaterApplies(deflater, Head(settings))
  /\ settings' = Tail(settings)
  /\ wire'     = Append(wire, [type |-> "ACK"])
  /\ UNCHANGED <<inflater, inflight, received>>

(* mem_send deflates a block when it prepares the frame.                   *)
SendBlock(block) ==
  /\ Open /\ Cardinality({k \in DOMAIN wire : wire[k].type = "BLOCK"}) < MaxBlocks
  /\ LET result == nghttp2_hd_deflate_hd_bufs(deflater, block)
     IN  /\ deflater' = result.deflater
         /\ wire' = Append(wire, [type |-> "BLOCK", fields |-> block,
                                  reprs |-> result.reprs])
  /\ UNCHANGED <<inflater, settings, inflight, received>>

-----------------------------------------------------------------------------
HpackNext ==
  \/ \E ask \in Asks : AddSettings(ask)
  \/ ReceiveAck
  \/ \E ignored \in BOOLEAN : ReceiveBlock(ignored)
  \/ ReceiveSettings
  \/ \E block \in Blocks : SendBlock(block)

HpackSpec == HpackInit /\ [][HpackNext]_hpackVars
=============================================================================
