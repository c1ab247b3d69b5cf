--------------------------- MODULE HpackProperties ---------------------------
(***************************************************************************)
(* The properties of header compression.                                   *)
(***************************************************************************)
EXTENDS Hpack

Limits == Advertised \cup DeflateLimits

Entries == [field : HeaderFields, seq : 0 .. SeqWrap - 1, hash : Buckets \cup {0}]

IsContext(c, buckets) ==
  /\ DOMAIN c = {"table", "size", "max", "next_seq", "map"}
  /\ c.table \in Seq(Entries) /\ c.size \in UNION {0 .. limit : limit \in Limits}
  /\ c.max \in Limits /\ c.next_seq \in 0 .. SeqWrap - 1
  /\ DOMAIN c.map = buckets /\ \A h \in buckets : c.map[h] \in Seq(Entries)

(* Types: in particular no table is ever larger than the largest limit.    *)
HpackTypeOK ==
  /\ IsContext(deflater.ctx, Buckets) /\ IsContext(inflater.ctx, {})
  /\ deflater.limit \in DeflateLimits /\ deflater.notify \in BOOLEAN
  /\ deflater.min \in Limits \cup {UINT32_MAX}
  /\ inflater.min \in Limits \cup {UINT32_MAX} /\ inflater.settings \in Limits
  /\ inflater.state \in {"START", "EXPECT_TABLE_SIZE"} /\ inflater.bad \in BOOLEAN
  /\ settings \in Seq(Asks) /\ inflight \in Seq(Asks)
  /\ \A k \in DOMAIN wire : wire[k].type \in {"ACK", "BLOCK"}
  /\ received = Failed \/ received \in Seq(HeaderFields)

(* The bookkeeping of a table: its size is the room of its entries and     *)
(* within its limit, and the entries are numbered in the order in which    *)
(* they came, without a gap, up to next_seq.                               *)
Sound(c) ==
  /\ c.size = RoomOf(c.table) /\ c.size <= c.max
  /\ \A k \in DOMAIN c.table : c.table[k].seq = (c.next_seq - k) % SeqWrap

(* Both tables are sound after every step, and the receiver, which asked    *)
(* for a smaller table, has given the memory up once the ACK arrived: its  *)
(* table is within the setting that applies (nghttp2_hd.c,                 *)
(* add_hd_table_incremental and hd_context_shrink_table_size).             *)
TablesSound ==
  /\ Sound(deflater.ctx) /\ Sound(inflater.ctx)
  /\ inflater.ctx.size <= inflater.settings

(* The deflater finds an entry by its map and names it by its position in  *)
(* the table: each bucket holds exactly the entries of the table with its  *)
(* hash, the newest first (hd_map_insert and hd_map_remove beside          *)
(* hd_ringbuf_push_front and hd_ringbuf_pop_back).                         *)
MapMirrorsTable ==
  \A h \in Buckets :
    deflater.ctx.map[h] =
      Only(deflater.ctx.table, {e \in ToSet(deflater.ctx.table) : e.hash = h})

(* The two sessions change their tables at different times.  Whenever      *)
(* nothing is under way to the receiver they hold the same entries,        *)
(* whatever SETTINGS and blocks crossed each other before.                 *)
TablesAgree ==
  wire = <<>> =>
    [k \in DOMAIN deflater.ctx.table |-> deflater.ctx.table[k].field] =
    [k \in DOMAIN inflater.ctx.table |-> inflater.ctx.table[k].field]

(* The promise to the session: blocks arrive complete, unchanged and in    *)
(* order, and the inflater never fails on what the deflater sent.          *)
UnderWay == Only(wire, {frame \in ToSet(wire) : frame.type = "BLOCK"})

Stream == INSTANCE HeaderStream
            WITH pending <- [k \in 1 .. Len(UnderWay) |-> UnderWay[k].fields],
                 latest  <- received

BlocksArrive == Stream!StreamSpec
=============================================================================
