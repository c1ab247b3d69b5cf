------------------------------ MODULE HpackTable ------------------------------
(***************************************************************************)
(* The header table and the coding of one header block (nghttp2_hd.c), as  *)
(* operators on an nghttp2_hd_context.                                     *)
(*                                                                         *)
(* Abstractions: a header field is a record of a name and a value; the     *)
(* representations of a block are records, not octets (integers and        *)
(* Huffman coding are left out); the ring buffer is the sequence of its    *)
(* entries, newest first; next_seq counts modulo SeqWrap, not 2^32;        *)
(* memory and output buffers do not run out.                               *)
(***************************************************************************)
EXTENDS Integers, SequencesExt, FiniteSetsExt

CONSTANTS HeaderFields,  (* the fields that occur, [name, value]           *)
          EntryRoom,     (* entry_room of each                              *)
          StaticTable,   (* the static table, a sequence of fields          *)
          Hash,          (* the bucket of each name                         *)
          NeverIndexed,  (* fields that are flagged or hold a secret        *)
          Transient,     (* names of hd_deflate_decide_indexing             *)
          SeqWrap        (* next_seq counts modulo this                     *)

ASSUME HpackTableAssumption ==
  /\ \A f \in HeaderFields : f = [name |-> f.name, value |-> f.value]
  /\ EntryRoom \in [HeaderFields -> Nat \ {0}]
  /\ SeqWrap \in Nat \ {0}
  /\ Len(StaticTable) \in Nat /\ NeverIndexed \subseteq HeaderFields

UINT32_MAX == 2147483647   (* the largest integer of TLC stands for it      *)

StaticLength == Len(StaticTable)
Buckets == {Hash[f.name] : f \in HeaderFields}

(* Sums and selections are written as recursive functions.                  *)
RoomOf(entries) ==
  LET sum[n \in 0 .. Len(entries)] ==
        IF n = 0 THEN 0 ELSE sum[n - 1] + EntryRoom[entries[n].field]
  IN  sum[Len(entries)]

(* The elements of s that are in T.                                        *)
Only(s, T) ==
  LET only[n \in 0 .. Len(s)] ==
        IF n = 0 THEN <<>>
        ELSE IF s[n] \in T THEN Append(only[n - 1], s[n]) ELSE only[n - 1]
  IN  only[Len(s)]

(* An empty context.  The deflater indexes its entries in a map; the        *)
(* inflater has none: its map has no buckets.                               *)
NewContext(buckets, limit) ==
  [table |-> <<>>, size |-> 0, max |-> limit, next_seq |-> 0,
   map |-> [h \in buckets |-> <<>>]]

(* Mutant: the room of the new entry is forgotten. *)
Kept_ForgetsRoom(context, room) ==
  Max({n \in 0 .. Len(context.table) :
         \/ n = 0
         \/ context.size - RoomOf(SubSeq(context.table, n + 1, Len(context.table)))
              <= context.max})

(* How many of the newest entries stay when room more is needed: the        *)
(* oldest leave one by one until the rest fits or none is left.             *)
Kept(context, room) ==
  Max({n \in 0 .. Len(context.table) :
         \/ n = 0
         \/ context.size - RoomOf(SubSeq(context.table, n + 1, Len(context.table)))
              + room <= context.max})

(* Mutant: entries leave the table but stay in the map. *)
Evict_KeepsMap(context, room) ==
  LET n == Kept(context, room)
  IN  [context EXCEPT
         !.table = SubSeq(@, 1, n),
         !.size  = @ - RoomOf(SubSeq(context.table, n + 1, Len(context.table)))]

Evict(context, room) ==
  LET n    == Kept(context, room)
      gone == SubSeq(context.table, n + 1, Len(context.table))
  IN  [context EXCEPT
         !.table = SubSeq(@, 1, n),
         !.size  = @ - RoomOf(gone),
         !.map   = [h \in DOMAIN @ |-> Only(@[h], ToSet(@[h]) \ ToSet(gone))]]

hd_context_shrink_table_size(context) == Evict(context, 0)

(* A new entry is the newest of the table and the first of its bucket;     *)
(* one that is larger than the whole table only empties it.                *)
add_hd_table_incremental(context, field, hash) ==
  LET room  == EntryRoom[field]
      rest  == Evict(context, room)
      entry == [field |-> field, seq |-> context.next_seq, hash |-> hash]
  IN  IF room > context.max
      THEN rest
      ELSE [rest EXCEPT
              !.table    = <<entry>> \o @,
              !.size     = @ + room,
              !.next_seq = (@ + 1) % SeqWrap,
              !.map      = [h \in DOMAIN @ |->
                              IF h = hash THEN <<entry>> \o @[h] ELSE @[h]]]

(* The first entry of the bucket that equals the field or, when there is   *)
(* none, the first that has its name.                                      *)
hd_map_find(context, field, nameOnly) ==
  LET bucket == context.map[Hash[field.name]]
      named  == {i \in 1 .. Len(bucket) : bucket[i].field.name = field.name}
      exact  == {i \in named : ~nameOnly /\ bucket[i].field = field}
  IN  [exact   |-> exact # {},
       entries |-> {bucket[Min(s)] : s \in {IF exact # {} THEN exact ELSE named} \ {{}}}]

(* Positions on the wire count from 1; 0 stands for the code's -1.         *)
NotFound == [index |-> 0, exact |-> FALSE]

search_static_table(field, nameOnly) ==
  LET named == {i \in 1 .. StaticLength : StaticTable[i].name = field.name}
      exact == {i \in named : ~nameOnly /\ StaticTable[i] = field}
  IN  IF named = {} THEN NotFound
      ELSE [index |-> Min(IF exact # {} THEN exact ELSE named), exact |-> exact # {}]

(* A field that is not in the dynamic table is looked up in the static one *)
(* first, so that a dynamic entry gives its name only to a name the static *)
(* table does not have.                                                     *)
search_hd_table(context, field, nameOnly) ==
  LET found  == hd_map_find(context, field, nameOnly)
      static == search_static_table(field, nameOnly)
  IN  IF ~found.exact /\ static # NotFound THEN static
      ELSE IF found.entries = {} THEN NotFound
      ELSE LET entry == CHOOSE e \in found.entries : TRUE
           IN  [index |-> StaticLength + ((context.next_seq - entry.seq) % SeqWrap),
                exact |-> found.exact]

IndexingMode(context, field) ==
  IF field \in NeverIndexed THEN "never"
  ELSE IF \/ field.name \in Transient
          \/ EntryRoom[field] > (context.max * 3) \div 4
  THEN "without"
  ELSE "with"

(* The representation of a field, and the context after it.  The position  *)
(* is the one before the field itself is added.                            *)
deflate_nv(context, field) ==
  LET mode   == IndexingMode(context, field)
      result == search_hd_table(context, field, mode = "never")
  IN  IF result.exact
      THEN [context |-> context, repr |-> [op |-> "indexed", index |-> result.index]]
      ELSE [context |-> IF mode = "with"
                        THEN add_hd_table_incremental(context, field, Hash[field.name])
                        ELSE context,
            repr    |-> IF result.index = 0
                        THEN [op |-> "newname", field |-> field, mode |-> mode]
                        ELSE [op |-> "indname", index |-> result.index,
                              value |-> field.value, mode |-> mode]]

IndexValid(context, index) == index \in 1 .. StaticLength + Len(context.table)

nghttp2_hd_table_get(context, index) ==
  IF index > StaticLength THEN context.table[index - StaticLength].field
                          ELSE StaticTable[index]

(* The field that a representation stands for; its name comes from the      *)
(* table as it is before the field is added.                                *)
FieldOf(context, repr) ==
  CASE repr.op = "indexed" -> nghttp2_hd_table_get(context, repr.index)
    [] repr.op = "indname" ->
         [name  |-> nghttp2_hd_table_get(context, repr.index).name,
          value |-> repr.value]
    [] repr.op = "newname" -> repr.field

(* Mutant: a literal without indexing is added to the table too. *)
CommitField_IgnoresMode(context, repr) ==
  IF repr.op # "indexed"
  THEN add_hd_table_incremental(context, FieldOf(context, repr), 0)
  ELSE context

CommitField(context, repr) ==
  IF repr.op # "indexed" /\ repr.mode = "with"
  THEN add_hd_table_incremental(context, FieldOf(context, repr), 0)
  ELSE context
=============================================================================
