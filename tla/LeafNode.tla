------------------------------- MODULE LeafNode -------------------------------
(***************************************************************************)
(* The layout of a leaf or mini-page (node.rs; KVMeta and NodeMeta in      *)
(* types.rs) and the operations on it, as functions of the node.           *)
(*                                                                         *)
(* A node is a header, an array of KVMetas that grows up and the bytes of  *)
(* the keys and values, which grow down from the end of the page.  Its     *)
(* first and its last entry are the fence keys; the others hold what is    *)
(* left of a key behind the prefix that the two fences share.  A key is a  *)
(* sequence of bytes.  The array of KVMetas is a sequence here, whose last *)
(* byte is before MetaEnd; positions count from 1 where the code's count   *)
(* from 0.  The reference bit of a KVMeta, which nothing reads, is left    *)
(* out.                                                                    *)
(***************************************************************************)
EXTENDS Integers, SequencesExt

CONSTANTS
  PageBytes,     \* NodeSize::LeafPage in bytes
  KVMetaBytes,   \* size_of::<KVMeta>(), half the size of a NodeMeta
  None           \* no value

ASSUME LayoutAssumption == PageBytes \in Nat \ {0} /\ KVMetaBytes \in Nat \ {0}

\* KVMeta; an entry that try_put writes is an Insert, a fence is a Cache.
KVMeta(key_size, val_size, offset, typ, fence, look_ahead) ==
  [key_size |-> key_size, val_size |-> val_size, offset |-> offset, typ |-> typ,
   fence |-> fence, look_ahead |-> look_ahead]

MetaEnd(count) == (2 + count) * KVMetaBytes

\* NodeMeta::size: the hot bit is the lowest bit of the size, and makes 7 of the 6 of a
\* LeafPage; 7 stands for twice the length.
size_in_bytes(n) == IF n.hot THEN 2 * PageBytes ELSE PageBytes

record_count(n) == Len(n.metas)

\* The order of keys as byte strings.
KeyLess(a, b) ==
  \/ IsStrictPrefix(a, b)
  \/ \E i \in DOMAIN a \cap DOMAIN b :
       SubSeq(a, 1, i - 1) = SubSeq(b, 1, i - 1) /\ a[i] < b[i]

Byte(s, i) == IF i \in DOMAIN s THEN s[i] ELSE 0

get_lookahead(key_suffix) == 256 * Byte(key_suffix, 1) + Byte(key_suffix, 2)

get_stored_key_from_meta(n, kv) == [i \in 1..kv.key_size |-> n.heap[kv.offset + i - 1]]
get_val_from_meta(n, kv) ==
  [i \in 1..kv.val_size |-> n.heap[kv.offset + kv.key_size + i - 1]]

fence_bounds(n) ==
  [lower |-> get_stored_key_from_meta(n, n.metas[1]),
   upper |-> get_stored_key_from_meta(n, n.metas[record_count(n)])]

get_node_prefix(n) == LongestCommonPrefix({fence_bounds(n).lower, fence_bounds(n).upper})

\* What is left of a key behind a prefix.
Behind(prefix, key) == SubSeq(key, Len(prefix) + 1, Len(key))

\* binary_search compares the two bytes of the KVMeta first, the stored keys if they
\* are equal.
Before(n, s, kv) ==
  \/ get_lookahead(s) < kv.look_ahead
  \/ get_lookahead(s) = kv.look_ahead /\ KeyLess(s, get_stored_key_from_meta(n, kv))
After(n, s, kv) ==
  \/ get_lookahead(s) > kv.look_ahead
  \/ get_lookahead(s) = kv.look_ahead /\ KeyLess(get_stored_key_from_meta(n, kv), s)

\* The position of a key, or the one it would have: never that of a fence.
binary_search(n, s) ==
  LET search[lower \in 1..record_count(n), upper \in 0..record_count(n)] ==
        LET mid == lower + (upper - lower) \div 2
        IN  IF lower > upper THEN [ok |-> FALSE, at |-> lower]
            ELSE IF Before(n, s, n.metas[mid]) THEN search[lower, mid - 1]
            ELSE IF After(n, s, n.metas[mid]) THEN search[mid + 1, upper]
            ELSE [ok |-> TRUE, at |-> mid]
  IN  IF record_count(n) <= 2 THEN [ok |-> FALSE, at |-> 2]
      ELSE search[2, record_count(n) - 1]

find_min_offset(n) == Min({n.metas[i].offset : i \in DOMAIN n.metas})

\* The bytes of a node with those from offset on overwritten.
Write(heap, offset, bytes) ==
  [o \in DOMAIN heap |-> IF o - offset + 1 \in DOMAIN bytes THEN bytes[o - offset + 1]
                         ELSE heap[o]]

\* Both fences at the end of the node, and no other entry.
install_fences(n, lower, upper) ==
  LET upper_offset == size_in_bytes(n) - Len(upper)
      lower_offset == upper_offset - Len(lower)
  IN  [n EXCEPT !.heap = Write(Write(@, upper_offset, upper), lower_offset, lower),
                !.metas = <<KVMeta(Len(lower), 0, lower_offset, "Cache", TRUE, 0),
                            KVMeta(Len(upper), 0, upper_offset, "Cache", TRUE, 0)>>]

ensure_fence_keys(n) == IF record_count(n) >= 2 THEN n ELSE install_fences(n, <<0>>, <<255>>)

-------------------------------------------------------------------------------
(* Entries.  A result is the node after the call and what the call says.   *)

Result(n, res) == [node |-> n, res |-> res]

\* erase_kv_in_buffer: the entries below the erased one move up by its length.  The
\* copy has that length too, whatever the length of what is below it.
Erased(n, kv) ==
  LET len == kv.key_size + kv.val_size
      min == Min({kv.offset} \cup {n.metas[i].offset : i \in DOMAIN n.metas})
      Moved(m) == IF m.offset < kv.offset THEN [m EXCEPT !.offset = @ + len] ELSE m
  IN  [metas |-> [i \in DOMAIN n.metas |-> Moved(n.metas[i])],
       heap |-> IF min = kv.offset THEN n.heap
                ELSE Write(n.heap, min + len, [i \in 1..len |-> n.heap[min + i - 1]]),
       alloc_ptr |-> min + len,
       whole |-> kv.offset - min \in {0, len}]

erase_kv_in_buffer(n, kv) ==
  [n EXCEPT !.metas = Erased(n, kv).metas, !.heap = Erased(n, kv).heap]

\* Mutant of remove_entry: the bytes stay.
remove_entry_leaks(n, at) ==
  IF n.metas[at].fence THEN Result(n, "false")
  ELSE Result([n EXCEPT !.metas = RemoveAt(@, at)], "true")

\* remove_entry: the fences stay.  "erase" marks a copy that is not what is below.
remove_entry(n, at) ==
  IF n.metas[at].fence THEN Result(n, "false")
  ELSE Result([erase_kv_in_buffer(n, n.metas[at]) EXCEPT !.metas = RemoveAt(@, at)],
              IF Erased(n, n.metas[at]).whole THEN "true" ELSE "erase")

remove_key_physical(n, key) ==
  LET prefix == get_node_prefix(n)
      found == binary_search(n, Behind(prefix, key))
  IN  IF IsPrefix(prefix, key) /\ found.ok THEN remove_entry(n, found.at)
      ELSE Result(n, "false")

\* Mutant of mark_tombstone: another type that does not exist.
mark_tombstone_phantom(n, key) ==
  LET found == binary_search(n, Behind(get_node_prefix(n), key))
  IN  IF found.ok THEN Result([n EXCEPT !.metas[found.at].typ = "Phantom"], "true")
      ELSE Result(n, "false")

\* mark_tombstone: only the type changes.
mark_tombstone(n, key) ==
  LET prefix == get_node_prefix(n)
      found == binary_search(n, Behind(prefix, key))
  IN  IF /\ IsPrefix(prefix, key) /\ found.ok
         /\ ~n.metas[found.at].fence /\ n.metas[found.at].typ # "Tombstone"
      THEN Result([n EXCEPT !.metas[found.at].typ = "Tombstone"], "true")
      ELSE Result(n, "false")

\* KVRecordType::exists is true of every type, so a tombstone is read as well.
get(n, key) ==
  LET found == binary_search(n, Behind(get_node_prefix(n), key))
  IN  IF found.ok THEN get_val_from_meta(n, n.metas[found.at]) ELSE None

-------------------------------------------------------------------------------
(* try_put_with_suffix.                                                    *)

\* An update in place.  The type of the entry stays what it was.
Rewritten(n, at, val) ==
  [n EXCEPT !.heap = Write(@, n.metas[at].offset + n.metas[at].key_size, val)]

\* An update of another length erases the old entry first.  Without room it returns
\* there; with room it gets to set_val_size, which is todo!().
Resized(n, at, s, val) ==
  IF /\ Erased(n, n.metas[at]).alloc_ptr >= Len(s) + Len(val)
     /\ Erased(n, n.metas[at]).alloc_ptr - Len(s) - Len(val)
          < (record_count(n) + 1) * KVMetaBytes
  THEN Result(erase_kv_in_buffer(n, n.metas[at]), "erased")
  ELSE Result(erase_kv_in_buffer(n, n.metas[at]), "todo")

\* Mutant of InsertLimit: the KVMetas are not counted.
InsertLimit_zero(n) == 0

\* The first offset that an insert accepts: one word for the NodeMeta and one for the
\* new KVMeta, although the NodeMeta has two.
InsertLimit(n) == (record_count(n) + 2) * KVMetaBytes

\* A new entry below the others.  "overlap" marks an entry whose bytes are written
\* over the last KVMeta.
Inserted(n, at, s, val) ==
  LET new_offset == find_min_offset(n) - Len(s) - Len(val)
  IN  IF new_offset < 0 \/ new_offset < InsertLimit(n) THEN Result(n, "InsufficientSpace")
      ELSE Result(
        [n EXCEPT
           !.metas = InsertAt(@, at, KVMeta(Len(s), Len(val), new_offset, "Insert", FALSE,
                                            get_lookahead(s))),
           !.heap = Write(@, new_offset, s \o val)],
        IF new_offset < MetaEnd(record_count(n) + 1) THEN "overlap" ELSE "Ok")

try_put_with_suffix(n, s, val) ==
  LET found == binary_search(n, s)
  IN  IF ~found.ok THEN Inserted(n, found.at, s, val)
      ELSE IF n.metas[found.at].val_size = Len(val)
      THEN Result(Rewritten(n, found.at, val), "Ok")
      ELSE Resized(n, found.at, s, val)

\* A key without the prefix of the node is "foreign": an assertion, a slice out of range
\* when it is shorter, and in a release build an entry for another key.
try_put(n, key, val) ==
  IF IsPrefix(get_node_prefix(n), key)
  THEN try_put_with_suffix(n, Behind(get_node_prefix(n), key), val)
  ELSE Result(n, "foreign")

\* replay_entries stops at the first entry that has no room.
replay_entries(n, entries) ==
  FoldLeft(LAMBDA r, e : IF r.res = "Ok" THEN try_put(r.node, e.key, e.val) ELSE r,
           Result(n, "Ok"), entries)

\* The entries of a node behind the fences, with full keys, as a split plans with them.
UserMetas(n) == SelectSeq(n.metas, LAMBDA kv : ~kv.fence)
user_entries(n) ==
  [i \in DOMAIN UserMetas(n) |->
     [key |-> get_node_prefix(n) \o get_stored_key_from_meta(n, UserMetas(n)[i]),
      val |-> get_val_from_meta(n, UserMetas(n)[i])]]
===============================================================================
