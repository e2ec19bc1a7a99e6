------------------------------ MODULE LeafPages ------------------------------
(***************************************************************************)
(* A leaf of the store with its bytes (LeafNode): its promotion from disk, *)
(* puts and deletes in the mini-page, the split that a full one asks for,  *)
(* and the flush of a mini-page into the leaf on disk (lib.rs, page_op.rs, *)
(* buffer.rs).  Every operation has the page locked from its first to its  *)
(* last access, so it is one step; a put that has to split is three.       *)
(*                                                                         *)
(* The tree is its only pivot: page 0 has the keys below it, page 1 the    *)
(* others.  There is one split, for want of a third page; a put that needs *)
(* another one waits for ever.                                             *)
(*                                                                         *)
(* flaw names the first thing that went wrong inside a node, after which   *)
(* its bytes are not followed any more: an entry over a KVMeta ("overlap"),*)
(* an erase that copies the wrong bytes ("erase"), an update that erases   *)
(* and fails ("erased") or reaches todo!() ("todo"), fences beyond the end *)
(* of the page ("beyond"), a split that fails half way ("SplitFailed") or  *)
(* finds no entry ("assert"), a flush without room on disk ("no room") or  *)
(* into a leaf with another prefix ("prefix"), or a key that does not have *)
(* the prefix of its page ("foreign").                                     *)
(***************************************************************************)
EXTENDS LeafNode

CONSTANTS
  Puts,      \* the puts that are called: keys and values are sequences of bytes
  MaxWrites, \* bound on the puts and deletes
  Mini,      \* the page is a mini-page
  Unused,    \* the page does not exist
  Dead,      \* deleted, and a tombstone in the mini-page
  Unknown    \* deleted and then written or moved by a split: nothing is claimed

Pages == {0, 1}
Keys == {e.key : e \in Puts}
Values == {e.val : e \in Puts}

VARIABLES
  map,      \* per page: Mini, Unused or the address of the leaf on disk
  cache,    \* per page: its mini-page, while map says Mini
  disk,     \* the leaf at address 0; nothing is ever written to another one
  pivot,    \* the pivot of the root, or None while the root is a leaf
  call,     \* the put that waits for a split, or None
  db,       \* history: per key, what a get has to return
  writes,   \* puts and deletes so far
  flaw      \* "none", or what went wrong

vars == <<map, cache, disk, pivot, call, db, writes, flaw>>

Blank(hot) == [page |-> 0, addr |-> 0, hot |-> hot, metas |-> <<>>,
               heap |-> [o \in 0..(PageBytes - 1) |-> 0]]

\* format_leaf, as QuickStep::new does with page 0 on disk.
format_leaf == ensure_fence_keys(Blank(FALSE))

Init ==
  /\ map = [p \in Pages |-> IF p = 0 THEN 0 ELSE Unused]
  /\ cache = [p \in Pages |-> None]
  /\ disk = format_leaf
  /\ pivot = None /\ call = None /\ writes = 0 /\ flaw = "none"
  /\ db = [k \in Keys |-> None]

\* read_traverse_leaf.
Leaf(key) == IF pivot = None \/ KeyLess(key, pivot) THEN 0 ELSE 1

\* The mini-page of a page: promote_leaf_to_mini_page copies the leaf and marks it hot.
promoted(p) == IF map[p] = Mini THEN cache[p] ELSE [disk EXCEPT !.hot = TRUE]

Cached(p, n) ==
  /\ cache' = [cache EXCEPT ![p] = n]
  /\ map' = [map EXCEPT ![p] = Mini]

\* What a get returns once the put is done: a put on a tombstone leaves it one.
Wrote(n, key, val) ==
  LET found == binary_search(n, Behind(get_node_prefix(n), key))
  IN  IF found.ok /\ n.metas[found.at].typ = "Tombstone" THEN Unknown ELSE val

\* WriteGuardWrapper::try_put on the node n, for a first attempt or one after a split.
TryPut(p, key, val, n, r) ==
  /\ CASE r.res = "Ok" ->
            /\ Cached(p, [r.node EXCEPT !.hot = TRUE])
            /\ db' = [db EXCEPT ![key] = Wrote(n, key, val)]
            /\ call' = None /\ UNCHANGED flaw
       [] r.res = "InsufficientSpace" ->
            /\ Cached(p, r.node)
            /\ call' = [key |-> key, val |-> val] /\ UNCHANGED <<db, flaw>>
       [] OTHER ->
            /\ Cached(p, r.node)
            /\ flaw' = r.res /\ call' = None /\ UNCHANGED db
  /\ UNCHANGED <<disk, pivot>>

put(key, val) ==
  /\ flaw = "none" /\ call = None /\ writes < MaxWrites
  /\ writes' = writes + 1
  /\ \E n \in {promoted(Leaf(key))} : TryPut(Leaf(key), key, val, n, try_put(n, key, val))

\* The loop of put, after the split.
put_again ==
  /\ flaw = "none" /\ call # None /\ pivot # None
  /\ \E n \in {cache[Leaf(call.key)]} :
       \E r \in {try_put(n, call.key, call.val)} :
         r.res # "InsufficientSpace" /\ TryPut(Leaf(call.key), call.key, call.val, n, r)
  /\ UNCHANGED writes

-------------------------------------------------------------------------------
(* split_current_leaf.                                                     *)

\* Mutant of LeafSplitPlan: the pivot is the last key that stays.
LeafSplitPlan_low(n) ==
  LET entries == user_entries(n)
      move_start == Len(entries) \div 2
  IN  [pivot_key |-> entries[IF move_start = 0 THEN 1 ELSE move_start].key,
       left |-> SubSeq(entries, 1, move_start),
       right |-> SubSeq(entries, move_start + 1, Len(entries))]

\* LeafSplitPlan::from_node: the second half moves, and its first key is the pivot.
LeafSplitPlan(n) ==
  LET entries == user_entries(n)
      move_start == Len(entries) \div 2
  IN  [pivot_key |-> entries[move_start + 1].key,
       left |-> SubSeq(entries, 1, move_start),
       right |-> SubSeq(entries, move_start + 1, Len(entries))]

\* LeafSplitPlan::apply on the full node and on its copy; apply_leaf_split reads the
\* identity of the new page from the copy.  Every entry becomes an Insert.
LeftHalf(n, plan) ==
  replay_entries(install_fences(n, fence_bounds(n).lower, plan.pivot_key), plan.left)
RightHalf(n, plan) ==
  replay_entries(install_fences(n, plan.pivot_key, fence_bounds(n).upper), plan.right)

\* After an error the pages stay as they are, and the parents are not told.
ApplySplit(plan, l, r) ==
  LET failed == "InsufficientSpace" \in {l.res, r.res}
  IN  /\ cache' = [p \in Pages |-> IF p = 0 THEN l.node
                                  ELSE IF l.res = "InsufficientSpace" THEN cache[0] ELSE r.node]
      /\ map' = [p \in Pages |-> Mini]
      /\ pivot' = IF failed THEN None ELSE plan.pivot_key
      /\ call' = IF failed THEN None ELSE call
      /\ flaw' = IF failed THEN "SplitFailed"
                 ELSE IF "foreign" \in {l.res, r.res} THEN "foreign"
                 ELSE IF "overlap" \in {l.res, r.res} THEN "overlap" ELSE "none"
      /\ db' = [k \in Keys |-> IF db[k] = Dead THEN Unknown ELSE db[k]]
      /\ UNCHANGED <<disk, writes>>

split_current_leaf ==
  /\ flaw = "none" /\ call # None /\ pivot = None
  /\ IF UserMetas(cache[0]) = <<>>
     THEN /\ flaw' = "assert"
          /\ UNCHANGED <<map, cache, disk, pivot, call, db, writes>>
     ELSE \E plan \in {LeafSplitPlan(cache[0])} :
       IF cache[0].hot
       THEN /\ flaw' = "beyond"
            /\ cache' = [cache EXCEPT ![0] = install_fences(@, fence_bounds(@).lower,
                                                            plan.pivot_key)]
            /\ UNCHANGED <<map, disk, pivot, call, db, writes>>
       ELSE ApplySplit(plan, LeftHalf(cache[0], plan), RightHalf(cache[0], plan))

-------------------------------------------------------------------------------
(* Deletes, flushes and evictions.                                         *)

\* QuickStepTx::delete, as long as the root is a leaf: a leaf that has a parent may be
\* merged at the end of a delete (Tree).
delete(key) ==
  /\ flaw = "none" /\ call = None /\ pivot = None
  /\ writes < MaxWrites /\ writes' = writes + 1
  /\ \E n \in {promoted(0)} : \E r \in {mark_tombstone(n, key)} :
       /\ Cached(0, r.node)
       /\ db' = IF r.res = "true" THEN [db EXCEPT ![key] = Dead] ELSE db
  /\ UNCHANGED <<disk, pivot, call, flaw>>

\* Mutant of FlushEntry: tombstones stay on disk.
FlushEntry_keeps(n, r, kv) ==
  IF r.res # "Ok" \/ kv.typ = "Tombstone" THEN r
  ELSE try_put_with_suffix(r.node, get_stored_key_from_meta(n, kv), get_val_from_meta(n, kv))

\* One entry of flush_dirty_entries: a tombstone takes the key from the leaf on disk,
\* any other entry, for all types count as dirty, is put there by its stored key.
FlushEntry(n, r, kv) ==
  IF r.res # "Ok" THEN r
  ELSE IF kv.typ = "Tombstone"
  THEN LET removed == remove_key_physical(r.node, get_node_prefix(n) \o
                                                  get_stored_key_from_meta(n, kv))
       IN  Result(removed.node, IF removed.res = "erase" THEN "erase" ELSE "Ok")
  ELSE IF get_node_prefix(n) # get_node_prefix(r.node) THEN Result(r.node, "prefix")
  ELSE LET written == try_put_with_suffix(r.node, get_stored_key_from_meta(n, kv),
                                          get_val_from_meta(n, kv))
       IN  Result(written.node,
                  IF written.res = "InsufficientSpace" THEN "no room" ELSE written.res)

FlushedLeaf(n) ==
  FoldLeft(LAMBDA r, kv : FlushEntry(n, r, kv), Result(disk, "Ok"), UserMetas(n))

\* Tombstones leave the mini-page, from the last one to the first.
FlushedMini(n) ==
  FoldLeft(LAMBDA r, at :
             IF r.res = "erase" \/ n.metas[at].typ # "Tombstone" THEN r
             ELSE remove_entry(r.node, at),
           Result(n, "true"), Reverse([at \in DOMAIN n.metas |-> at]))

flush_dirty_entries(p, n, leaf, mini, to) ==
  /\ disk' = leaf.node
  /\ cache' = [cache EXCEPT ![p] = IF to = Mini THEN mini.node ELSE None]
  /\ map' = [map EXCEPT ![p] = to]
  /\ flaw' = IF leaf.res # "Ok" THEN leaf.res
             ELSE IF mini.res = "erase" THEN "erase" ELSE "none"
  /\ db' = [k \in Keys |->
              IF Leaf(k) = p /\ \E i \in DOMAIN n.metas :
                   /\ n.metas[i].typ = "Tombstone"
                   /\ get_node_prefix(n) \o get_stored_key_from_meta(n, n.metas[i]) = k
              THEN None ELSE db[k]]
  /\ UNCHANGED <<pivot, call, writes>>

\* debug_flush_leaf and the checkpoints.
merge_to_disk(p) ==
  /\ flaw = "none" /\ call = None /\ map[p] # Unused
  /\ \E n \in {promoted(p)} :
       flush_dirty_entries(p, n, FlushedLeaf(n), FlushedMini(n), Mini)

\* MiniPageBuffer::evict: the second chance of a hot mini-page, then the flush.  It
\* finds the page by the name in the header.
clear_hot(p) ==
  /\ flaw = "none" /\ map[p] = Mini /\ cache[p].hot
  /\ cache' = [cache EXCEPT ![p].hot = FALSE]
  /\ UNCHANGED <<map, disk, pivot, call, db, writes, flaw>>

evict(p) ==
  /\ flaw = "none" /\ call = None
  /\ map[p] = Mini /\ ~cache[p].hot /\ cache[p].page = p
  /\ \E n \in {cache[p]} :
       flush_dirty_entries(p, n, FlushedLeaf(n), FlushedMini(n), n.addr)

Next ==
  \/ \E e \in Puts : put(e.key, e.val)
  \/ \E k \in Keys : delete(k)
  \/ put_again \/ split_current_leaf
  \/ \E p \in Pages : merge_to_disk(p) \/ clear_hot(p) \/ evict(p)

Spec == Init /\ [][Next]_vars

-------------------------------------------------------------------------------
(* Properties.                                                             *)

Metas == [key_size : 0..PageBytes, val_size : 0..PageBytes, offset : 0..(2 * PageBytes),
          typ : {"Insert", "Cache", "Tombstone"}, fence : BOOLEAN, look_ahead : 0..65535]

IsNode(n) ==
  /\ n.page \in Pages /\ n.addr \in Pages /\ n.hot \in BOOLEAN
  /\ Len(n.metas) >= 2 /\ \A i \in DOMAIN n.metas : n.metas[i] \in Metas
  /\ DOMAIN n.heap = 0..(PageBytes - 1) /\ \A o \in DOMAIN n.heap : n.heap[o] \in 0..255

\* Every variable has its shape; every node has its two fences.
TypeOK ==
  /\ map \in [Pages -> {Mini, Unused, 0}] /\ IsNode(disk)
  /\ \A p \in Pages : IF map[p] = Mini THEN IsNode(cache[p]) ELSE cache[p] = None
  /\ pivot \in Keys \cup {None} /\ writes \in 0..MaxWrites
  /\ call = None \/ (call.key \in Keys /\ call.val \in Values)
  /\ db \in [Keys -> Values \cup {None, Dead, Unknown}]
  /\ flaw \in {"none", "overlap", "erase", "erased", "todo", "beyond", "SplitFailed", "assert",
               "no room", "prefix", "foreign"}

\* The nodes of the store: the leaf on disk and the mini-pages.
Nodes == {disk} \cup {cache[p] : p \in {q \in Pages : map[q] = Mini}}

Extent(n, i) == n.metas[i].offset..(n.metas[i].offset + n.metas[i].key_size
                                    + n.metas[i].val_size - 1)
Used(n) == UNION {Extent(n, i) : i \in DOMAIN n.metas}

\* A slotted page: no two entries share a byte, together they fill the end of the page
\* without a gap, and an entry is written over the last KVMeta at most.
Slotted ==
  flaw \in {"none", "overlap"} => \A n \in Nodes :
    /\ \A i, j \in DOMAIN n.metas : i # j => Extent(n, i) \cap Extent(n, j) = {}
    /\ Used(n) = find_min_offset(n)..(PageBytes - 1)
    /\ find_min_offset(n) >= MetaEnd(record_count(n) - 1)

\* The keys that the fences of the first leaf admit; put takes others as well.
Bounded(key) == ~KeyLess(key, <<0>>) /\ KeyLess(key, <<255>>)

\* The entries between the fences are in the order of their keys, whatever these are, so
\* that binary search finds every one of them; and keys that the first fences admit
\* always lie between the two fence keys of their node.
SortedInFences ==
  flaw = "none" => \A n \in Nodes :
    /\ \A i \in DOMAIN n.metas : n.metas[i].fence <=> i \in {1, record_count(n)}
    /\ \A i, j \in DOMAIN user_entries(n) :
         i < j => KeyLess(user_entries(n)[i].key, user_entries(n)[j].key)
    /\ \A i \in DOMAIN user_entries(n) : Bounded(user_entries(n)[i].key) =>
         /\ ~KeyLess(user_entries(n)[i].key, fence_bounds(n).lower)
         /\ KeyLess(user_entries(n)[i].key, fence_bounds(n).upper)

\* PageGuard::get: the mini-page first, then the leaf at the address in its header.
Get(key) ==
  LET p == Leaf(key)
  IN  IF map[p] = Mini /\ get(cache[p], key) # None THEN get(cache[p], key)
      ELSE get(disk, key)

\* The nodes that a get reads have a prefix that is one of the key (it panics if not).
Readable(key) ==
  \A n \in {promoted(Leaf(key)), disk} : IsPrefix(get_node_prefix(n), key)

\* A get returns the value of the last put, wherever promotions, splits, flushes and
\* evictions have taken it, and nothing for a key that was never put or whose tombstone
\* was flushed.
ReadBack ==
  flaw = "none" => \A k \in Keys :
    Readable(k) /\ db[k] \in Values \cup {None} => Get(k) = db[k]

\* A put asks for a split only if the bytes that are free in the page, those of removed
\* entries included, do not hold it.
SplitOnlyWhenFull ==
  flaw = "none" /\ call # None /\ pivot = None =>
    LET n == cache[0]
    IN  PageBytes - MetaEnd(record_count(n)) - Cardinality(Used(n))
          < KVMetaBytes + Len(Behind(get_node_prefix(n), call.key)) + Len(call.val)

-------------------------------------------------------------------------------
(* What documents and comments say and TLC refutes.                        *)

\* types.rs, KVMeta: "only 12b is needed for the offset, as the maximum page size is
\* 4096".  A split of a mini-page that is hot puts its fences behind the page.
OffsetsInPage ==
  \A n \in Nodes : \A i \in DOMAIN n.metas : n.metas[i].offset < PageBytes

\* node.rs, try_put_with_suffix: "check there's enough space, then move the kvmetas then
\* add value".
EntriesBehindMetas ==
  \A n \in Nodes : find_min_offset(n) >= MetaEnd(record_count(n))

\* node.rs, erase_kv_in_buffer: "Erase the key value data in a buffer, while keeping the
\* kvmeta", of that entry and no other.
EraseKeepsOthers == flaw # "erase"

\* node.rs, try_put_with_suffix: "different length: shift other entries, then rewrite".
UpdatesOfAnyLength == flaw \notin {"erased", "todo"}

\* page_op.rs, flush_dirty_entries: "disk leaf should have room for cached entry".
FlushHasRoom == flaw # "no room"

\* design/codebase-analysis.md: "Prefix compression (common key prefix per page)"; the
\* mini-page and its leaf have the same prefix when stored keys go from one to the other.
FlushSharesPrefix == flaw # "prefix"

\* node.rs, try_put: debug_assert!(key.starts_with(node_prefix)).
KeyHasPrefix == flaw # "foreign"

\* design/codebase-analysis.md, "Special keys marking page boundaries": every key lies
\* between the fences of its page.
KeysInFences ==
  flaw = "none" => \A n \in Nodes : \A e \in Range(user_entries(n)) :
    ~KeyLess(e.key, fence_bounds(n).lower) /\ KeyLess(e.key, fence_bounds(n).upper)

\* design/detailed-plan.md: "Leaves can now be rebuilt".  The halves of a split fit.
SplitFits == flaw # "SplitFailed"
===============================================================================
