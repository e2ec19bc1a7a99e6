------------------------------ MODULE TreeUpdate ------------------------------
(***************************************************************************)
(* How the inner nodes follow their leaves (btree.rs, and the part of      *)
(* lib.rs that walks up the chain of a bundle): the entry for a new leaf   *)
(* goes into its parent, a full parent is split and hands an entry to the  *)
(* node above, and a root that is split gets a root above it; a leaf that  *)
(* is merged away leaves its parent.                                       *)
(*                                                                         *)
(* A structure is a record of the variables of a tree, with the error of   *)
(* the last operation and with flaws, how it came to differ from what was  *)
(* put.                                                                    *)
(***************************************************************************)
EXTENDS BPTree, NodeUpdate

\* The nodes that a key is led through, from the root down, and the leaf at the end.
Route(s, k) ==
  LET at[i \in 0..s.root.level] == IF i = 0 THEN s.root.id ELSE search(s.node[at[i - 1]], k)
  IN at
LeafOf(s, k) == Route(s, k)[s.root.level]
PathOf(s, k) == [i \in 1..s.root.level |-> Route(s, k)[i - 1]]

-------------------------------------------------------------------------------
(* Parents after the split of a leaf.                                      *)

Fails(s, err) == [s EXCEPT !.err = err, !.flaws = @ \cup {err}]

\* alloc_inner_node takes a number also when there is no node.
alloc_inner_node(s) ==
  IF s.next_free >= InnerCap THEN Fails([s EXCEPT !.next_free = @ + 1], "TreeFull")
  ELSE [s EXCEPT !.next_free = @ + 1]

\* init_leaf_parent, and the same one level up.
init_parent(level, left, pivot, right) ==
  Rebuild([Blank EXCEPT !.level = level], left.id, <<[key |-> pivot, child |-> right.id]>>)

\* promote_leaf_root and promote_inner_root.  With a pivot that is too long the new node
\* is in use, without an entry, and nothing leads to it.
promote_root(s, level, left, pivot, right) ==
  LET a == alloc_inner_node(s)
      m == init_parent(level, left, pivot, right)
  IN IF a.err # "none" THEN a
     ELSE IF pivot \in LongKeys
     THEN Fails([a EXCEPT !.node[s.next_free] = [m EXCEPT !.entries = <<>>]], "KeyTooLarge")
     ELSE [a EXCEPT !.node[s.next_free] = m, !.root = [level |-> level, id |-> s.next_free]]

\* split_inner_node, of a node that insert_entry_after_child has filled: it has the new
\* entry already unless that was the last, and gets it again.  What is left to do is an
\* entry for the new node one level up, or nothing when there is no new node.
Split(s, id, h) ==
  LET a == alloc_inner_node(s)
      done == a.err # "none"
  IN [s     |-> IF done THEN a ELSE [a EXCEPT !.node[id] = h.left, !.node[s.next_free] = h.right],
      left  |-> ChildPointer(2, id), pivot |-> h.key, right |-> ChildPointer(2, s.next_free),
      level |-> s.node[id].level, done |-> done]
split_inner_node(s, id, left, pivot, right) ==
  Split(s, id, SplitHalves(s.node[id], WithEntry(s.node[id], left, pivot, right)))

\* An entry that is not the last one pushes the last one out of a full node.
Overflow(n, left) == IF InsertIndex(n, left) <= Len(n.entries) THEN {"overflow"} ELSE {}

\* One level of insert_into_parents_after_leaf_split and bubble_split_up: acc has the
\* structure, the entry that is pending, and whether it has been placed.
bubble(acc, id) ==
  LET n == acc.s.node[id]
      r == insert_entry_after_child(n, acc.left, acc.pivot, acc.right)
      full == [acc.s EXCEPT !.node[id] = r.node, !.flaws = @ \cup Overflow(n, acc.left)]
  IN IF acc.done THEN acc
     ELSE CASE r.err = "none" -> [acc EXCEPT !.s.node[id] = r.node, !.done = TRUE]
            [] r.err = "KeyTooLarge" -> [acc EXCEPT !.s = Fails([@ EXCEPT !.node[id] = r.node], r.err),
                                                    !.done = TRUE]
            [] r.err = "ParentChildMissing" -> [acc EXCEPT !.s = Fails(@, r.err), !.done = TRUE]
            [] r.err = "NodeFull" -> split_inner_node(full, id, acc.left, acc.pivot, acc.right)

Promoted(acc) ==
  IF acc.done THEN acc.s ELSE promote_root(acc.s, acc.level + 1, acc.left, acc.pivot, acc.right)

insert_into_parents(s, path, left, pivot, right) ==
  LET up[i \in 0..Len(path)] ==
        IF i = 0
        THEN [s |-> s, left |-> ChildPointer(1, left), pivot |-> pivot,
              right |-> ChildPointer(1, right), level |-> 0, done |-> FALSE]
        ELSE bubble(up[i - 1], path[Len(path) + 1 - i])
  IN Promoted(up[Len(path)])

-------------------------------------------------------------------------------
(* Parents after a merge.                                                  *)

\* The only child of a root without pivots is the new root.
demote_root_after_merge(s, n) == [s EXCEPT !.root = [level |-> n.level - 1, id |-> n.lowest]]

\* Mutant of Removed: the root is demoted whether its pointer is locked or not.
Removed_unrooted(s, path, rooted, r) ==
  IF r.err # "none" THEN Fails(s, r.err)
  ELSE IF r.node.entries # <<>> THEN [s EXCEPT !.node[Last(path)] = r.node]
  ELSE demote_root_after_merge([s EXCEPT !.node[Last(path)] = r.node], r.node)

\* remove_parent_after_merge.  A node above the parent is asked to remove itself as
\* its own child, which is an error.
Removed(s, path, rooted, r) ==
  LET parent == Last(path)
      done == [s EXCEPT !.node[parent] = r.node]
      above == remove_entry_for_merge(s.node[path[Len(path) - 1]], ChildPointer(1, r.node.lowest),
                                      ChildPointer(2, path[Len(path) - 1]))
  IN IF r.err # "none" THEN Fails(s, r.err)
     ELSE IF r.node.entries # <<>> THEN done
     ELSE IF Len(path) > 1 THEN Fails(done, above.err)
     ELSE IF rooted THEN demote_root_after_merge(done, r.node)
     ELSE [done EXCEPT !.flaws = @ \cup {"pivotless"}]
remove_parent_after_merge(s, path, rooted, survivor, removed) ==
  IF path = <<>> THEN s
  ELSE Removed(s, path, rooted,
               remove_entry_for_merge(s.node[Last(path)], ChildPointer(1, survivor), ChildPointer(1, removed)))

===============================================================================
