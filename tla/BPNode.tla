-------------------------------- MODULE BPNode --------------------------------
(***************************************************************************)
(* The content of an inner node (BPNode of btree.rs), its room and its     *)
(* search.  A node has a lowest child and a sequence of entries, each a    *)
(* pivot and the child at and above it.  The byte layout is left out: an   *)
(* entry takes one unit of MaxPivots.  What is kept of it is slot0, the    *)
(* entry last written at index 0, because the searches read index 0 of a   *)
(* node without entries too.                                               *)
(*                                                                         *)
(* The level of a node never changes.  The code has it in its guards, here *)
(* it is in the node.  A child is the number of a page at level 1 and of a *)
(* node above; ChildPointer tells the two apart.                           *)
(***************************************************************************)
EXTENDS Integers, Sequences

CONSTANT MaxPivots   \* entries that fit into an inner node

\* With one pivot a node of the code is far from half full, as it is here.
ASSUME PivotsAssumption == MaxPivots \in Nat /\ MaxPivots >= 3

ChildPointer(level, id) == [leaf |-> level = 1, id |-> id]

Blank == [level |-> 0, lowest |-> 0, entries |-> <<>>, slot0 |-> [key |-> 0, child |-> 0]]

-------------------------------------------------------------------------------
(* Space.                                                                  *)

space_left(n) == MaxPivots - Len(n.entries)
can_overflow(n) == space_left(n) < 1
will_underflow(n) == space_left(n) * 2 <= MaxPivots

-------------------------------------------------------------------------------
(* Search.                                                                 *)

\* One round of the loop of binary_search: low and high are closed in on.
Narrow(n, key, w) ==
  LET mid == w[1] + (w[2] - w[1]) \div 2 IN
  IF w[1] >= w[2] THEN w
  ELSE IF n.entries[mid + 1].key <= key THEN <<mid + 1, w[2]>> ELSE <<w[1], mid>>

\* The index, from 0, of the last pivot that is not above the key, or 0.
binary_search(n, key) ==
  LET count == Len(n.entries)
      window[i \in 0..count] ==
        IF i = 0 THEN <<0, count>> ELSE Narrow(n, key, window[i - 1])
      low == window[count][1]
  IN IF low = 0 THEN 0 ELSE low - 1

\* search_for_inner and search_for_leaf: they differ in the width of a child.
search(n, key) ==
  LET e == IF n.entries = <<>> THEN n.slot0 ELSE n.entries[binary_search(n, key) + 1]
  IN IF key < e.key THEN n.lowest ELSE e.child

===============================================================================
