------------------------------ MODULE NodeUpdate ------------------------------
(***************************************************************************)
(* How an inner node is changed (BPNode of btree.rs): it is reset and its  *)
(* entries are appended one by one, up to the first that is refused: there *)
(* is no room for it, or its key is too long, as only that of a new entry  *)
(* can be.  The first four operators are those of SequencesExt, and all    *)
(* that is used of it: with the whole of it the provers take four times as *)
(* long.                                                                   *)
(***************************************************************************)
EXTENDS BPNode, FiniteSetsExt

CONSTANT LongKeys   \* keys of more than MAX_KEY_LENGTH bytes: leaves have them, inner nodes do not

Last(s) == s[Len(s)]
InsertAt(s, i, e) == SubSeq(s, 1, i - 1) \o <<e>> \o SubSeq(s, i, Len(s))
RemoveAt(s, i) == SubSeq(s, 1, i - 1) \o SubSeq(s, i + 1, Len(s))

\* The first place of an element that passes the test, or 0.
SelectInSeq(s, Test(_)) ==
  LET I == {i \in 1..Len(s) : Test(s[i])} IN IF I = {} THEN 0 ELSE Min(I)

Rebuild(n, lowest, entries) ==
  LET kept == IF Len(entries) <= MaxPivots THEN entries ELSE SubSeq(entries, 1, MaxPivots) IN
  [n EXCEPT !.lowest = lowest, !.entries = kept,
            !.slot0 = IF kept = <<>> THEN @ ELSE kept[1]]

\* Where an entry for a new right sibling of the child goes, 0 if the node has no such child.
InsertIndex(n, left) ==
  IF left = ChildPointer(n.level, n.lowest) THEN 1
  ELSE LET i == SelectInSeq(n.entries, LAMBDA e : ChildPointer(n.level, e.child) = left)
       IN IF i = 0 THEN 0 ELSE i + 1

WithEntry(n, left, pivot, right) ==
  InsertAt(n.entries, InsertIndex(n, left), [key |-> pivot, child |-> right.id])

\* The length of a key is looked at before the room for it.  A pivot that is refused leaves
\* the node with the entries before it.
insert_entry_after_child(n, left, pivot, right) ==
  LET i == InsertIndex(n, left) IN
  IF i = 0 THEN [node |-> n, err |-> "ParentChildMissing"]
  ELSE IF pivot \in LongKeys
  THEN [node |-> Rebuild(n, n.lowest, SubSeq(n.entries, 1, i - 1)), err |-> "KeyTooLarge"]
  ELSE [node |-> Rebuild(n, n.lowest, WithEntry(n, left, pivot, right)),
        err |-> IF can_overflow(n) THEN "NodeFull" ELSE "none"]

\* The two halves of a node with these entries, and the pivot between them: what
\* split_inner_node makes of a node and the entry that did not fit.
Halves(n, entries, promote) ==
  [left  |-> Rebuild(n, n.lowest, SubSeq(entries, 1, promote - 1)),
   key   |-> entries[promote].key,
   right |-> Rebuild([Blank EXCEPT !.level = n.level], entries[promote].child,
                     SubSeq(entries, promote + 1, Len(entries)))]
SplitHalves(n, entries) == Halves(n, entries, Len(entries) \div 2 + 1)

Children(n) == <<n.lowest>> \o [i \in 1..Len(n.entries) |-> n.entries[i].child]
ChildIndex(n, child) == SelectInSeq(Children(n), LAMBDA id : ChildPointer(n.level, id) = child)

\* The survivor has to be the child just before the one that is removed.
remove_entry_for_merge(n, survivor, removed) ==
  IF ChildIndex(n, survivor) = 0 \/ ChildIndex(n, removed) # ChildIndex(n, survivor) + 1
  THEN [node |-> n, err |-> "ParentChildMissing"]
  ELSE [node |-> Rebuild(n, n.lowest, RemoveAt(n.entries, ChildIndex(n, survivor))), err |-> "none"]

===============================================================================
