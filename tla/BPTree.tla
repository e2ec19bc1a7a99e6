-------------------------------- MODULE BPTree --------------------------------
(***************************************************************************)
(* The optimistic lock coupling of btree.rs: how threads find the leaf of  *)
(* a key without a lock, and how they lock the part of the path that a     *)
(* split or a merge may change.                                            *)
(*                                                                         *)
(* Every word with a version is a member of Words: 0 is root_vlock and n   *)
(* the vlock of inner node n (node 0 is never allocated).  A read guard is *)
(* a word and the version it had; a version is even, and its bit 1 is the  *)
(* lock.  One step is one access to a shared word; the reads of the        *)
(* content of a node, which may race with a writer, are part of the step   *)
(* before them.  What the owner of a bundle does to the nodes (Rewrite) is *)
(* left open here: Tree says what it is.                                   *)
(***************************************************************************)
EXTENDS BPNode

CONSTANTS
  Threads,
  Keys,          \* user keys
  Pages,         \* numbers of leaf pages
  InnerCap,      \* cap: slots for inner nodes, slot 0 included
  SpinRetries    \* SPIN_RETRIES

ASSUME CapAssumption == InnerCap \in Nat \ {0}
ASSUME SpinAssumption == SpinRetries \in Nat \ {0}
ASSUME KeysAssumption == Keys \subseteq Nat /\ Pages \subseteq Nat

VARIABLES
  root,        \* level and number of the root; a page when the level is 0
  ver,         \* the version of each word
  node,        \* the inner nodes
  next_free,
  pc,          \* per thread: the step it is at
  loc,         \* per thread: the locals of a traversal
  held         \* per thread: the words of its WriteLockBundle

tree == <<root, node, next_free>>
treeVars == <<tree, ver, pc, loc, held>>

Words == 0..(InnerCap - 1)
Nodes == 1..(InnerCap - 1)

\* A WriteLockPoint: a read guard, or the root pointer.
RootPoint == [id |-> 0, ver |-> 0]
NoLoc == [key |-> 0, op |-> "Find", left |-> 0, first |-> TRUE, at |-> 0, atv |-> 0,
          kid |-> 0, kidv |-> 0, over |-> RootPoint, under |-> RootPoint, page |-> 0]

is_locked(v) == v % 4 # 0
Goto(t, where) == pc' = [pc EXCEPT ![t] = where]
Lock(t, w) ==
  /\ ver' = [ver EXCEPT ![w] = @ + 2]
  /\ held' = [held EXCEPT ![t] = @ \cup {w}]

-------------------------------------------------------------------------------
(* try_read_traverse_leaf.                                                 *)

\* read_traverse_leaf, on its own (Find) or with the write_lock that follows it.
Traverse(t, key, op) ==
  /\ loc' = [loc EXCEPT ![t] = [NoLoc EXCEPT !.key = key, !.op = op, !.left = SpinRetries]]
  /\ Goto(t, "read_root")

\* Mutant of BPRestart: a restart is not counted.
BPRestart_forever(t) == Goto(t, "read_root") /\ UNCHANGED loc

\* BPRestart: the loops of read_traverse_leaf and write_lock.
BPRestart(t) ==
  IF loc[t].left > 1
  THEN /\ loc' = [loc EXCEPT ![t] = [loc[t] EXCEPT !.left = loc[t].left - 1]]
       /\ Goto(t, "read_root")
  ELSE Goto(t, "exceeded") /\ UNCHANGED loc

\* write_lock does not use the page its own traversals find.
ReadRes(t, page) ==
  /\ loc' = [loc EXCEPT ![t] = [loc[t] EXCEPT !.at = 0, !.atv = 0, !.kid = 0, !.kidv = 0,
                      !.page = IF loc[t].first THEN page ELSE loc[t].page]]
  /\ Goto(t, IF loc[t].op = "Find" THEN "found" ELSE "lock")

read_root(t) ==
  /\ pc[t] = "read_root"
  /\ IF is_locked(ver[0]) THEN BPRestart(t)
     ELSE /\ loc' = [loc EXCEPT ![t] = [loc[t] EXCEPT !.at = 0, !.atv = ver[0],
                                                      !.over = RootPoint, !.under = RootPoint]]
          /\ Goto(t, "get_root")
  /\ UNCHANGED <<tree, ver, held>>

\* A leaf is returned without another look at the version.
get_root(t) ==
  /\ pc[t] = "get_root"
  /\ IF root.level = 0 THEN ReadRes(t, root.id)
     ELSE /\ loc' = [loc EXCEPT ![t] = [loc[t] EXCEPT !.kid = root.id]]
          /\ Goto(t, "read_inner")
  /\ UNCHANGED <<tree, ver, held>>

read_inner(t) ==
  /\ pc[t] = "read_inner"
  /\ IF is_locked(ver[loc[t].kid]) THEN BPRestart(t)
     ELSE /\ loc' = [loc EXCEPT ![t] = [loc[t] EXCEPT !.kidv = ver[loc[t].kid]]]
          /\ Goto(t, "check_parent")
  /\ UNCHANGED <<tree, ver, held>>

\* Mutant of Lower: the test is the wrong way round.
Lower_unsafe(point, n, v, safe) == IF safe THEN point ELSE [id |-> n, ver |-> v]

\* update_lock_points.
Lower(point, n, v, safe) == IF safe THEN [id |-> n, ver |-> v] ELSE point

\* What a search of node n under a guard with version v finds: any child, when a
\* writer came in between.
Found(n, v, key) ==
  IF ver[n] = v THEN {search(node[n], key)}
  ELSE IF node[n].level = 1 THEN Pages ELSE Nodes

\* Mutant of check_parent: the parent is not checked again.
check_parent_skipped(t) ==
  /\ pc[t] = "check_parent"
  /\ LET n == loc[t].kid  v == loc[t].kidv IN
     /\ \E c \in Found(n, v, loc[t].key) :
          loc' = [loc EXCEPT ![t] = [loc[t] EXCEPT
                    !.at = n, !.atv = v, !.kid = c, !.kidv = 0,
                    !.over = Lower(loc[t].over, n, v, ~can_overflow(node[n])),
                    !.under = Lower(loc[t].under, n, v, ~will_underflow(node[n]))]]
     /\ Goto(t, IF node[n].level = 1 THEN "check_leaf" ELSE "read_inner")
  /\ UNCHANGED <<tree, ver, held>>

\* unlock_or_restart of the parent; the child is the new parent, and is searched.
check_parent(t) ==
  /\ pc[t] = "check_parent"
  /\ LET n == loc[t].kid  v == loc[t].kidv IN
     IF ver[loc[t].at] # loc[t].atv THEN BPRestart(t)
     ELSE /\ \E c \in Found(n, v, loc[t].key) :
               loc' = [loc EXCEPT ![t] = [loc[t] EXCEPT
                         !.at = n, !.atv = v, !.kid = c, !.kidv = 0,
                         !.over = Lower(loc[t].over, n, v, ~can_overflow(node[n])),
                         !.under = Lower(loc[t].under, n, v, ~will_underflow(node[n]))]]
          /\ Goto(t, IF node[n].level = 1 THEN "check_leaf" ELSE "read_inner")
  /\ UNCHANGED <<tree, ver, held>>

check_leaf(t) ==
  /\ pc[t] = "check_leaf"
  /\ IF ver[loc[t].at] # loc[t].atv THEN BPRestart(t) ELSE ReadRes(t, loc[t].kid)
  /\ UNCHANGED <<tree, ver, held>>

-------------------------------------------------------------------------------
(* write_lock and lock_from_point.                                         *)

Point(t) == IF loc[t].op = "Split" THEN loc[t].over ELSE loc[t].under

\* Mutant of Descend: one level too few.
Descend_short(t, n) ==
  IF node[n].level <= 2 THEN Goto(t, "locked") /\ UNCHANGED loc
  ELSE /\ loc' = [loc EXCEPT ![t] = [loc[t] EXCEPT !.kid = search(node[n], loc[t].key)]]
       /\ Goto(t, "lock_inner")

\* The next word to lock below node n, or the end of the path.
Descend(t, n) ==
  IF node[n].level = 1 THEN Goto(t, "locked") /\ UNCHANGED loc
  ELSE /\ loc' = [loc EXCEPT ![t] = [loc[t] EXCEPT !.kid = search(node[n], loc[t].key)]]
       /\ Goto(t, "lock_inner")

\* From the root pointer: read_root and upgrade, then get_root.
lock_root(t) ==
  /\ pc[t] = "lock" /\ Point(t).id = 0
  /\ ~is_locked(ver[0])
  /\ Lock(t, 0)
  /\ IF root.level = 0 THEN Goto(t, "locked") /\ UNCHANGED loc
     ELSE /\ loc' = [loc EXCEPT ![t] = [loc[t] EXCEPT !.kid = root.id]]
          /\ Goto(t, "lock_inner")
  /\ UNCHANGED tree

\* From an inner node: the upgrade of the guard of the traversal.
lock_point(t) ==
  /\ pc[t] = "lock" /\ Point(t).id # 0
  /\ ver[Point(t).id] = Point(t).ver
  /\ Lock(t, Point(t).id)
  /\ Descend(t, Point(t).id)
  /\ UNCHANGED tree

\* Mutant of lock_inner: the lock bit is not looked at.
lock_inner_blind(t) ==
  /\ pc[t] = "lock_inner"
  /\ Lock(t, loc[t].kid)
  /\ Descend(t, loc[t].kid)
  /\ UNCHANGED tree

\* write_inner of a node below.
lock_inner(t) ==
  /\ pc[t] = "lock_inner"
  /\ ~is_locked(ver[loc[t].kid])
  /\ Lock(t, loc[t].kid)
  /\ Descend(t, loc[t].kid)
  /\ UNCHANGED tree

\* The word is locked or has changed; compare_exchange_weak may also fail for
\* nothing.  What is locked is unlocked first.
lock_fails(t) ==
  /\ pc[t] \in {"lock", "lock_inner"}
  /\ Goto(t, IF held[t] = {} THEN "retry" ELSE "back_off")
  /\ UNCHANGED <<tree, ver, loc, held>>

\* write_lock: after the point it was given, SPIN_RETRIES traversals of its own.
retry(t) ==
  /\ pc[t] = "retry"
  /\ IF loc[t].first
     THEN /\ loc' = [loc EXCEPT ![t] = [loc[t] EXCEPT !.first = FALSE, !.left = SpinRetries]]
          /\ Goto(t, "read_root")
     ELSE BPRestart(t)
  /\ UNCHANGED <<tree, ver, held>>

\* Mutant of unlock: the version goes back to what it was before the lock.
unlock_reverts(t) ==
  /\ pc[t] \in {"unlock", "back_off"}
  /\ \E w \in held[t] :
       /\ ver' = [ver EXCEPT ![w] = @ - 2]
       /\ held' = [held EXCEPT ![t] = @ \ {w}]
       /\ Goto(t, IF held[t] # {w} THEN pc[t]
                  ELSE IF pc[t] = "unlock" THEN "done" ELSE "retry")
  /\ UNCHANGED <<tree, loc>>

\* The guards are dropped, in an order that is left open.
unlock(t) ==
  /\ pc[t] \in {"unlock", "back_off"}
  /\ \E w \in held[t] :
       /\ ver' = [ver EXCEPT ![w] = @ + 2]
       /\ held' = [held EXCEPT ![t] = @ \ {w}]
       /\ Goto(t, IF held[t] # {w} THEN pc[t]
                  ELSE IF pc[t] = "unlock" THEN "done" ELSE "retry")
  /\ UNCHANGED <<tree, loc>>

-------------------------------------------------------------------------------
(* The protocol by itself.                                                 *)

\* References lead to nodes that are allocated, and these have levels.
Allocated(r, nodes, free) ==
  /\ r.level \in Nat
  /\ r.level > 0 => r.id \in Nodes /\ r.id < free
  /\ \A n \in Nodes : n < free => nodes[n].level \in Nat \ {0}
  /\ \A n \in Nodes, k \in Keys :
       nodes[n].level > 1 => search(nodes[n], k) \in Nodes /\ search(nodes[n], k) < free

\* A tree that no thread works on.  BPTree::new makes the one with a leaf as its root.
TreeInit ==
  /\ next_free \in Nat
  /\ DOMAIN node = Nodes /\ node = [n \in Nodes |-> node[n]]
  /\ Allocated(root, node, next_free)
  /\ ver = [w \in Words |-> 0]
  /\ pc = [t \in Threads |-> "idle"]
  /\ loc = [t \in Threads |-> NoLoc]
  /\ held = [t \in Threads |-> {}]

\* A caller that holds no bundle starts a traversal, or leaves.
Call(t) ==
  /\ pc[t] \in {"idle", "found", "done", "exceeded"}
  /\ \/ \E key \in Keys, op \in {"Find", "Split", "Merge"} : Traverse(t, key, op)
     \/ Goto(t, "idle") /\ loc' = [loc EXCEPT ![t] = NoLoc]
  /\ UNCHANGED <<tree, ver, held>>

\* The owner of a bundle changes the nodes of its chain, the root pointer if it has
\* that too, and nodes that nobody has seen yet; then it drops the bundle.
Rewrite(t) ==
  /\ pc[t] = "locked"
  /\ Goto(t, "unlock")
  /\ next_free' \in Nat /\ next_free' >= next_free
  /\ DOMAIN node' = Nodes /\ node' = [n \in Nodes |-> node'[n]]
  /\ \A n \in Nodes : node'[n] # node[n] => n \in held[t] \/ n >= next_free
  /\ root' # root => 0 \in held[t]
  /\ Allocated(root', node', next_free')
  /\ UNCHANGED <<ver, loc, held>>

Step(t) ==
  \/ read_root(t) \/ get_root(t) \/ read_inner(t) \/ check_parent(t) \/ check_leaf(t)
  \/ lock_root(t) \/ lock_point(t) \/ lock_inner(t) \/ lock_fails(t) \/ retry(t) \/ unlock(t)

TreeNext == \E t \in Threads : Call(t) \/ Rewrite(t) \/ Step(t)

TreeSpec == TreeInit /\ [][TreeNext]_treeVars

-------------------------------------------------------------------------------
(* Properties.                                                             *)

\* The version words exclude writers: a word is in at most one bundle, and its lock
\* bit is set just as long as it is in one.
VersionLocks ==
  /\ \A w \in Words : ver[w] % 4 = IF \E t \in Threads : w \in held[t] THEN 2 ELSE 0
  /\ \A t, u \in Threads : t # u => held[t] \cap held[u] = {}

\* Optimistic reads are sound: while the version of the guard a traversal came from
\* is unchanged, the child it goes on to is the one the guarded word leads to now,
\* whatever was written since the search.
GuardValid ==
  \A t \in Threads :
    LET l == loc[t] IN
    pc[t] \in {"read_inner", "check_parent", "check_leaf"} /\ ver[l.at] = l.atv =>
      l.kid = IF l.at = 0 THEN root.id ELSE search(node[l.at], l.key)

\* A finished bundle is the path of its key from the first word locked down to the
\* parent of the leaf, as the tree is now: no node of it was changed or left out
\* between the searches of lock_from_point and its locks.
BundlePath ==
  \A t \in Threads : pc[t] = "locked" =>
    /\ held[t] # {}
    /\ 0 \in held[t] => root.level = 0 \/ root.id \in held[t]
    /\ \A n \in held[t] \ {0} :
         node[n].level > 1 => search(node[n], loc[t].key) \in held[t]

\* A split never runs out of its bundle: when the root pointer is not locked, the
\* bundle has a node with room for one more pivot, so that the expect calls of
\* insert_into_parents_after_leaf_split and bubble_split_up find a root lock.
SplitStopsInBundle ==
  \A t \in Threads :
    pc[t] = "locked" /\ loc[t].op = "Split" /\ 0 \notin held[t] =>
      \E n \in held[t] : ~can_overflow(node[n])

===============================================================================
