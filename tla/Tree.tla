--------------------------------- MODULE Tree ---------------------------------
(***************************************************************************)
(* The store as an ordered map (lib.rs, with the plans of page_op.rs): how *)
(* put, get, delete, range_scan, commit and abort use the inner nodes of   *)
(* BPTree and the leaf pages, how a full leaf is split into two and a      *)
(* sparse one merged with its neighbor, and how the parents follow.        *)
(*                                                                         *)
(* A leaf is the set of the keys it has entries for, the keys among them   *)
(* that are tombstones, and its fences; values, the second copy on disk,   *)
(* the log and checkpoints are in Store, the bytes of keys in LeafPages.   *)
(* Page locks are taken at their promise (PageLock): the content of a leaf *)
(* changes only under its write lock, so that the lock and what is done    *)
(* under it are one step, and what is done to nodes and leaves under a     *)
(* bundle is one step as well.  Of the cache there is only the page in the *)
(* mini-page with index 0, whose word in the map table can be that of an   *)
(* unused slot, so that a range scan passes over it.                       *)
(***************************************************************************)
EXTENDS TreeUpdate

CONSTANTS
  None,
  LeafCap,      \* entries that fit into a leaf, fences not counted
  MergeMin,     \* AUTO_MERGE_MIN_ENTRIES
  Keep,         \* keep of debug_truncate_leaf, at most MergeMin
  LowFence,     \* the fences of the first leaf, in the order of the keys: there are keys
  HighFence,    \* below the one and from the other on, and put takes them
  Scenarios     \* bound: the keys put, one by one, before the threads start, and the
                \* calls of each thread, as pairs of an operation and a key or a page

ASSUME LeafAssumption == LeafCap \in Nat /\ LeafCap >= 2

\* The calls that a scenario is made of.
Calls == {"put", "get", "delete"} \X Keys \cup {"truncate"} \X Pages \cup {<<"scan", 0>>}

\* There are pages for the prefill, one for each of its keys if need be.
ASSUME ScenariosAssumption ==
  \A run \in Scenarios :
    /\ run.keys \in Seq(Keys) /\ 0..Len(run.keys) \subseteq Pages
    /\ run.todo \in [Threads -> Seq(Calls)]

VARIABLES
  leaf,         \* the leaf pages
  next_page,    \* next_free of the map table
  wlock,        \* per page: the thread with its write lock
  rlock,        \* per page: the threads with a read lock
  call,         \* per thread: the call it is in
  todo,         \* per thread: the calls it has still to make
  scan,         \* per thread: its range_scan
  chunk0,       \* the page in the mini-page with index 0, or None
  undo_log,     \* per thread
  present,      \* history: keys put and not deleted since
  flaws         \* history: how the tree came to differ from what was put

vars == <<treeVars, leaf, next_page, wlock, rlock, call, todo, scan, chunk0, undo_log,
          present, flaws>>
locks == <<wlock, rlock>>
history == <<present, flaws>>

NoScan == [slot |-> 0, seen |-> {}, hidden |-> {}, twice |-> FALSE, stable |-> {}, moved |-> FALSE]
NoCall == [op |-> "none", key |-> 0, page |-> 0, right |-> 0]

\* The keys of a leaf in their order: the place of a key, from 0, and the first of them.
Rank(keys, k) == Cardinality({j \in keys : j < k})
FirstOf(keys, n) == {k \in keys : Rank(keys, k) < n}

\* Keys that two fences admit.
Admits(l, k) == l.lo <= k /\ k < l.hi

Home(k) == LeafOf([root |-> root, node |-> node], k)

\* The chain of the bundle, from the top of the tree down: one node for each level.
Top(t) == Max({0} \cup {node[n].level : n \in held[t] \ {0}})
chain(t) == [i \in 1..Top(t) |-> CHOOSE n \in held[t] \ {0} : node[n].level = Top(t) + 1 - i]

\* The tree as the record that TreeUpdate works on.
Structure ==
  [root |-> root, node |-> node, next_free |-> next_free, leaf |-> leaf,
   next_page |-> next_page, err |-> "none", flaws |-> {}]

-------------------------------------------------------------------------------
(* Leaves.                                                                 *)

\* LeafSplitPlan: the entries are put again one by one, tombstones too.
SplitPlan(l) ==
  LET move_start == Cardinality(l.ents) \div 2
      pivot == CHOOSE k \in l.ents : Rank(l.ents, k) = move_start
  IN [pivot |-> pivot,
      left  |-> [ents |-> {k \in l.ents : k < pivot}, dead |-> {}, lo |-> l.lo, hi |-> pivot],
      right |-> [ents |-> {k \in l.ents : k >= pivot}, dead |-> {}, lo |-> pivot, hi |-> l.hi]]

\* Mutant of MergePlan: the survivor keeps its own upper fence.
MergePlan_fence(l, r) ==
  [fits  |-> Cardinality(l.ents \cup r.ents) <= LeafCap,
   left  |-> [l EXCEPT !.ents = @ \cup r.ents, !.dead = {}],
   right |-> [r EXCEPT !.ents = {}, !.dead = {}]]

\* Mutant of MergePlan: the entries of the other leaf are lost.
MergePlan_drops(l, r) ==
  [fits  |-> Cardinality(l.ents \cup r.ents) <= LeafCap,
   left  |-> [l EXCEPT !.dead = {}, !.hi = r.hi],
   right |-> [r EXCEPT !.ents = {}, !.dead = {}]]

\* LeafMergePlan: when not all entries fit, the survivor has the first of them and the
\* other leaf is as it was.
MergePlan(l, r) ==
  LET entries == l.ents \cup r.ents
      fits == Cardinality(entries) <= LeafCap
  IN [fits |-> fits,
      left  |-> [ents |-> FirstOf(entries, LeafCap), dead |-> {}, lo |-> l.lo, hi |-> r.hi],
      right |-> IF fits THEN [r EXCEPT !.ents = {}, !.dead = {}] ELSE r]

\* NodeMeta::try_put: an entry that is there is rewritten in its place.
has_room(l, k) == k \in l.ents \/ Cardinality(l.ents) < LeafCap

\* A leaf written, and the leaves and the structure after the split of leaf p.
PutEntry(l, k) == [l EXCEPT !.ents = @ \cup {k}]
SplitInto(s, path, p, q, plan) ==
  [insert_into_parents(s, path, p, plan.pivot, q)
     EXCEPT !.leaf[p] = plan.left, !.leaf[q] = plan.right, !.next_page = q + 1]

\* A put with nobody else around: what the prefill is made of.
PutAlone(s, k) ==
  LET p == LeafOf(s, k)
      q == s.next_page
      plan == SplitPlan(s.leaf[p])
      target == IF k >= plan.pivot THEN q ELSE p
  IN IF has_room(s.leaf[p], k) THEN [s EXCEPT !.leaf[p] = PutEntry(@, k)]
     ELSE [SplitInto(s, PathOf(s, k), p, q, plan) EXCEPT !.leaf[target] = PutEntry(@, k)]

-------------------------------------------------------------------------------
(* Calls and locks.                                                        *)

\* BPTree::new with set_leaf_root and the fences of format_leaf, and the puts of a prefill,
\* up to the first that fails.
NewTree ==
  [root |-> [level |-> 0, id |-> 0], node |-> [n \in Nodes |-> Blank], next_free |-> 1,
   err |-> "none", flaws |-> {}, next_page |-> 1,
   leaf |-> [p \in Pages |-> [ents |-> {}, dead |-> {}, lo |-> LowFence, hi |-> HighFence]]]

Prefilled(keys) ==
  LET after[i \in 0..Len(keys)] ==
        IF i = 0 THEN NewTree
        ELSE IF after[i - 1].err # "none" THEN after[i - 1]
        ELSE PutAlone(after[i - 1], keys[i])
  IN after[Len(keys)]

Init ==
  /\ \E run \in Scenarios : \E s \in {Prefilled(run.keys)} :
       /\ s.err = "none"
       /\ root = s.root /\ node = s.node /\ next_free = s.next_free
       /\ leaf = s.leaf /\ next_page = s.next_page
       /\ todo = run.todo /\ present = Range(run.keys) /\ flaws = s.flaws
       /\ chunk0 = IF run.keys = <<>> THEN None ELSE 0
  /\ ver = [w \in Words |-> 0]
  /\ pc = [t \in Threads |-> "idle"]
  /\ loc = [t \in Threads |-> NoLoc]
  /\ held = [t \in Threads |-> {}]
  /\ wlock = [p \in Pages |-> None]
  /\ rlock = [p \in Pages |-> {}]
  /\ call = [t \in Threads |-> NoCall]
  /\ undo_log = [t \in Threads |-> <<>>]
  /\ scan = [t \in Threads |-> NoScan]

CanWrite(t, p) == wlock[p] \in {None, t} /\ rlock[p] \subseteq {t}
CanRead(t, p) == wlock[p] \in {None, t}
TakeWrite(t, pages) ==
  /\ wlock' = [p \in Pages |-> IF p \in pages THEN t ELSE wlock[p]]
  /\ rlock' = [p \in Pages |-> IF p \in pages THEN rlock[p] \ {t} ELSE rlock[p]]

\* bound: the mini-page with index 0 changes hands only while a scan is to come, for
\* nothing else looks at it.
ScanAhead == \E t \in Threads : call[t].op = "scan" \/ <<"scan", 0>> \in Range(todo[t])

\* ensure_mini_page: a page that is written may get that mini-page, if no page has it.
Promotes(p) == chunk0' \in {chunk0} \cup IF chunk0 = None /\ ScanAhead THEN {p} ELSE {}

\* new_mini_page: it may evict the page there, unless somebody has a lock on the page, and
\* get the mini-page for the new one.
Unlocked(p) == wlock[p] = None /\ rlock[p] = {}
Evicted == {chunk0} \cup IF chunk0 # None /\ Unlocked(chunk0) /\ ScanAhead THEN {None} ELSE {}
PromotesNew(p) == chunk0' \in Evicted \cup IF None \in Evicted /\ ScanAhead THEN {p} ELSE {}

Idle(t) == pc[t] = "idle" /\ call[t].op = "none"
Return(t) ==
  /\ Goto(t, "idle")
  /\ loc' = [loc EXCEPT ![t] = NoLoc]
  /\ call' = [call EXCEPT ![t] = NoCall]

\* The page a put is at: the one found, or the half of it that the split chose.
PutPage(t) == IF pc[t] = "found" THEN loc[t].page ELSE call[t].page

\* A write that goes to another leaf than the tree has for the key.
Astray(p, k) == IF p = Home(k) THEN {} ELSE {"window"}

\* Scans under way see a key go, or leaves rebuilt.
ScansSee(gone, moved) ==
  scan' = [t \in Threads |-> [scan[t] EXCEPT !.stable = @ \ gone, !.moved = @ \/ moved]]

-------------------------------------------------------------------------------
(* put, get and delete.                                                    *)

\* The traversal that all three start with.
Begin(t, op) ==
  /\ Idle(t) /\ todo[t] # <<>> /\ Head(todo[t])[1] = op
  /\ todo' = [todo EXCEPT ![t] = Tail(@)]
  /\ call' = [call EXCEPT ![t] = [NoCall EXCEPT !.op = op, !.key = Head(todo[t])[2]]]
  /\ Traverse(t, Head(todo[t])[2], "Find")
  /\ UNCHANGED <<tree, ver, held, leaf, next_page, locks, undo_log, history, scan, chunk0>>

\* put: the write lock and try_put, when the leaf has room.
try_put(t) ==
  LET k == call[t].key  p == PutPage(t) IN
  /\ call[t].op = "put" /\ pc[t] \in {"found", "done"}
  /\ CanWrite(t, p) /\ has_room(leaf[p], k)
  /\ TakeWrite(t, {p}) /\ Promotes(p)
  /\ leaf' = [leaf EXCEPT ![p] = PutEntry(@, k)]
  /\ undo_log' = [undo_log EXCEPT ![t] = Append(@,
       [page |-> p, key |-> k, had |-> k \in leaf[p].ents, was |-> k \in present])]
  /\ present' = present \cup {k}
  /\ flaws' = flaws \cup Astray(p, k) \cup IF k \in leaf[p].dead THEN {"buried"} ELSE {}
  /\ Return(t)
  /\ UNCHANGED <<tree, ver, held, next_page, todo, scan>>

\* put: NeedsSplit, and lock_bundle_for_split.
NeedsSplit(t) ==
  LET k == call[t].key  p == PutPage(t) IN
  /\ call[t].op = "put" /\ pc[t] \in {"found", "done"}
  /\ CanWrite(t, p) /\ ~has_room(leaf[p], k)
  /\ TakeWrite(t, {p}) /\ Promotes(p)
  /\ call' = [call EXCEPT ![t].page = p]
  /\ Traverse(t, k, "Split")
  /\ UNCHANGED <<tree, ver, held, leaf, next_page, todo, undo_log, history, scan>>

\* Leaves that split and merge rebuild have tombstones no more.
Revives(pages) == IF \E p \in pages : leaf[p].dead # {} THEN {"revived"} ELSE {}

\* split_current_leaf under the bundle; a release build goes on when the bundle is for
\* another leaf than the one that is split.  After an error the leaves stay split.
split_current_leaf(t) ==
  LET p == call[t].page  q == next_page IN
  /\ call[t].op = "put" /\ pc[t] = "locked"
  /\ q \in Pages
  /\ \E plan \in {SplitPlan(leaf[p])} : \E s \in {SplitInto(Structure, chain(t), p, q, plan)} :
       /\ root' = s.root /\ node' = s.node /\ next_free' = s.next_free
       /\ leaf' = s.leaf /\ next_page' = s.next_page
       /\ flaws' = flaws \cup s.flaws \cup Revives({p})
       /\ call' = [call EXCEPT ![t] = IF s.err # "none" THEN [@ EXCEPT !.op = "end"]
                                      ELSE [@ EXCEPT !.page = IF call[t].key >= plan.pivot THEN q ELSE p]]
  /\ TakeWrite(t, {q}) /\ PromotesNew(q)
  /\ ScansSee({}, TRUE)
  /\ Goto(t, "unlock")
  /\ UNCHANGED <<ver, loc, held, todo, undo_log, present>>

\* new_mini_page, or ensure_mini_page for the right leaf of a merge, finds no room in the
\* cache: the error is returned.
CacheExhausted(t) ==
  /\ call[t].op \in {"put", "merge"} /\ pc[t] = "locked"
  /\ call' = [call EXCEPT ![t].op = "end"]
  /\ Goto(t, "unlock")
  /\ chunk0' \in IF call[t].op = "put" THEN Evicted ELSE {chunk0}
  /\ UNCHANGED <<tree, ver, loc, held, leaf, next_page, locks, todo, undo_log, history, scan>>

\* The debug_assert of split_current_leaf, in a debug build: the thread unwinds.
Panic(t) ==
  /\ call[t].op = "put" /\ pc[t] = "locked" /\ loc[t].page # call[t].page
  /\ call' = [call EXCEPT ![t].op = "panic"]
  /\ Goto(t, "unlock")
  /\ UNCHANGED <<tree, ver, loc, held, leaf, next_page, locks, todo, undo_log, history, scan, chunk0>>

\* get: the read lock stays with the transaction.
get(t) ==
  /\ call[t].op = "get" /\ pc[t] = "found"
  /\ CanRead(t, loc[t].page)
  /\ rlock' = IF wlock[loc[t].page] = t THEN rlock
              ELSE [rlock EXCEPT ![loc[t].page] = @ \cup {t}]
  /\ Return(t)
  /\ UNCHANGED <<tree, ver, held, leaf, next_page, wlock, todo, undo_log, history, scan, chunk0>>

\* Tombstones and fences are counted: exists is true of every record type.
user_entry_count(l) == Cardinality(l.ents) + 2

\* delete of a key with an entry that is no tombstone; a leaf with few entries goes on
\* to try_auto_merge.
delete(t) ==
  LET k == call[t].key  p == loc[t].page IN
  /\ call[t].op = "delete" /\ pc[t] = "found"
  /\ CanWrite(t, p) /\ k \in leaf[p].ents \ leaf[p].dead
  /\ TakeWrite(t, {p}) /\ Promotes(p)
  /\ leaf' = [leaf EXCEPT ![p].dead = @ \cup {k}]
  /\ undo_log' = [undo_log EXCEPT ![t] = Append(@,
       [page |-> p, key |-> k, had |-> TRUE, was |-> k \in present])]
  /\ present' = present \ {k}
  /\ flaws' = flaws \cup Astray(p, k)
  /\ ScansSee({k}, FALSE)
  /\ Goto(t, "idle")
  /\ loc' = [loc EXCEPT ![t] = NoLoc]
  /\ call' = [call EXCEPT ![t] = IF user_entry_count(leaf[p]) > MergeMin THEN NoCall
                                 ELSE [NoCall EXCEPT !.op = "auto_merge", !.page = p]]
  /\ UNCHANGED <<tree, ver, held, next_page, todo>>

\* delete of a key that is not there.
DeleteMisses(t) ==
  LET k == call[t].key  p == loc[t].page IN
  /\ call[t].op = "delete" /\ pc[t] = "found"
  /\ CanWrite(t, p) /\ k \notin leaf[p].ents \ leaf[p].dead
  /\ TakeWrite(t, {p}) /\ Promotes(p)
  /\ Return(t)
  /\ UNCHANGED <<tree, ver, held, leaf, next_page, todo, undo_log, history, scan>>

\* A page lock is not to be had, a traversal has used up its tries, or a step that
\* failed has dropped its bundle: the call returns.
Fail(t) ==
  /\ \/ pc[t] \in {"found", "exceeded"}
     \/ pc[t] = "idle" /\ call[t].op \in {"auto_merge", "merge"}
     \/ pc[t] = "done" /\ call[t].op = "end"
  /\ Return(t)
  /\ UNCHANGED <<tree, ver, held, leaf, next_page, locks, todo, undo_log, history, scan, chunk0>>

-------------------------------------------------------------------------------
(* Merging.                                                                *)

\* The children of a root that is the parent of leaves; none if a writer is there.
debug_root_leaf_parent ==
  IF root.level = 1 /\ ~is_locked(ver[0]) /\ ~is_locked(ver[root.id])
  THEN Children(node[root.id]) ELSE <<>>

\* try_auto_merge: the neighbor to merge with, to the right if there is one.  (Without
\* a snapshot or a neighbor the call returns: Fail.)
try_auto_merge(t) ==
  LET children == debug_root_leaf_parent
      idx == SelectInSeq(children, LAMBDA c : c = call[t].page)
      left == IF idx < Len(children) THEN idx ELSE idx - 1
  IN
  /\ call[t].op = "auto_merge"
  /\ Len(children) >= 2 /\ idx # 0
  /\ call' = [call EXCEPT ![t] = [@ EXCEPT !.op = "merge", !.page = children[left],
                                           !.right = children[left + 1]]]
  /\ UNCHANGED <<treeVars, leaf, next_page, locks, todo, undo_log, history, scan, chunk0>>

\* debug_truncate_leaf with auto_merge: neither undone by an abort nor logged.
debug_truncate_leaf(t) ==
  LET p == Head(todo[t])[2]
      kept == FirstOf(leaf[p].ents, Keep)
  IN
  /\ Idle(t) /\ todo[t] # <<>> /\ Head(todo[t])[1] = "truncate"
  /\ todo' = [todo EXCEPT ![t] = Tail(@)]
  /\ CanWrite(t, p) /\ Cardinality(leaf[p].ents) > Keep
  /\ TakeWrite(t, {p}) /\ Promotes(p)
  /\ leaf' = [leaf EXCEPT ![p] = [@ EXCEPT !.ents = kept, !.dead = {}]]
  /\ present' = present \ (leaf[p].ents \ kept)
  /\ flaws' = flaws \cup Revives({p})
  /\ ScansSee(leaf[p].ents \ kept, FALSE)
  /\ call' = [call EXCEPT ![t] = [NoCall EXCEPT !.op = "auto_merge", !.page = p]]
  /\ UNCHANGED <<treeVars, next_page, undo_log>>

\* debug_truncate_leaf of a leaf with no more than that.
NothingToTruncate(t) ==
  LET p == Head(todo[t])[2] IN
  /\ Idle(t) /\ todo[t] # <<>> /\ Head(todo[t])[1] = "truncate"
  /\ todo' = [todo EXCEPT ![t] = Tail(@)]
  /\ CanWrite(t, p) /\ Cardinality(leaf[p].ents) <= Keep
  /\ TakeWrite(t, {p}) /\ Promotes(p)
  /\ UNCHANGED <<treeVars, leaf, next_page, call, undo_log, history, scan>>

\* debug_merge_leaves: both write locks, first_user_key, and the bundle.
debug_merge_leaves(t) ==
  LET p == call[t].page  q == call[t].right IN
  /\ call[t].op = "merge" /\ pc[t] = "idle"
  /\ CanWrite(t, p) /\ CanWrite(t, q) /\ leaf[p].ents # {}
  /\ TakeWrite(t, {p, q}) /\ Promotes(p)
  /\ Traverse(t, Min(leaf[p].ents), "Merge")
  /\ UNCHANGED <<tree, ver, held, leaf, next_page, call, todo, undo_log, history, scan>>

\* merge_leaf_pages under the bundle.
merge_leaf_pages(t) ==
  LET p == call[t].page
      q == call[t].right
      plan == MergePlan(leaf[p], leaf[q])
  IN
  /\ call[t].op = "merge" /\ pc[t] = "locked"
  /\ leaf' = [leaf EXCEPT ![p] = plan.left, ![q] = plan.right]
  /\ \E s \in {IF plan.fits THEN remove_parent_after_merge(Structure, chain(t), 0 \in held[t], p, q)
               ELSE Fails(Structure, "MergeFailed")} :
       /\ root' = s.root /\ node' = s.node /\ next_free' = s.next_free
       /\ flaws' = flaws \cup s.flaws \cup Revives({p, q})
  /\ call' = [call EXCEPT ![t].op = "end"]
  /\ ScansSee({}, TRUE)
  /\ Promotes(q)
  /\ Goto(t, "unlock")
  /\ UNCHANGED <<ver, loc, held, next_page, locks, todo, undo_log, present>>

\* first_user_key: the left leaf has no entry.
NothingToMerge(t) ==
  LET p == call[t].page  q == call[t].right IN
  /\ call[t].op = "merge" /\ pc[t] = "idle"
  /\ CanWrite(t, p) /\ CanWrite(t, q) /\ leaf[p].ents = {}
  /\ TakeWrite(t, {p, q}) /\ Promotes(p)
  /\ Return(t)
  /\ UNCHANGED <<tree, ver, held, leaf, next_page, todo, undo_log, history, scan>>

\* An error when write locks are taken already, which stay with the transaction:
\* ensure_mini_page finds no room, or the second leaf of a merge is not to be had.
LockedInVain(t) ==
  /\ \/ call[t].op \in {"put", "delete"} /\ pc[t] = "found"
     \/ call[t].op = "merge" /\ pc[t] = "idle"
  /\ \E pages \in IF call[t].op = "merge"
                   THEN {{call[t].page}, {call[t].page, call[t].right}} ELSE {{loc[t].page}} :
       /\ \A p \in pages : CanWrite(t, p)
       /\ TakeWrite(t, pages)
  /\ Return(t)
  /\ UNCHANGED <<tree, ver, held, leaf, next_page, todo, undo_log, history, scan, chunk0>>

-------------------------------------------------------------------------------
(* The end of a transaction.                                               *)

EndTx(t) ==
  /\ wlock' = [p \in Pages |-> IF wlock[p] = t THEN None ELSE wlock[p]]
  /\ rlock' = [p \in Pages |-> rlock[p] \ {t}]
  /\ undo_log' = [undo_log EXCEPT ![t] = <<>>]

commit(t) ==
  /\ Idle(t)
  /\ \E p \in Pages : wlock[p] = t \/ t \in rlock[p]
  /\ EndTx(t)
  /\ UNCHANGED <<treeVars, leaf, next_page, call, todo, history, scan, chunk0>>

\* apply_undo_action: on the page that the write was made on.  One without room panics in
\* abort_in_place, and the drop that follows goes on with the others.
apply_undo_action(u, s) ==
  LET gone == [s.leaf[u.page] EXCEPT !.ents = @ \ {u.key}, !.dead = @ \ {u.key}]
      room == has_room(gone, u.key)
  IN [leaf |-> [s.leaf EXCEPT ![u.page] = IF u.had /\ room THEN PutEntry(gone, u.key) ELSE gone],
      present |-> IF u.was THEN s.present \cup {u.key} ELSE s.present \ {u.key},
      flaws |-> s.flaws \cup (IF u.had /\ ~room THEN {"undo"} ELSE {})
                        \cup (IF u.page # Home(u.key) THEN {"undo"} ELSE {})
                        \cup (IF u.had /\ ~u.was THEN {"revived"} ELSE {})]

\* The undo log of a transaction, the last write first.
Undone(log, s) ==
  LET after[i \in 0..Len(log)] ==
        IF i = 0 THEN s ELSE apply_undo_action(log[Len(log) + 1 - i], after[i - 1])
  IN after[Len(log)]

Unwinding(t) == pc[t] = "done" /\ call[t].op = "panic"

\* abort_in_place, by a call or by the drop of the transaction when a panic unwinds.
abort(t) ==
  /\ Idle(t) \/ Unwinding(t)
  /\ \E p \in Pages : wlock[p] = t \/ t \in rlock[p]
  /\ \E s \in {Undone(undo_log[t], [leaf |-> leaf, present |-> present, flaws |-> flaws])} :
       /\ leaf' = s.leaf /\ present' = s.present /\ flaws' = s.flaws
       /\ ScansSee(present \ s.present, FALSE)
  /\ EndTx(t)
  /\ Return(t)
  /\ UNCHANGED <<tree, ver, held, next_page, todo, chunk0>>

-------------------------------------------------------------------------------
(* range_scan over all keys: page by page, each under a read lock of its   *)
(* own, whatever the tree says.                                            *)

\* Mutant of ScanBegin: the first page of the map table is left out.
ScanBegin_from_one(t) ==
  /\ Idle(t) /\ todo[t] # <<>> /\ Head(todo[t])[1] = "scan"
  /\ todo' = [todo EXCEPT ![t] = Tail(@)]
  /\ call' = [call EXCEPT ![t] = [NoCall EXCEPT !.op = "scan"]]
  /\ scan' = [scan EXCEPT ![t] = [NoScan EXCEPT !.stable = present, !.slot = 1]]
  /\ UNCHANGED <<treeVars, leaf, next_page, locks, undo_log, history, chunk0>>

ScanBegin(t) ==
  /\ Idle(t) /\ todo[t] # <<>> /\ Head(todo[t])[1] = "scan"
  /\ todo' = [todo EXCEPT ![t] = Tail(@)]
  /\ call' = [call EXCEPT ![t] = [NoCall EXCEPT !.op = "scan"]]
  /\ scan' = [scan EXCEPT ![t] = [NoScan EXCEPT !.stable = present]]
  /\ UNCHANGED <<treeVars, leaf, next_page, locks, undo_log, history, chunk0>>

\* The entries of a page, tombstones too.
records_between(l) == l.ents

\* A word that is not 0: the word of the mini-page with index 0 is, without a lock.
has_entry(p) == p < next_page /\ ~(p = chunk0 /\ Unlocked(p))

\* A page that nobody is writing, read under a lock, or passed over as an unused slot.
ScanPage(t) ==
  LET p == scan[t].slot
      records == IF has_entry(p) THEN records_between(leaf[p]) ELSE {}
  IN
  /\ call[t].op = "scan" /\ p < next_page /\ wlock[p] = None
  /\ scan' = [scan EXCEPT ![t] = [@ EXCEPT !.slot = p + 1, !.seen = @ \cup records,
                !.hidden = @ \cup (records_between(leaf[p]) \ records),
                !.twice = @ \/ scan[t].seen \cap records # {}]]
  /\ UNCHANGED <<treeVars, leaf, next_page, locks, call, todo, undo_log, history, chunk0>>

\* The end of the map table, or a page that is being written, an error.
ScanEnd(t) ==
  LET p == scan[t].slot IN
  /\ call[t].op = "scan" /\ (p >= next_page \/ wlock[p] # None)
  /\ call' = [call EXCEPT ![t] = NoCall]
  /\ scan' = [scan EXCEPT ![t] = NoScan]
  /\ UNCHANGED <<treeVars, leaf, next_page, locks, todo, undo_log, history, chunk0>>

-------------------------------------------------------------------------------

\* The steps of BPTree leave everything else alone.
TreeStep(t) ==
  /\ Step(t)
  /\ UNCHANGED <<leaf, next_page, locks, call, todo, undo_log, history, scan, chunk0>>

Work(t) ==
  \/ TreeStep(t)
  \/ try_put(t) \/ NeedsSplit(t) \/ CacheExhausted(t) \/ split_current_leaf(t) \/ Panic(t)
  \/ get(t) \/ delete(t) \/ DeleteMisses(t) \/ Fail(t)
  \/ try_auto_merge(t) \/ debug_merge_leaves(t) \/ NothingToMerge(t) \/ merge_leaf_pages(t)
  \/ ScanPage(t) \/ ScanEnd(t) \/ LockedInVain(t)
  \/ Unwinding(t) /\ abort(t)

Next ==
  \E t \in Threads :
    \/ Work(t) \/ commit(t) \/ abort(t) \/ ScanBegin(t)
    \/ debug_truncate_leaf(t) \/ NothingToTruncate(t)
    \/ Begin(t, "put") \/ Begin(t, "get") \/ Begin(t, "delete")

\* A thread that is in a call goes on.
Fairness == \A t \in Threads : WF_vars(Work(t))

Spec == Init /\ [][Next]_vars /\ Fairness

-------------------------------------------------------------------------------
(* Properties.                                                             *)

\* The traversal of read_traverse_leaf is linearizable: the page it returns is the
\* leaf that the tree has for the key at that moment, whatever splits ran beside it,
\* unless an overflow dropped a child from its parent.
TraversalFindsLeaf ==
  [][\A t \in Threads :
       pc[t] \in {"get_root", "check_leaf"} /\ pc'[t] \in {"found", "lock"} /\ loc[t].first
         /\ "overflow" \notin flaws
       => loc'[t].page = Home(loc[t].key)]_vars

\* Tree and leaves are the map of the keys that were put.  Whatever fails, a key that was
\* put has an entry in some leaf.  Unless one of the flaws moved an entry, it is in the
\* leaf the tree leads to, no leaf has an entry for a key that is led elsewhere, and there
\* is no entry for a key that was not put but its tombstone.
MapAgrees ==
  /\ \A k \in present : \E p \in Pages : k \in leaf[p].ents
  /\ flaws \subseteq {"revived", "buried"} =>
       /\ \A k \in present : k \in leaf[Home(k)].ents
       /\ \A p \in Pages : \A k \in leaf[p].ents :
            Home(k) = p /\ (flaws = {} /\ k \notin leaf[p].dead => k \in present)

\* Fences follow the pivots: a key between the fences of the first leaf is between those
\* of the leaf it is led to, so that the common prefix of the fences is a prefix of it.
FencesAgree ==
  flaws \subseteq {"revived", "buried", "undo"} =>
    \A k \in Keys : LowFence <= k /\ k < HighFence => Admits(leaf[Home(k)], k)

\* A range scan that has come to its end, with no leaf split or merged beside it, has no
\* key twice, and of the keys that were there all along it misses only those that it found
\* on an unlocked page in the mini-page with index 0.
ScanExact ==
  \A t \in Threads :
    call[t].op = "scan" /\ scan[t].slot >= next_page /\ ~scan[t].moved /\ flaws = {} =>
      scan[t].stable \subseteq scan[t].seen \cup scan[t].hidden /\ ~scan[t].twice

\* Every call returns: the retries of traversals and of write_lock are bounded, and no
\* thread waits for another.
CallsReturn == \A t \in Threads : call[t].op # "none" ~> call[t].op = "none"

\* tests/quickstep_merge.rs: a root that is left with one child is replaced by it.
RootDemotes == root.level > 0 => node[root.id].entries # <<>>

\* tests/quickstep_range.rs: a range scan has every key that was put before it.
ScanComplete ==
  \A t \in Threads :
    call[t].op = "scan" /\ scan[t].slot >= next_page /\ ~scan[t].moved /\ flaws = {} =>
      scan[t].stable \subseteq scan[t].seen

\* lib.rs: the bundle of a split is for the leaf that the put has locked.
SplitBundleReferencesLeaf ==
  \A t \in Threads : pc[t] = "locked" /\ call[t].op = "put" => loc[t].page = call[t].page

\* design/detailed-plan.md: an inner node is rebuilt with all its children and a sibling.
OverflowKeepsChildren == "overflow" \notin flaws

===============================================================================
