----------------------------- MODULE BPTreeProofs -----------------------------
(***************************************************************************)
(* Proofs about the optimistic lock coupling of btree.rs, for any number   *)
(* of threads, keys, nodes and levels, and whatever the owners of bundles  *)
(* do to the nodes they have locked: version words exclude writers,        *)
(* optimistic reads are sound, a bundle is a path, and a split does not    *)
(* run out of its bundle.  At the end, about nodes with any number of      *)
(* pivots: search is the binary search it should be.                       *)
(***************************************************************************)
EXTENDS BPTree, WellFoundedInduction, TLAPS

-------------------------------------------------------------------------------
(* The inductive invariant.                                                *)

Places == {"idle", "read_root", "get_root", "read_inner", "check_parent", "check_leaf", "found",
           "lock", "lock_inner", "locked", "unlock", "back_off", "retry", "done", "exceeded"}
Holding == {"lock_inner", "locked", "unlock", "back_off"}
Fields == {"key", "op", "left", "first", "at", "atv", "kid", "kidv", "over", "under", "page"}

\* The shape of the state.
Shape ==
  /\ DOMAIN pc = Threads /\ DOMAIN loc = Threads /\ DOMAIN held = Threads
  /\ ver \in [Words -> Nat]
  /\ next_free \in Nat
  /\ Allocated(root, node, next_free)
  /\ \A t \in Threads : pc[t] \in Places /\ DOMAIN loc[t] = Fields /\ held[t] \subseteq Words

Live(w) == w = 0 \/ w < next_free

\* A version that an unlocked word has, or had before it was locked.
Stamp(w, v) == w \in Words /\ Live(w) /\ v \in Nat /\ v % 4 = 0 /\ v <= ver[w]

\* The read guards of a thread, and the child it is about to read.
Guarded(t) ==
  /\ Stamp(loc[t].at, loc[t].atv)
  /\ Stamp(loc[t].over.id, loc[t].over.ver)
  /\ Stamp(loc[t].under.id, loc[t].under.ver)
  /\ pc[t] \in {"read_inner", "check_parent"} => loc[t].kid \in Nodes
  /\ pc[t] = "check_parent" =>
       loc[t].kidv \in Nat /\ loc[t].kidv % 4 = 0 /\ loc[t].kidv <= ver[loc[t].kid]
  /\ pc[t] = "get_root" => loc[t].at = 0
  /\ pc[t] # "idle" => loc[t].key \in Keys

\* While the version of its guard stands, a thread has the child that the guarded word
\* leads to, and that child is a node unless the thread is at the leaf.
Linked(t) ==
  ver[loc[t].at] = loc[t].atv =>
    /\ pc[t] \in {"read_inner", "check_parent", "check_leaf"} =>
         loc[t].kid = IF loc[t].at = 0 THEN root.id ELSE search(node[loc[t].at], loc[t].key)
    /\ pc[t] \in {"read_inner", "check_parent"} =>
         IF loc[t].at = 0 THEN root.level > 0 ELSE node[loc[t].at].level > 1

\* While the version of the point for a split stands, the node has room.
Roomy(t) ==
  loc[t].over.id # 0 /\ ver[loc[t].over.id] = loc[t].over.ver =>
    ~can_overflow(node[loc[t].over.id])

\* The words a bundle leads to: those it has, and the one that is locked next.
Reach(t) == held[t] \cup (IF pc[t] = "lock_inner" THEN {loc[t].kid} ELSE {})

\* What is locked is the path so far.
Bundled(t) ==
  /\ pc[t] \notin Holding => held[t] = {}
  /\ \A n \in held[t] : Live(n)
  /\ pc[t] = "lock_inner" => loc[t].kid \in Nodes /\ loc[t].kid < next_free
  /\ pc[t] \in {"lock_inner", "locked"} =>
       /\ held[t] # {}
       /\ 0 \in held[t] => root.level = 0 \/ root.id \in Reach(t)
       /\ \A n \in held[t] \ {0} : node[n].level > 1 => search(node[n], loc[t].key) \in Reach(t)
       /\ loc[t].op = "Split" /\ 0 \notin held[t] => \E n \in held[t] : ~can_overflow(node[n])

ThreadInv(t) == Guarded(t) /\ Linked(t) /\ Roomy(t) /\ Bundled(t)

TreeInv == Shape /\ VersionLocks /\ \A t \in Threads : ThreadInv(t)

-------------------------------------------------------------------------------
(* What a step of one thread does to the others.                           *)

\* The others stay where they are, versions only grow, and a node or the root pointer
\* changes only for the thread that has its word, or before anyone can see it.
Frame(u) ==
  /\ \A t \in Threads \ {u} : pc'[t] = pc[t] /\ loc'[t] = loc[t] /\ held'[t] = held[t]
  /\ \A w \in Words : ver'[w] >= ver[w]
  /\ next_free' >= next_free
  /\ \A n \in Nodes : n < next_free /\ n \notin held[u] => node'[n] = node[n]
  /\ 0 \notin held[u] => root' = root

\* Nodes are words, and so is the root pointer.
LEMMA WordFacts == Nodes \subseteq Words /\ 0 \in Words /\ 0 \notin Nodes /\ Words \subseteq Nat
                   /\ \A w \in Words : w # 0 => w \in Nodes
BY CapAssumption DEF Nodes, Words

\* A version modulo 4 after one or two steps of the lock bit.
LEMMA Version == \A v \in Nat : v % 4 \in 0..3 /\ v + 2 \in Nat /\ v + 2 >= v
                   /\ (v % 4 = 0 => (v + 2) % 4 = 2) /\ (v % 4 = 2 => (v + 2) % 4 = 0)
OBVIOUS

\* The invariant holds initially.
LEMMA InitInv == TreeInit => TreeInv
PROOF
<1> SUFFICES ASSUME TreeInit PROVE TreeInv
  OBVIOUS
<1>1. NoLoc.at = 0 /\ NoLoc.atv = 0 /\ NoLoc.over = RootPoint /\ NoLoc.under = RootPoint
      /\ DOMAIN NoLoc = Fields
  BY DEF NoLoc, Fields
<1>2. RootPoint.id = 0 /\ RootPoint.ver = 0
  BY DEF RootPoint
<1>3. Shape
  BY <1>1 DEF TreeInit, Shape, Places
<1>4. VersionLocks
  BY DEF TreeInit, VersionLocks
<1>5. ASSUME NEW t \in Threads PROVE ThreadInv(t)
  <2>1. pc[t] = "idle" /\ loc[t] = NoLoc /\ held[t] = {} /\ ver[0] = 0
    BY WordFacts DEF TreeInit
  <2>2. Guarded(t)
    BY <1>1, <1>2, <2>1, WordFacts DEF Guarded, Stamp, Live
  <2>3. Linked(t) /\ Roomy(t) /\ Bundled(t)
    BY <1>1, <1>2, <2>1 DEF Linked, Roomy, Bundled, Holding
  <2> QED BY <2>2, <2>3 DEF ThreadInv
<1> QED BY <1>3, <1>4, <1>5 DEF TreeInv

-------------------------------------------------------------------------------
(* Locking and unlocking a word.                                           *)

\* The lock of a word that is not locked: nobody else has it.
LEMMA LockKeeps ==
  ASSUME Shape, VersionLocks, NEW u \in Threads, NEW w \in Words, ver[w] % 4 = 0, Lock(u, w)
  PROVE  /\ VersionLocks'
         /\ ver' \in [Words -> Nat] /\ \A x \in Words : ver'[x] >= ver[x]
         /\ DOMAIN held' = Threads /\ held'[u] = held[u] \cup {w}
         /\ \A t \in Threads \ {u} : held'[t] = held[t]
PROOF
<1>1. ver \in [Words -> Nat] /\ DOMAIN held = Threads
  BY DEF Shape
<1>2. /\ ver' = [ver EXCEPT ![w] = ver[w] + 2]
      /\ held' = [held EXCEPT ![u] = held[u] \cup {w}]
  BY DEF Lock
<1>3. ver' \in [Words -> Nat] /\ \A x \in Words : ver'[x] >= ver[x]
  BY <1>1, <1>2, Version
<1>4. /\ DOMAIN held' = Threads /\ held'[u] = held[u] \cup {w}
      /\ \A t \in Threads \ {u} : held'[t] = held[t]
  BY <1>1, <1>2
<1>5. \A t \in Threads : w \notin held[t]
  BY DEF VersionLocks
<1>6. ver'[w] % 4 = 2
  BY <1>1, <1>2, Version
<1>7. \A x \in Words : ver'[x] % 4 = IF \E t \in Threads : x \in held'[t] THEN 2 ELSE 0
  <2> TAKE x \in Words
  <2>1. CASE x = w
    BY <1>4, <1>6, <2>1
  <2>2. CASE x # w
    <3>1. ver'[x] = ver[x] /\ \A t \in Threads : x \in held'[t] <=> x \in held[t]
      BY <1>1, <1>2, <1>4, <2>2
    <3> QED BY <3>1 DEF VersionLocks
  <2> QED BY <2>1, <2>2
<1>8. \A t, v \in Threads : t # v => held'[t] \cap held'[v] = {}
  BY <1>4, <1>5 DEF VersionLocks
<1> QED BY <1>3, <1>4, <1>7, <1>8 DEF VersionLocks

\* The unlock of a word of the bundle.
LEMMA UnlockKeeps ==
  ASSUME Shape, VersionLocks, NEW u \in Threads, NEW w \in held[u],
         ver' = [ver EXCEPT ![w] = @ + 2], held' = [held EXCEPT ![u] = @ \ {w}]
  PROVE  /\ VersionLocks'
         /\ ver' \in [Words -> Nat] /\ \A x \in Words : ver'[x] >= ver[x]
         /\ DOMAIN held' = Threads /\ held'[u] = held[u] \ {w}
         /\ \A t \in Threads \ {u} : held'[t] = held[t]
PROOF
<1>1. ver \in [Words -> Nat] /\ DOMAIN held = Threads /\ w \in Words
  BY DEF Shape
<1>2. ver' \in [Words -> Nat] /\ \A x \in Words : ver'[x] >= ver[x]
  BY <1>1, Version
<1>3. /\ DOMAIN held' = Threads /\ held'[u] = held[u] \ {w}
      /\ \A t \in Threads \ {u} : held'[t] = held[t]
  BY <1>1
<1>4. \A t \in Threads \ {u} : w \notin held[t]
  BY DEF VersionLocks
<1>5. ver[w] % 4 = 2
  BY <1>1 DEF VersionLocks
<1>6. ver'[w] % 4 = 0
  BY <1>1, <1>5, Version
<1>7. \A x \in Words : ver'[x] % 4 = IF \E t \in Threads : x \in held'[t] THEN 2 ELSE 0
  <2> TAKE x \in Words
  <2>1. CASE x = w
    <3>1. \A t \in Threads : x \notin held'[t]
      BY <1>3, <1>4, <2>1
    <3> QED BY <1>6, <2>1, <3>1
  <2>2. CASE x # w
    <3>1. ver'[x] = ver[x] /\ \A t \in Threads : x \in held'[t] <=> x \in held[t]
      BY <1>1, <1>3, <2>2
    <3> QED BY <3>1 DEF VersionLocks
  <2> QED BY <2>1, <2>2
<1>8. \A t, v \in Threads : t # v => held'[t] \cap held'[v] = {}
  BY <1>3 DEF VersionLocks
<1> QED BY <1>2, <1>3, <1>7, <1>8 DEF VersionLocks

-------------------------------------------------------------------------------
(* The threads that do not move.                                           *)

\* A word whose version stands at a stamp is in nobody's bundle, so that a step of
\* another thread leaves what it guards alone.
LEMMA StampProtects ==
  ASSUME TreeInv, NEW u \in Threads, Frame(u), Shape',
         NEW w, NEW v, Stamp(w, v)
  PROVE  /\ Stamp(w, v)'
         /\ ver'[w] = v => /\ ver[w] = v /\ w \notin held[u]
                           /\ w = 0 => root' = root
                           /\ w # 0 => w \in Nodes /\ node'[w] = node[w]
PROOF
<1>1. w \in Words /\ v \in Nat /\ v % 4 = 0 /\ v <= ver[w] /\ (w = 0 \/ w < next_free)
  BY DEF Stamp, Live
<1>2. ver[w] \in Nat /\ ver'[w] \in Nat /\ ver'[w] >= ver[w] /\ next_free' >= next_free
      /\ next_free \in Nat /\ next_free' \in Nat /\ w \in Nat
  BY <1>1, WordFacts DEF TreeInv, Shape, Frame
<1>3. Stamp(w, v)'
  BY <1>1, <1>2 DEF Stamp, Live
<1>4. ASSUME ver'[w] = v
      PROVE  /\ ver[w] = v /\ w \notin held[u]
             /\ w = 0 => root' = root
             /\ w # 0 => w \in Nodes /\ node'[w] = node[w]
  <2>1. ver[w] = v
    BY <1>1, <1>2, <1>4
  <2>2. w \notin held[u]
    BY <1>1, <2>1 DEF TreeInv, VersionLocks
  <2> QED BY <1>1, <2>1, <2>2, WordFacts DEF Frame
<1> QED BY <1>3, <1>4

\* The part of the invariant that is about a thread survives the steps of the others.
LEMMA OthersKeep ==
  ASSUME TreeInv, NEW u \in Threads, Frame(u), Shape', NEW t \in Threads, t # u
  PROVE  ThreadInv(t)'
PROOF
<1>1. pc'[t] = pc[t] /\ loc'[t] = loc[t] /\ held'[t] = held[t]
  BY DEF Frame
<1>2. Guarded(t) /\ Linked(t) /\ Roomy(t) /\ Bundled(t)
  BY DEF TreeInv, ThreadInv
<1>3. Guarded(t)'
  <2>1. /\ Stamp(loc[t].at, loc[t].atv)'
        /\ Stamp(loc[t].over.id, loc[t].over.ver)'
        /\ Stamp(loc[t].under.id, loc[t].under.ver)'
    <3>1. /\ Stamp(loc[t].at, loc[t].atv)
          /\ Stamp(loc[t].over.id, loc[t].over.ver)
          /\ Stamp(loc[t].under.id, loc[t].under.ver)
      BY <1>2 DEF Guarded
    <3>2. \A w, v : Stamp(w, v) => /\ w \in Words /\ v \in Nat /\ v % 4 = 0
                                   /\ v <= ver'[w] /\ (w = 0 \/ w < next_free')
      <4> TAKE w, v
      <4> HAVE Stamp(w, v)
      <4>1. w \in Words /\ v \in Nat /\ ver[w] \in Nat /\ ver'[w] \in Nat /\ w \in Nat
            /\ next_free \in Nat /\ next_free' \in Nat
        BY WordFacts DEF Stamp, TreeInv, Shape
      <4> QED BY <4>1 DEF Stamp, Live, Frame
    <3> QED BY <1>1, <3>1, <3>2 DEF Stamp, Live
  <2>2. pc[t] = "check_parent" => loc[t].kidv <= ver'[loc[t].kid]
    <3> HAVE pc[t] = "check_parent"
    <3>1. loc[t].kid \in Words /\ loc[t].kidv \in Nat /\ loc[t].kidv <= ver[loc[t].kid]
      BY <1>2, WordFacts, Zenon DEF Guarded
    <3>2. ver[loc[t].kid] \in Nat /\ ver'[loc[t].kid] \in Nat /\ ver'[loc[t].kid] >= ver[loc[t].kid]
      BY <3>1 DEF TreeInv, Shape, Frame
    <3> QED BY <3>1, <3>2
  <2> QED BY <1>1, <1>2, <2>1, <2>2 DEF Guarded
<1>4. Linked(t)'
  <2>1. Stamp(loc[t].at, loc[t].atv)
    BY <1>2 DEF Guarded
  <2>2. ver'[loc[t].at] = loc[t].atv =>
          /\ ver[loc[t].at] = loc[t].atv
          /\ loc[t].at = 0 => root' = root
          /\ loc[t].at # 0 => node'[loc[t].at] = node[loc[t].at]
    BY <2>1, StampProtects
  <2> QED BY <1>1, <1>2, <2>2 DEF Linked
<1>5. Roomy(t)'
  <2>1. Stamp(loc[t].over.id, loc[t].over.ver)
    BY <1>2 DEF Guarded
  <2>2. ver'[loc[t].over.id] = loc[t].over.ver =>
          /\ ver[loc[t].over.id] = loc[t].over.ver
          /\ loc[t].over.id # 0 => node'[loc[t].over.id] = node[loc[t].over.id]
    BY <2>1, StampProtects
  <2> QED BY <1>1, <1>2, <2>2 DEF Roomy
<1>6. Bundled(t)'
  <2>1. held[t] \subseteq Words /\ held[t] \cap held[u] = {} /\ next_free \in Nat /\ next_free' \in Nat
        /\ next_free' >= next_free
    BY DEF TreeInv, Shape, VersionLocks, Frame
  <2>2. \A n \in held[t] : (n = 0 => root' = root) /\ (n # 0 => node'[n] = node[n])
    BY <1>2, <2>1, WordFacts, Zenon DEF Bundled, Live, Frame
  <2>3. \A n \in Words : n < next_free => n < next_free'
    BY <2>1, WordFacts
  <2>4. \A n \in held[t] : Live(n)'
    <3>1. \A n \in held[t] : n \in Words /\ (n = 0 \/ n < next_free)
      BY <1>2, <2>1 DEF Bundled, Live
    <3> QED BY <2>3, <3>1 DEF Live
  <2>5. pc[t] = "lock_inner" => loc[t].kid \in Nodes /\ loc[t].kid < next_free'
    <3> HAVE pc[t] = "lock_inner"
    <3>1. loc[t].kid \in Nodes /\ loc[t].kid < next_free
      BY <1>2 DEF Bundled
    <3> QED BY <2>3, <3>1, WordFacts, Zenon
  <2>6. Reach(t)' = Reach(t)
    BY <1>1 DEF Reach
  <2> QED BY <1>1, <1>2, <2>2, <2>4, <2>5, <2>6 DEF Bundled
<1> QED BY <1>3, <1>4, <1>5, <1>6 DEF ThreadInv

\* A step keeps the invariant if it keeps its part for the thread that takes it.
LEMMA OwnSuffices ==
  ASSUME TreeInv, NEW u \in Threads, Frame(u), Shape', VersionLocks', ThreadInv(u)'
  PROVE  TreeInv'
BY OthersKeep DEF TreeInv

-------------------------------------------------------------------------------
(* Steps that only read.                                                   *)

\* A thread goes to another place, with other locals.
Moves(u, where, l) ==
  /\ DOMAIN pc' = Threads /\ DOMAIN loc' = Threads
  /\ \A t \in Threads \ {u} : pc'[t] = pc[t] /\ loc'[t] = loc[t]
  /\ pc'[u] = where /\ loc'[u] = l

\* Goto with new locals, or with the old ones, is such a move.
LEMMA GotoMoves ==
  ASSUME TreeInv, NEW u \in Threads, NEW where, Goto(u, where)
  PROVE  /\ \A l : loc' = [loc EXCEPT ![u] = l] => Moves(u, where, l)
         /\ loc' = loc => Moves(u, where, loc[u])
BY DEF TreeInv, Shape, Goto, Moves

\* A move that writes nothing shared leaves the others and the shape alone.
LEMMA MoveFrame ==
  ASSUME TreeInv, NEW u \in Threads, UNCHANGED <<tree, ver, held>>,
         NEW where \in Places, NEW l, Moves(u, where, l), DOMAIN l = Fields
  PROVE  Frame(u) /\ Shape' /\ VersionLocks'
PROOF
<1>1. root' = root /\ node' = node /\ next_free' = next_free /\ ver' = ver /\ held' = held
  BY DEF tree
<1>2. Frame(u)
  BY <1>1 DEF TreeInv, Shape, Frame, Moves
<1>3. Shape'
  <2>1. Allocated(root, node, next_free)'
    BY <1>1 DEF TreeInv, Shape
  <2> QED BY <1>1, <2>1 DEF TreeInv, Shape, Moves
<1>4. VersionLocks'
  BY <1>1 DEF TreeInv, VersionLocks
<1> QED BY <1>2, <1>3, <1>4

\* A move, without a bundle, to a place where the thread has no child to read.
LEMMA RestKeeps ==
  ASSUME TreeInv, NEW u \in Threads, UNCHANGED <<tree, ver, held>>, held[u] = {},
         NEW where \in Places, where \notin Holding,
         where \notin {"read_inner", "check_parent", "check_leaf"},
         NEW l, Moves(u, where, l), DOMAIN l = Fields,
         Stamp(l.at, l.atv), Stamp(l.over.id, l.over.ver), Stamp(l.under.id, l.under.ver),
         l.over = loc[u].over \/ l.over.id = 0,
         where = "get_root" => l.at = 0, where # "idle" => l.key \in Keys
  PROVE  TreeInv'
PROOF
<1>1. root' = root /\ node' = node /\ next_free' = next_free /\ ver' = ver /\ held' = held
      /\ pc'[u] = where /\ loc'[u] = l
  BY DEF tree, Moves
<1>2. Guarded(u)'
  BY <1>1 DEF Guarded, Stamp, Live
<1>3. Linked(u)'
  BY <1>1 DEF Linked
<1>4. Roomy(u)'
  BY <1>1 DEF TreeInv, ThreadInv, Roomy
<1>5. Bundled(u)'
  BY <1>1 DEF Bundled, Holding
<1>6. ThreadInv(u)'
  BY <1>2, <1>3, <1>4, <1>5 DEF ThreadInv
<1> QED BY <1>6, MoveFrame, OwnSuffices

\* Every restart of a thread without a bundle.
LEMMA RestartKeeps ==
  ASSUME TreeInv, NEW u \in Threads, UNCHANGED <<tree, ver, held>>,
         pc[u] \notin Holding, pc[u] # "idle", BPRestart(u)
  PROVE  TreeInv'
PROOF
<1>1. Guarded(u) /\ held[u] = {} /\ DOMAIN loc[u] = Fields
  BY Zenon DEF TreeInv, Shape, ThreadInv, Bundled
<1>2. CASE loc[u].left > 1
  <2> DEFINE l == [loc[u] EXCEPT !.left = loc[u].left - 1]
  <2>1. Moves(u, "read_root", l)
    BY <1>2, GotoMoves DEF BPRestart
  <2>2. DOMAIN l = Fields /\ l.at = loc[u].at /\ l.atv = loc[u].atv /\ l.over = loc[u].over
        /\ l.under = loc[u].under /\ l.key = loc[u].key
    BY <1>1 DEF Fields
  <2> HIDE DEF l
  <2> QED BY <1>1, <2>1, <2>2, RestKeeps DEF Guarded, Places, Holding
<1>3. CASE ~(loc[u].left > 1)
  <2>1. Moves(u, "exceeded", loc[u])
    BY <1>3, GotoMoves DEF BPRestart
  <2> QED BY <1>1, <2>1, RestKeeps DEF Guarded, Places, Holding
<1> QED BY <1>2, <1>3

\* The end of a traversal.
LEMMA ReadResKeeps ==
  ASSUME TreeInv, NEW u \in Threads, UNCHANGED <<tree, ver, held>>,
         pc[u] \notin Holding, pc[u] # "idle", NEW page, ReadRes(u, page)
  PROVE  TreeInv'
PROOF
<1> DEFINE l == [loc[u] EXCEPT !.at = 0, !.atv = 0, !.kid = 0, !.kidv = 0,
                               !.page = IF loc[u].first THEN page ELSE loc[u].page]
           where == IF loc[u].op = "Find" THEN "found" ELSE "lock"
<1>1. Guarded(u) /\ held[u] = {} /\ DOMAIN loc[u] = Fields /\ ver \in [Words -> Nat]
  BY DEF TreeInv, Shape, ThreadInv, Bundled
<1>2. Moves(u, where, l)
  BY GotoMoves, Zenon DEF ReadRes
<1>3. DOMAIN l = Fields /\ l.at = 0 /\ l.atv = 0 /\ l.over = loc[u].over
      /\ l.under = loc[u].under /\ l.key = loc[u].key
  BY <1>1 DEF Fields
<1>4. Stamp(0, 0)
  BY <1>1, WordFacts DEF Stamp, Live
<1>5. where \in Places /\ where \notin Holding /\ where # "idle"
      /\ where \notin {"read_inner", "check_parent", "check_leaf"}
  BY DEF Places, Holding
<1> HIDE DEF l, where
<1> QED BY <1>1, <1>2, <1>3, <1>4, <1>5, RestKeeps DEF Guarded

\* read_root, get_root and read_inner.
LEMMA ReadRootKeeps == ASSUME TreeInv, NEW u \in Threads, read_root(u) PROVE TreeInv'
PROOF
<1>1. pc[u] = "read_root" /\ UNCHANGED <<tree, ver, held>> /\ pc[u] \notin Holding
  BY DEF read_root, Holding
<1>2. Guarded(u) /\ held[u] = {} /\ DOMAIN loc[u] = Fields /\ ver \in [Words -> Nat]
  BY <1>1 DEF TreeInv, Shape, ThreadInv, Bundled
<1>3. CASE is_locked(ver[0])
  BY <1>1, <1>3, RestartKeeps DEF read_root
<1>4. CASE ~is_locked(ver[0])
  <2> DEFINE l == [loc[u] EXCEPT !.at = 0, !.atv = ver[0], !.over = RootPoint, !.under = RootPoint]
  <2>1. Moves(u, "get_root", l)
    BY <1>4, GotoMoves DEF read_root
  <2>2. DOMAIN l = Fields /\ l.at = 0 /\ l.atv = ver[0] /\ l.over = RootPoint
        /\ l.under = RootPoint /\ l.key = loc[u].key
    BY <1>2 DEF Fields
  <2>3. Stamp(0, ver[0]) /\ Stamp(RootPoint.id, RootPoint.ver) /\ RootPoint.id = 0
    BY <1>2, <1>4, WordFacts DEF Stamp, Live, is_locked, RootPoint
  <2> HIDE DEF l
  <2> QED BY <1>1, <1>2, <2>1, <2>2, <2>3, RestKeeps DEF Guarded, Places, Holding
<1> QED BY <1>3, <1>4

\* get_root reads the pointer that the guard protects.
LEMMA GetRootKeeps == ASSUME TreeInv, NEW u \in Threads, get_root(u) PROVE TreeInv'
PROOF
<1>1. pc[u] = "get_root" /\ UNCHANGED <<tree, ver, held>> /\ pc[u] \notin Holding
  BY DEF get_root, Holding
<1>2. /\ Guarded(u) /\ Roomy(u) /\ held[u] = {} /\ DOMAIN loc[u] = Fields
      /\ ver \in [Words -> Nat] /\ Allocated(root, node, next_free)
  BY <1>1 DEF TreeInv, Shape, ThreadInv, Bundled
<1>3. CASE root.level = 0
  BY <1>1, <1>3, ReadResKeeps DEF get_root
<1>4. CASE root.level # 0
  <2> DEFINE l == [loc[u] EXCEPT !.kid = root.id]
  <2>1. Moves(u, "read_inner", l)
    BY <1>4, GotoMoves DEF get_root
  <2>2. DOMAIN l = Fields /\ l.at = loc[u].at /\ l.atv = loc[u].atv /\ l.over = loc[u].over
        /\ l.under = loc[u].under /\ l.key = loc[u].key /\ l.kid = root.id
    BY <1>2 DEF Fields
  <2> HIDE DEF l
  <2>3. root.level > 0 /\ root.id \in Nodes
    BY <1>2, <1>4 DEF Allocated
  <2>4. root' = root /\ node' = node /\ next_free' = next_free /\ ver' = ver /\ held' = held
        /\ pc'[u] = "read_inner" /\ loc'[u] = l
    BY <1>1, <2>1, Zenon DEF tree, Moves
  <2>5. Guarded(u)'
    BY <1>1, <1>2, <2>2, <2>3, <2>4, Zenon DEF Guarded, Stamp, Live
  <2>6. Linked(u)'
    BY <1>1, <1>2, <2>2, <2>3, <2>4, Zenon DEF Linked, Guarded
  <2>7. Roomy(u)' /\ Bundled(u)'
    BY <1>2, <2>2, <2>4 DEF Roomy, Bundled, Holding
  <2> QED BY <1>1, <2>1, <2>2, <2>5, <2>6, <2>7, MoveFrame, OwnSuffices DEF ThreadInv, Places
<1> QED BY <1>3, <1>4

\* read_inner stamps the child with the version it sees.
LEMMA ReadInnerKeeps == ASSUME TreeInv, NEW u \in Threads, read_inner(u) PROVE TreeInv'
PROOF
<1>1. pc[u] = "read_inner" /\ UNCHANGED <<tree, ver, held>> /\ pc[u] \notin Holding
  BY DEF read_inner, Holding
<1>2. /\ Guarded(u) /\ Linked(u) /\ Roomy(u) /\ held[u] = {} /\ DOMAIN loc[u] = Fields
      /\ ver \in [Words -> Nat]
  BY <1>1 DEF TreeInv, Shape, ThreadInv, Bundled
<1>3. CASE is_locked(ver[loc[u].kid])
  BY <1>1, <1>3, RestartKeeps, Zenon DEF read_inner
<1>4. CASE ~is_locked(ver[loc[u].kid])
  <2> DEFINE l == [loc[u] EXCEPT !.kidv = ver[loc[u].kid]]
  <2>1. Moves(u, "check_parent", l)
    BY <1>4, GotoMoves DEF read_inner
  <2>2. DOMAIN l = Fields /\ l.at = loc[u].at /\ l.atv = loc[u].atv /\ l.over = loc[u].over
        /\ l.under = loc[u].under /\ l.key = loc[u].key /\ l.kid = loc[u].kid
        /\ l.kidv = ver[loc[u].kid]
    BY <1>2 DEF Fields
  <2> HIDE DEF l
  <2>3. loc[u].kid \in Nodes /\ ver[loc[u].kid] \in Nat /\ ver[loc[u].kid] % 4 = 0
    BY <1>1, <1>2, <1>4, WordFacts, Zenon DEF Guarded, is_locked
  <2>4. root' = root /\ node' = node /\ next_free' = next_free /\ ver' = ver /\ held' = held
        /\ pc'[u] = "check_parent" /\ loc'[u] = l
    BY <1>1, <2>1, Zenon DEF tree, Moves
  <2>5. Guarded(u)'
    BY <1>1, <1>2, <2>2, <2>3, <2>4 DEF Guarded, Stamp, Live
  <2>6. Linked(u)'
    BY <1>1, <1>2, <2>2, <2>4, Zenon DEF Linked
  <2>7. Roomy(u)' /\ Bundled(u)'
    BY <1>2, <2>2, <2>4 DEF Roomy, Bundled, Holding
  <2> QED BY <1>1, <2>1, <2>2, <2>5, <2>6, <2>7, MoveFrame, OwnSuffices DEF ThreadInv, Places
<1> QED BY <1>3, <1>4

\* While the guard stands, the child that is read next is allocated.
LEMMA ChildLive ==
  ASSUME TreeInv, NEW u \in Threads, pc[u] \in {"read_inner", "check_parent"},
         ver[loc[u].at] = loc[u].atv
  PROVE  loc[u].kid \in Nodes /\ loc[u].kid < next_free /\ node[loc[u].kid].level \in Nat \ {0}
PROOF
<1>1. Guarded(u) /\ Linked(u) /\ Allocated(root, node, next_free)
  BY DEF TreeInv, Shape, ThreadInv
<1>2. loc[u].key \in Keys /\ loc[u].at \in Words /\ (loc[u].at # 0 => loc[u].at \in Nodes)
  BY <1>1, WordFacts, Zenon DEF Guarded, Stamp
<1>3. CASE loc[u].at = 0
  BY <1>1, <1>3 DEF Linked, Allocated
<1>4. CASE loc[u].at # 0
  BY <1>1, <1>2, <1>4 DEF Linked, Allocated
<1> QED BY <1>3, <1>4

\* check_parent, check_leaf and the other steps that write nothing shared.
LEMMA CheckParentKeeps == ASSUME TreeInv, NEW u \in Threads, check_parent(u) PROVE TreeInv'
PROOF
<1>1. pc[u] = "check_parent" /\ UNCHANGED <<tree, ver, held>> /\ pc[u] \notin Holding
  BY Zenon DEF check_parent, Holding
<1>2. /\ Guarded(u) /\ Linked(u) /\ Roomy(u) /\ held[u] = {} /\ DOMAIN loc[u] = Fields
      /\ ver \in [Words -> Nat] /\ Allocated(root, node, next_free)
  BY <1>1 DEF TreeInv, Shape, ThreadInv, Bundled
<1>3. CASE ver[loc[u].at] # loc[u].atv
  BY <1>1, <1>3, RestartKeeps DEF check_parent
<1>4. CASE ver[loc[u].at] = loc[u].atv
  <2> DEFINE n == loc[u].kid
             v == loc[u].kidv
             where == IF node[n].level = 1 THEN "check_leaf" ELSE "read_inner"
             over == Lower(loc[u].over, n, v, ~can_overflow(node[n]))
             under == Lower(loc[u].under, n, v, ~will_underflow(node[n]))
             L(c) == [loc[u] EXCEPT !.at = n, !.atv = v, !.kid = c, !.kidv = 0,
                                    !.over = over, !.under = under]
  <2>1. PICK c \in Found(n, v, loc[u].key) : loc' = [loc EXCEPT ![u] = L(c)] /\ Goto(u, where)
    BY <1>4, Zenon DEF check_parent
  <2> DEFINE l == L(c)
  <2>2. DOMAIN l = Fields /\ l.at = n /\ l.atv = v /\ l.over = over
        /\ l.under = under /\ l.key = loc[u].key /\ l.kid = c
    BY <1>2 DEF Fields
  <2>3. Moves(u, where, l)
    BY <2>1, GotoMoves, Zenon
  <2> HIDE DEF l, L
  <2>4. root' = root /\ node' = node /\ next_free' = next_free /\ ver' = ver /\ held' = held
        /\ pc'[u] = where /\ loc'[u] = l
    BY <1>1, <2>3 DEF tree, Moves
  <2>5. n \in Nodes /\ n \in Words /\ n # 0 /\ n < next_free /\ node[n].level \in Nat \ {0}
        /\ loc[u].key \in Keys
    BY <1>1, <1>2, <1>4, ChildLive, WordFacts, Zenon DEF Guarded
  <2>6. Stamp(n, v)
    BY <1>1, <1>2, <2>5 DEF Guarded, Stamp, Live
  <2>7. over = loc[u].over \/ (over = [id |-> n, ver |-> v] /\ ~can_overflow(node[n]))
    BY DEF Lower
  <2>8. under = loc[u].under \/ under = [id |-> n, ver |-> v]
    BY DEF Lower
  <2>9. Stamp(over.id, over.ver) /\ Stamp(under.id, under.ver)
    <3> HIDE DEF n, v, over, under
    <3>1. Stamp(loc[u].over.id, loc[u].over.ver) /\ Stamp(loc[u].under.id, loc[u].under.ver)
      BY <1>2 DEF Guarded
    <3>2. Stamp(over.id, over.ver)
      BY <2>6, <2>7, <3>1
    <3>3. Stamp(under.id, under.ver)
      BY <2>6, <2>8, <3>1
    <3> QED BY <3>2, <3>3, Zenon
  <2>10. ver[n] = v => c = search(node[n], loc[u].key)
    BY Zenon DEF Found
  <2>11. where = "read_inner" => c \in Nodes /\ node[n].level > 1
    <3> HAVE where = "read_inner"
    <3>1. node[n].level # 1 /\ node[n].level > 1
      BY <2>5
    <3> QED BY <1>2, <2>5, <3>1 DEF Found, Allocated
  <2>12. where \in {"check_leaf", "read_inner"}
    BY Zenon
  <2> HIDE DEF n, v, where, over, under
  <2>13. Guarded(u)'
    BY <2>2, <2>4, <2>5, <2>6, <2>9, <2>11, <2>12, Zenon DEF Guarded, Stamp, Live
  <2>14. Linked(u)'
    BY <2>2, <2>4, <2>5, <2>10, <2>11, <2>12, Zenon DEF Linked
  <2>15. Roomy(u)'
    BY <1>2, <2>2, <2>4, <2>7 DEF Roomy
  <2>16. Bundled(u)'
    BY <1>2, <2>4, <2>12 DEF Bundled, Holding
  <2> QED BY <1>1, <2>2, <2>3, <2>12, <2>13, <2>14, <2>15, <2>16, MoveFrame, OwnSuffices, SMTT(30)
          DEF ThreadInv, Places
<1> QED BY <1>3, <1>4

\* check_leaf is the last validation before a traversal returns.
LEMMA CheckLeafKeeps == ASSUME TreeInv, NEW u \in Threads, check_leaf(u) PROVE TreeInv'
PROOF
<1>1. pc[u] = "check_leaf" /\ UNCHANGED <<tree, ver, held>> /\ pc[u] \notin Holding
  BY DEF check_leaf, Holding
<1>2. BPRestart(u) \/ ReadRes(u, loc[u].kid)
  BY DEF check_leaf
<1> QED BY <1>1, <1>2, RestartKeeps, ReadResKeeps, Zenon

\* retry starts the traversal again, or gives up.
LEMMA RetryKeeps == ASSUME TreeInv, NEW u \in Threads, retry(u) PROVE TreeInv'
PROOF
<1>1. pc[u] = "retry" /\ UNCHANGED <<tree, ver, held>> /\ pc[u] \notin Holding
  BY Zenon DEF retry, Holding
<1>2. Guarded(u) /\ held[u] = {} /\ DOMAIN loc[u] = Fields
  BY <1>1, Zenon DEF TreeInv, Shape, ThreadInv, Bundled
<1>3. CASE loc[u].first
  <2> DEFINE l == [loc[u] EXCEPT !.first = FALSE, !.left = SpinRetries]
  <2>1. Moves(u, "read_root", l)
    BY <1>3, GotoMoves DEF retry
  <2>2. DOMAIN l = Fields /\ l.at = loc[u].at /\ l.atv = loc[u].atv /\ l.over = loc[u].over
        /\ l.under = loc[u].under /\ l.key = loc[u].key
    BY <1>2 DEF Fields
  <2> HIDE DEF l
  <2> QED BY <1>1, <1>2, <2>1, <2>2, RestKeeps DEF Guarded, Places, Holding
<1>4. CASE ~loc[u].first
  BY <1>1, <1>4, RestartKeeps DEF retry
<1> QED BY <1>3, <1>4

\* A call that begins has no guard and no bundle.
LEMMA CallKeeps == ASSUME TreeInv, NEW u \in Threads, Call(u) PROVE TreeInv'
PROOF
<1>1. UNCHANGED <<tree, ver, held>> /\ pc[u] \notin Holding
  BY Zenon DEF Call, Holding
<1>2. held[u] = {} /\ ver \in [Words -> Nat]
  BY <1>1 DEF TreeInv, Shape, ThreadInv, Bundled
<1>3. Stamp(0, 0) /\ RootPoint.id = 0 /\ RootPoint.ver = 0
  BY <1>2, WordFacts DEF Stamp, Live, RootPoint
<1>4. NoLoc.at = 0 /\ NoLoc.atv = 0 /\ NoLoc.over = RootPoint /\ NoLoc.under = RootPoint
      /\ DOMAIN NoLoc = Fields
  BY Zenon DEF NoLoc, Fields
<1>5. ASSUME NEW key \in Keys, NEW op, Traverse(u, key, op) PROVE TreeInv'
  <2> DEFINE l == [NoLoc EXCEPT !.key = key, !.op = op, !.left = SpinRetries]
  <2>1. Moves(u, "read_root", l)
    BY <1>5, GotoMoves, Zenon DEF Traverse
  <2>2. DOMAIN l = Fields /\ l.at = 0 /\ l.atv = 0 /\ l.over = RootPoint
        /\ l.under = RootPoint /\ l.key = key
    BY <1>4, Zenon DEF Fields
  <2> HIDE DEF l
  <2> QED BY <1>1, <1>2, <1>3, <2>1, <2>2, RestKeeps DEF Places, Holding
<1>6. ASSUME Goto(u, "idle"), loc' = [loc EXCEPT ![u] = NoLoc] PROVE TreeInv'
  <2>1. Moves(u, "idle", NoLoc)
    BY <1>6, GotoMoves, Zenon
  <2> QED BY <1>1, <1>2, <1>3, <1>4, <2>1, RestKeeps DEF Places, Holding
<1> QED BY <1>5, <1>6 DEF Call

-------------------------------------------------------------------------------
(* Steps that lock, unlock and write.                                      *)

\* A thread locks one more word and goes on to the next, or has its bundle.
LockStep(u, w, where, l, reach) ==
  /\ UNCHANGED tree /\ Live(w) /\ ver[w] % 4 = 0 /\ Lock(u, w) /\ pc[u] # "idle"
  /\ Moves(u, where, l) /\ DOMAIN l = Fields
  /\ l.at = loc[u].at /\ l.atv = loc[u].atv /\ l.over = loc[u].over /\ l.under = loc[u].under
  /\ l.key = loc[u].key /\ l.op = loc[u].op
  /\ reach = (held[u] \cup {w}) \cup (IF where = "lock_inner" THEN {l.kid} ELSE {})
  /\ where = "lock_inner" => l.kid \in Nodes /\ l.kid < next_free
  /\ 0 \in held[u] \cup {w} => root.level = 0 \/ root.id \in reach
  /\ \A n \in (held[u] \cup {w}) \ {0} :
       node[n].level > 1 => search(node[n], loc[u].key) \in reach
  /\ loc[u].op = "Split" /\ 0 \notin held[u] \cup {w} =>
       \E n \in held[u] \cup {w} : ~can_overflow(node[n])

\* Every lock that starts or extends a bundle, whichever way the word was found.
LEMMA LockStepKeeps ==
  ASSUME TreeInv, NEW u \in Threads, NEW w \in Words, NEW where \in {"lock_inner", "locked"},
         NEW l, NEW reach, LockStep(u, w, where, l, reach)
  PROVE  TreeInv'
PROOF
<1>1. root' = root /\ node' = node /\ next_free' = next_free /\ pc'[u] = where /\ loc'[u] = l
  BY DEF LockStep, tree, Moves
<1>2. Shape /\ VersionLocks /\ Guarded(u) /\ Roomy(u) /\ Bundled(u)
  BY Zenon DEF TreeInv, ThreadInv
<1>3. /\ VersionLocks'
      /\ ver' \in [Words -> Nat] /\ \A x \in Words : ver'[x] >= ver[x]
      /\ DOMAIN held' = Threads /\ held'[u] = held[u] \cup {w}
      /\ \A t \in Threads \ {u} : held'[t] = held[t]
  <2>1. ver[w] % 4 = 0 /\ Lock(u, w)
    BY Zenon DEF LockStep
  <2> QED BY <1>2, <2>1, LockKeeps, Zenon
<1>4. Shape'
  <2>1. Allocated(root, node, next_free)'
    BY <1>1, <1>2, Zenon DEF Shape
  <2> QED BY <1>1, <1>2, <1>3, <2>1 DEF LockStep, Shape, Moves, Places
<1>5. Frame(u)
  <2>0. next_free \in Nat
    BY <1>2, Zenon DEF Shape
  <2>1. next_free' >= next_free
    BY <1>1, <2>0
  <2> QED BY <1>1, <1>3, <2>1, Zenon DEF LockStep, Frame, Moves
<1>6. /\ Stamp(loc[u].at, loc[u].atv) /\ Stamp(loc[u].over.id, loc[u].over.ver)
      /\ Stamp(loc[u].under.id, loc[u].under.ver) /\ loc[u].key \in Keys
  BY <1>2 DEF LockStep, Guarded
<1>7. \A x, v : Stamp(x, v) => x \in Words /\ Live(x) /\ v \in Nat /\ v % 4 = 0 /\ v <= ver'[x]
  <2> TAKE x, v
  <2> HAVE Stamp(x, v)
  <2>1. x \in Words /\ v \in Nat /\ ver[x] \in Nat /\ ver'[x] \in Nat /\ ver'[x] >= ver[x]
    BY <1>2, <1>3, SMTT(30) DEF Stamp, Shape
  <2> QED BY <2>1 DEF Stamp
<1>8. Guarded(u)'
  <2>1. /\ Stamp(l.at, l.atv)' /\ Stamp(l.over.id, l.over.ver)' /\ Stamp(l.under.id, l.under.ver)'
    <3>1. l.at = loc[u].at /\ l.atv = loc[u].atv /\ l.over = loc[u].over /\ l.under = loc[u].under
      BY Zenon DEF LockStep
    <3> QED BY <1>1, <1>6, <1>7, <3>1, Zenon DEF Stamp, Live
  <2> QED BY <1>1, <1>6, <2>1, Zenon DEF LockStep, Guarded
<1>9. Linked(u)'
  BY <1>1, Zenon DEF Linked
<1>10. Roomy(u)'
  <2>1. ver'[loc[u].over.id] = loc[u].over.ver => ver[loc[u].over.id] = loc[u].over.ver
    BY <1>4, <1>5, <1>6, StampProtects, SMTT(30)
  <2> QED BY <1>1, <1>2, <2>1, Zenon DEF LockStep, Roomy
<1>11. Bundled(u)'
  <2>1. Reach(u)' = reach
    BY <1>1, <1>3, Zenon DEF LockStep, Reach
  <2>2. \A n \in held'[u] : Live(n)'
    BY <1>1, <1>2, <1>3 DEF LockStep, Bundled, Live
  <2>3. where \in Holding
    BY Zenon DEF Holding
  <2> QED BY <1>1, <1>3, <2>1, <2>2, <2>3, Zenon DEF LockStep, Bundled
<1> QED BY <1>3, <1>4, <1>5, <1>8, <1>9, <1>10, <1>11, OwnSuffices, Zenon DEF ThreadInv

\* Descend goes on to the child of an allocated node, or ends above the leaf.
LEMMA DescendMoves ==
  ASSUME TreeInv, NEW u \in Threads, pc[u] # "idle",
         NEW n \in Nodes, n < next_free, Descend(u, n)
  PROVE  \E where \in {"lock_inner", "locked"}, l \in {loc'[u]} :
           /\ Moves(u, where, l) /\ DOMAIN l = Fields
           /\ l.at = loc[u].at /\ l.atv = loc[u].atv /\ l.over = loc[u].over
           /\ l.under = loc[u].under /\ l.key = loc[u].key /\ l.op = loc[u].op
           /\ where = "lock_inner" =>
                l.kid \in Nodes /\ l.kid < next_free /\ l.kid = search(node[n], loc[u].key)
           /\ where = "locked" => ~(node[n].level > 1)
PROOF
<1>1. DOMAIN loc[u] = Fields /\ Allocated(root, node, next_free) /\ loc[u].key \in Keys
  BY DEF TreeInv, Shape, ThreadInv, Guarded
<1>2. node[n].level \in Nat \ {0}
  BY <1>1, Zenon DEF Allocated
<1>3. CASE node[n].level = 1
  <2>1. Moves(u, "locked", loc[u]) /\ loc'[u] = loc[u]
    BY <1>3, GotoMoves, Zenon DEF Descend
  <2> QED BY <1>1, <1>3, <2>1
<1>4. CASE node[n].level # 1
  <2> DEFINE l == [loc[u] EXCEPT !.kid = search(node[n], loc[u].key)]
  <2>1. Moves(u, "lock_inner", l) /\ loc'[u] = l
    BY <1>4, GotoMoves DEF Descend, Moves
  <2>2. DOMAIN l = Fields /\ l.at = loc[u].at /\ l.atv = loc[u].atv /\ l.over = loc[u].over
        /\ l.under = loc[u].under /\ l.key = loc[u].key /\ l.op = loc[u].op
        /\ l.kid = search(node[n], loc[u].key)
    BY <1>1 DEF Fields
  <2>3. search(node[n], loc[u].key) \in Nodes /\ search(node[n], loc[u].key) < next_free
    BY <1>1, <1>2, <1>4 DEF Allocated
  <2> HIDE DEF l
  <2> QED BY <2>1, <2>2, <2>3
<1> QED BY <1>3, <1>4, Zenon

\* The three ways to lock a word.
LEMMA LockRootKeeps == ASSUME TreeInv, NEW u \in Threads, lock_root(u) PROVE TreeInv'
PROOF
<1>1. pc[u] = "lock" /\ UNCHANGED tree /\ Lock(u, 0) /\ 0 \in Words /\ Live(0)
  BY WordFacts, Zenon DEF lock_root, Live
<1>2. held[u] = {} /\ DOMAIN loc[u] = Fields /\ Allocated(root, node, next_free)
      /\ ver \in [Words -> Nat]
  BY <1>1 DEF TreeInv, Shape, ThreadInv, Bundled, Holding
<1>3. ver[0] % 4 = 0 /\ pc[u] # "idle" /\ held[u] \cup {0} = {0}
  BY <1>1, <1>2 DEF lock_root, is_locked
<1>4. CASE root.level = 0
  <2>1. Moves(u, "locked", loc[u])
    BY <1>4, GotoMoves DEF lock_root
  <2> DEFINE reach == {0}
  <2>2. reach = (held[u] \cup {0}) \cup (IF "locked" = "lock_inner" THEN {loc[u].kid} ELSE {})
    BY <1>3, Zenon
  <2> HIDE DEF reach
  <2>3. LockStep(u, 0, "locked", loc[u], reach)
    BY <1>1, <1>2, <1>3, <1>4, <2>1, <2>2 DEF LockStep
  <2> QED BY <1>1, <2>3, LockStepKeeps
<1>5. CASE root.level # 0
  <2> DEFINE l == [loc[u] EXCEPT !.kid = root.id]
             reach == {0, root.id}
  <2>1. Moves(u, "lock_inner", l)
    BY <1>5, GotoMoves DEF lock_root
  <2>2. DOMAIN l = Fields /\ l.at = loc[u].at /\ l.atv = loc[u].atv /\ l.over = loc[u].over
        /\ l.under = loc[u].under /\ l.key = loc[u].key /\ l.op = loc[u].op /\ l.kid = root.id
    BY <1>2 DEF Fields
  <2>3. root.id \in Nodes /\ root.id < next_free
    BY <1>2, <1>5 DEF Allocated
  <2> HIDE DEF l
  <2>4. reach = (held[u] \cup {0}) \cup (IF "lock_inner" = "lock_inner" THEN {l.kid} ELSE {})
        /\ root.id \in reach
    BY <1>3, <2>2, Zenon
  <2> HIDE DEF reach
  <2>5. LockStep(u, 0, "lock_inner", l, reach)
    BY <1>1, <1>2, <1>3, <2>1, <2>2, <2>3, <2>4 DEF LockStep
  <2> QED BY <1>1, <2>5, LockStepKeeps
<1> QED BY <1>4, <1>5

\* lock_point upgrades the guard that the traversal returned.
LEMMA LockPointKeeps == ASSUME TreeInv, NEW u \in Threads, lock_point(u) PROVE TreeInv'
PROOF
<1> DEFINE w == Point(u).id
<1>1. pc[u] = "lock" /\ UNCHANGED tree /\ Lock(u, w) /\ Descend(u, w) /\ w # 0
      /\ ver[w] = Point(u).ver /\ pc[u] # "idle"
  BY Zenon DEF lock_point
<1>2. held[u] = {} /\ Guarded(u) /\ Roomy(u)
  BY <1>1, Zenon DEF TreeInv, ThreadInv, Bundled, Holding
<1>3. Stamp(w, Point(u).ver)
  BY <1>2 DEF Guarded, Point
<1>4. w \in Words /\ Live(w) /\ ver[w] % 4 = 0 /\ w \in Nodes /\ w < next_free
      /\ held[u] \cup {w} = {w}
  BY <1>1, <1>2, <1>3, WordFacts, Zenon DEF Stamp, Live
<1>5. loc[u].op = "Split" => ~can_overflow(node[w])
  BY <1>1, <1>2, Zenon DEF Point, Roomy
<1> HIDE DEF w
<1>6. PICK where \in {"lock_inner", "locked"}, l \in {loc'[u]} :
           /\ Moves(u, where, l) /\ DOMAIN l = Fields
           /\ l.at = loc[u].at /\ l.atv = loc[u].atv /\ l.over = loc[u].over
           /\ l.under = loc[u].under /\ l.key = loc[u].key /\ l.op = loc[u].op
           /\ where = "lock_inner" =>
                l.kid \in Nodes /\ l.kid < next_free /\ l.kid = search(node[w], loc[u].key)
           /\ where = "locked" => ~(node[w].level > 1)
  BY <1>1, <1>4, DescendMoves, Zenon
<1> DEFINE reach == (held[u] \cup {w}) \cup (IF where = "lock_inner" THEN {l.kid} ELSE {})
<1>7. \A n \in (held[u] \cup {w}) \ {0} :
        node[n].level > 1 => search(node[n], loc[u].key) \in reach
  BY <1>4, <1>6
<1>8. 0 \notin held[u] \cup {w}
  BY <1>1, <1>4
<1> HIDE DEF reach
<1>9. reach = (held[u] \cup {w}) \cup (IF where = "lock_inner" THEN {l.kid} ELSE {})
  BY Zenon DEF reach
<1>10. LockStep(u, w, where, l, reach)
  BY <1>1, <1>4, <1>5, <1>6, <1>7, <1>8, <1>9, Zenon DEF LockStep
<1> QED BY <1>4, <1>10, LockStepKeeps, Zenon

\* lock_inner extends the bundle to the child that the last locked node leads to.
LEMMA LockInnerKeeps == ASSUME TreeInv, NEW u \in Threads, lock_inner(u) PROVE TreeInv'
PROOF
<1> DEFINE w == loc[u].kid
<1>1. pc[u] = "lock_inner" /\ UNCHANGED tree /\ Lock(u, w) /\ Descend(u, w)
      /\ ~is_locked(ver[w]) /\ pc[u] # "idle"
  BY DEF lock_inner
<1>2. Bundled(u)
  BY SMTT(30) DEF TreeInv, ThreadInv
<1>3. w \in Nodes /\ w < next_free /\ w \in Words /\ Live(w) /\ ver[w] % 4 = 0 /\ w # 0
  BY <1>1, <1>2, WordFacts, Zenon DEF Bundled, Live, is_locked
<1>4. Reach(u) = held[u] \cup {w}
  BY <1>1, Zenon DEF Reach
<1>5. PICK where \in {"lock_inner", "locked"}, l \in {loc'[u]} :
           /\ Moves(u, where, l) /\ DOMAIN l = Fields
           /\ l.at = loc[u].at /\ l.atv = loc[u].atv /\ l.over = loc[u].over
           /\ l.under = loc[u].under /\ l.key = loc[u].key /\ l.op = loc[u].op
           /\ where = "lock_inner" =>
                l.kid \in Nodes /\ l.kid < next_free /\ l.kid = search(node[w], loc[u].key)
           /\ where = "locked" => ~(node[w].level > 1)
  BY <1>1, <1>3, DescendMoves, Zenon
<1> HIDE DEF w
<1> DEFINE reach == (held[u] \cup {w}) \cup (IF where = "lock_inner" THEN {l.kid} ELSE {})
<1>6. \A n \in (held[u] \cup {w}) \ {0} :
        node[n].level > 1 => search(node[n], loc[u].key) \in reach
  BY <1>1, <1>2, <1>4, <1>5, Zenon DEF Bundled
<1>7. 0 \in held[u] \cup {w} => root.level = 0 \/ root.id \in reach
  BY <1>1, <1>2, <1>3, <1>4, Zenon DEF Bundled
<1>8. loc[u].op = "Split" /\ 0 \notin held[u] \cup {w} =>
        \E n \in held[u] \cup {w} : ~can_overflow(node[n])
  BY <1>1, <1>2, Zenon DEF Bundled
<1> HIDE DEF reach
<1>9. reach = (held[u] \cup {w}) \cup (IF where = "lock_inner" THEN {l.kid} ELSE {})
  BY DEF reach
<1>10. LockStep(u, w, where, l, reach)
  BY <1>1, <1>3, <1>5, <1>6, <1>7, <1>8, <1>9, Zenon DEF LockStep
<1> QED BY <1>3, <1>10, LockStepKeeps, Zenon

\* A thread that is at the end of its bundle, or gives it up, has the same guards and no
\* words but those it had.
LEMMA ReleaseKeeps ==
  ASSUME TreeInv, NEW u \in Threads, Frame(u), Shape', VersionLocks', loc'[u] = loc[u],
         pc[u] # "idle", pc'[u] \in {"unlock", "back_off", "retry", "done"},
         held'[u] \subseteq held[u], pc'[u] \notin Holding => held'[u] = {}
  PROVE  TreeInv'
PROOF
<1>1. Guarded(u) /\ Roomy(u) /\ Bundled(u)
  BY Zenon DEF TreeInv, ThreadInv
<1>2. /\ Stamp(loc[u].at, loc[u].atv) /\ Stamp(loc[u].over.id, loc[u].over.ver)
      /\ Stamp(loc[u].under.id, loc[u].under.ver) /\ loc[u].key \in Keys
  BY <1>1, Zenon DEF Guarded
<1>3. /\ next_free \in Nat /\ next_free' \in Nat /\ next_free' >= next_free
      /\ \A w \in Words : w \in Nat /\ ver[w] \in Nat /\ ver'[w] \in Nat /\ ver'[w] >= ver[w]
  BY WordFacts DEF TreeInv, Shape, Frame
<1>4. \A w \in Words : w < next_free => w < next_free'
  BY <1>3
<1>5. Guarded(u)'
  <2>1. \A w, v : Stamp(w, v) =>
          w \in Words /\ v \in Nat /\ v % 4 = 0 /\ v <= ver'[w] /\ (w = 0 \/ w < next_free')
    BY <1>3, <1>4 DEF Stamp, Live
  <2>2. /\ Stamp(loc[u].at, loc[u].atv)' /\ Stamp(loc[u].over.id, loc[u].over.ver)'
        /\ Stamp(loc[u].under.id, loc[u].under.ver)'
    BY <1>2, <2>1, Zenon DEF Stamp, Live
  <2> QED BY <1>2, <2>2 DEF Guarded
<1>6. Linked(u)'
  BY Zenon DEF Linked
<1>7. Roomy(u)'
  <2>1. ver'[loc[u].over.id] = loc[u].over.ver =>
          /\ ver[loc[u].over.id] = loc[u].over.ver
          /\ loc[u].over.id # 0 => node'[loc[u].over.id] = node[loc[u].over.id]
    BY <1>2, StampProtects
  <2> QED BY <1>1, <2>1, Zenon DEF Roomy
<1>8. Bundled(u)'
  <2>1. \A n \in held'[u] : Live(n)'
    <3>1. \A n \in held'[u] : n \in Words /\ (n = 0 \/ n < next_free)
      BY <1>1, Zenon DEF Bundled, Live, TreeInv, Shape
    <3> QED BY <1>4, <3>1, Zenon DEF Live
  <2> QED BY <2>1 DEF Bundled
<1> QED BY <1>5, <1>6, <1>7, <1>8, OwnSuffices DEF ThreadInv

\* lock_fails leaves the bundle to unlock.
LEMMA LockFailsKeeps == ASSUME TreeInv, NEW u \in Threads, lock_fails(u) PROVE TreeInv'
PROOF
<1>1. pc[u] \in {"lock", "lock_inner"} /\ UNCHANGED <<tree, ver, held>> /\ loc' = loc
      /\ pc[u] # "idle"
  BY DEF lock_fails
<1>2. Guarded(u) /\ DOMAIN loc[u] = Fields
  BY Zenon DEF TreeInv, Shape, ThreadInv
<1>3. CASE held[u] = {}
  <2>1. Moves(u, "retry", loc[u])
    BY <1>1, <1>3, GotoMoves, Zenon DEF lock_fails
  <2> QED BY <1>1, <1>2, <1>3, <2>1, RestKeeps DEF Guarded, Places, Holding
<1>4. CASE held[u] # {}
  <2>1. Moves(u, "back_off", loc[u])
    BY <1>1, <1>4, GotoMoves DEF lock_fails
  <2>2. Frame(u) /\ Shape' /\ VersionLocks'
    BY <1>1, <1>2, <2>1, MoveFrame, Zenon DEF Places
  <2> QED BY <1>1, <2>1, <2>2, ReleaseKeeps DEF Moves, Holding
<1> QED BY <1>3, <1>4

\* unlock gives back one word and moves its version on.
LEMMA UnlockStepKeeps == ASSUME TreeInv, NEW u \in Threads, unlock(u) PROVE TreeInv'
PROOF
<1>1. PICK w \in held[u] :
        /\ ver' = [ver EXCEPT ![w] = @ + 2] /\ held' = [held EXCEPT ![u] = @ \ {w}]
        /\ Goto(u, IF held[u] # {w} THEN pc[u] ELSE IF pc[u] = "unlock" THEN "done" ELSE "retry")
  BY Zenon DEF unlock
<1>2. pc[u] \in {"unlock", "back_off"} /\ UNCHANGED tree /\ loc' = loc /\ pc[u] # "idle"
  BY Zenon DEF unlock
<1>3. Shape /\ VersionLocks /\ DOMAIN pc = Threads
  BY DEF TreeInv, Shape
<1>4. /\ VersionLocks'
      /\ ver' \in [Words -> Nat] /\ \A x \in Words : ver'[x] >= ver[x]
      /\ DOMAIN held' = Threads /\ held'[u] = held[u] \ {w}
      /\ \A t \in Threads \ {u} : held'[t] = held[t]
  BY <1>1, <1>3, UnlockKeeps, Zenon
<1>5. /\ pc'[u] \in {"unlock", "back_off", "retry", "done"} /\ DOMAIN pc' = Threads
      /\ pc'[u] \notin Holding => held'[u] = {}
      /\ \A t \in Threads \ {u} : pc'[t] = pc[t]
  BY <1>1, <1>2, <1>3, <1>4 DEF Goto, Holding
<1>6. root' = root /\ node' = node /\ next_free' = next_free
  BY <1>2, Zenon DEF tree
<1>7. Frame(u)
  BY <1>2, <1>3, <1>4, <1>5, <1>6 DEF Shape, Frame
<1>8. Shape'
  <2>1. Allocated(root, node, next_free)'
    BY <1>3, <1>6, Zenon DEF Shape
  <2> QED BY <1>2, <1>3, <1>4, <1>5, <1>6, <2>1, Zenon DEF Shape, Places
<1> QED BY <1>2, <1>4, <1>5, <1>7, <1>8, ReleaseKeeps

\* Rewrite changes nodes of the bundle only, and new ones.
LEMMA RewriteKeeps == ASSUME TreeInv, NEW u \in Threads, Rewrite(u) PROVE TreeInv'
PROOF
<1>1. pc[u] = "locked" /\ Goto(u, "unlock") /\ ver' = ver /\ loc' = loc /\ held' = held
      /\ pc[u] # "idle"
  BY DEF Rewrite
<1>2. Moves(u, "unlock", loc[u])
  BY <1>1, GotoMoves
<1>3. Shape /\ VersionLocks
  BY DEF TreeInv
<1>4. Frame(u)
  <2>1. \A n \in Nodes : n < next_free => ~(n >= next_free)
    BY <1>3, WordFacts DEF Shape
  <2> QED BY <1>1, <1>2, <1>3, <2>1 DEF Rewrite, Shape, Frame, Moves
<1>5. Shape'
  <2>1. Allocated(root, node, next_free)' /\ next_free' \in Nat
    BY DEF Rewrite
  <2> QED BY <1>1, <1>2, <1>3, <2>1 DEF Shape, Moves, Places
<1>6. VersionLocks'
  BY <1>1, <1>3 DEF VersionLocks
<1> QED BY <1>1, <1>2, <1>4, <1>5, <1>6, ReleaseKeeps, Zenon DEF Moves, Holding

-------------------------------------------------------------------------------
(* The theorems.                                                           *)

\* The invariant is inductive, one lemma per action.
LEMMA NextInv == TreeInv /\ [TreeNext]_treeVars => TreeInv'
PROOF
<1> SUFFICES ASSUME TreeInv, [TreeNext]_treeVars PROVE TreeInv'
  OBVIOUS
<1>1. ASSUME NEW u \in Threads, Step(u) PROVE TreeInv'
  BY Zenon, <1>1, ReadRootKeeps, GetRootKeeps, ReadInnerKeeps, CheckParentKeeps, CheckLeafKeeps,
     LockRootKeeps, LockPointKeeps, LockInnerKeeps, LockFailsKeeps, RetryKeeps, UnlockStepKeeps
     DEF Step
<1>2. ASSUME NEW u \in Threads, Call(u) \/ Rewrite(u) PROVE TreeInv'
  BY <1>2, CallKeeps, RewriteKeeps
<1>3. CASE UNCHANGED treeVars
  <2>1. root' = root /\ node' = node /\ next_free' = next_free /\ ver' = ver /\ held' = held
        /\ pc' = pc /\ loc' = loc
    BY <1>3, Zenon DEF treeVars, tree
  <2>2. Shape' /\ VersionLocks'
    BY <2>1, SMTT(30) DEF TreeInv, Shape, VersionLocks, Allocated
  <2>3. ASSUME NEW t \in Threads PROVE ThreadInv(t)'
    BY <2>1, Zenon DEF TreeInv, ThreadInv, Guarded, Linked, Roomy, Bundled, Stamp, Live, Reach
  <2> QED BY <2>2, <2>3 DEF TreeInv
<1> QED BY <1>1, <1>2, <1>3 DEF TreeNext

\* The invariant holds in every behaviour.
LEMMA Invariance == TreeSpec => []TreeInv
BY InitInv, NextInv, PTL DEF TreeSpec

\* Version words exclude writers: the word of the root pointer or of a node is in at
\* most one WriteLockBundle, and its lock bit is set exactly while it is in one.
THEOREM WritersExcluded == TreeSpec => []VersionLocks
PROOF
<1>1. TreeInv => VersionLocks
  BY DEF TreeInv
<1> QED BY <1>1, Invariance, PTL

\* Optimistic reads are sound: a traversal that finds the version of its guard unchanged
\* has the child that the guarded node, or the root pointer, leads to at that moment.
THEOREM ReadsSound == TreeSpec => []GuardValid
PROOF
<1>1. TreeInv => GuardValid
  BY Zenon DEF TreeInv, ThreadInv, Linked, GuardValid
<1> QED BY <1>1, Invariance, PTL

\* lock_from_point locks a path: a finished bundle has, with every inner node above
\* level 1, the child that the key is led to.
THEOREM BundleIsPath == TreeSpec => []BundlePath
PROOF
<1>1. TreeInv => BundlePath
  BY Zenon DEF TreeInv, ThreadInv, Bundled, Reach, BundlePath
<1> QED BY <1>1, Invariance, PTL

\* The bundle of a split has the root pointer or a node with room for a pivot, so that
\* a split that goes up always ends in a node that is locked.
THEOREM SplitHasRoom == TreeSpec => []SplitStopsInBundle
PROOF
<1>1. TreeInv => SplitStopsInBundle
  BY DEF TreeInv, ThreadInv, Bundled, SplitStopsInBundle
<1> QED BY <1>1, Invariance, PTL

-------------------------------------------------------------------------------
(* Least numbers and induction.                                            *)

\* A set of numbers has a least one.
LEMMA LeastExists ==
  ASSUME NEW S, S \subseteq Nat, S # {}
  PROVE  \E x \in S : \A y \in S : x <= y
<1> DEFINE Less == {ss \in Nat \X Nat : ss[1] < ss[2]}
<1>1. IsWellFoundedOn(Less, Nat)
  BY NatLessThanWellFounded DEF OpToRel
<1>2. PICK x \in S : \A y \in S : <<y, x>> \notin Less
  BY <1>1, WFMin, Zenon
<1>3. ASSUME NEW y \in S PROVE x <= y
  <2>1. x \in Nat /\ y \in Nat /\ <<y, x>> \notin Less
    BY <1>2
  <2> QED BY <2>1
<1> QED BY <1>3

\* What holds at 0, and one further whenever it holds at a place, holds up to n: the
\* least place where it does not has one before it.
LEMMA Climb ==
  ASSUME NEW S, NEW n \in Nat, 0 \in S, \A i \in 0..(n - 1) : i \in S => i + 1 \in S
  PROVE  \A i \in 0..n : i \in S
<1> DEFINE T == {i \in Nat : i <= n /\ i \notin S}
<1> SUFFICES ASSUME T # {} PROVE FALSE
  OBVIOUS
<1>1. PICK x \in T : \A y \in T : x <= y
  BY LeastExists, Zenon
<1>2. x \in Nat /\ x # 0 /\ x <= n /\ x - 1 \in 0..(n - 1) /\ (x - 1) + 1 = x /\ x - 1 \notin T
  BY <1>1
<1> QED BY <1>1, <1>2

-------------------------------------------------------------------------------
(* binary_search and search.                                               *)

\* f has the windows of the loop of binary_search, round by round.
IsWindows(f, n, key, first, c) ==
  f = [i \in 0..c |-> IF i = 0 THEN first ELSE Narrow(n, key, f[i - 1])]

\* They exist for every number of rounds.
LEMMA WindowsExist ==
  ASSUME NEW n, NEW key, NEW first
  PROVE  \A c \in Nat : \E f : IsWindows(f, n, key, first, c)
<1> DEFINE S == {c \in Nat : \E f : IsWindows(f, n, key, first, c)}
<1>1. 0 \in S
  <2>1. IsWindows([i \in 0..0 |-> first], n, key, first, 0)
    BY DEF IsWindows
  <2> QED BY <2>1
<1>2. ASSUME NEW c \in Nat, c \in S PROVE c + 1 \in S
  <2>1. PICK f : IsWindows(f, n, key, first, c)
    BY <1>2
  <2> DEFINE g == [i \in 0..(c + 1) |-> IF i = c + 1 THEN Narrow(n, key, f[c]) ELSE f[i]]
  <2>2. IsWindows(g, n, key, first, c + 1)
    BY <2>1 DEF IsWindows
  <2> QED BY <2>2
<1> HIDE DEF S
<1>3. ASSUME NEW c \in Nat PROVE c \in S
  BY <1>1, <1>2, Climb
<1> QED BY <1>3 DEF S

\* low and high are in this order and in the node.
Windows(c) == {w \in (0..c) \X (0..c) : w[1] <= w[2]}

\* A round keeps them so, and brings them closer until they meet.
LEMMA NarrowStays ==
  ASSUME NEW n, NEW key, NEW c \in Nat, NEW w \in Windows(c)
  PROVE  /\ Narrow(n, key, w) \in Windows(c)
         /\ w[1] = w[2] => Narrow(n, key, w) = w
         /\ w[1] < w[2] => Narrow(n, key, w)[2] - Narrow(n, key, w)[1] < w[2] - w[1]
<1> DEFINE mid == w[1] + (w[2] - w[1]) \div 2
<1>1. w[1] \in 0..c /\ w[2] \in 0..c /\ w[1] <= w[2]
  BY Zenon DEF Windows
<1>2. CASE w[1] = w[2]
  BY <1>1, <1>2 DEF Narrow
<1>3. CASE w[1] < w[2]
  <2>1. mid \in Nat /\ w[1] <= mid /\ mid < w[2]
    BY <1>1, <1>3
  <2> HIDE DEF mid
  <2>2. Narrow(n, key, w) = IF n.entries[mid + 1].key <= key THEN <<mid + 1, w[2]>> ELSE <<w[1], mid>>
    BY <1>1, <1>3 DEF Narrow, mid
  <2>3. <<mid + 1, w[2]>> \in Windows(c) /\ <<w[1], mid>> \in Windows(c)
    BY <1>1, <2>1 DEF Windows
  <2> QED BY <1>1, <1>3, <2>1, <2>2, <2>3
<1> QED BY <1>1, <1>2, <1>3

\* The windows of binary_search, and its result.
LEMMA BinarySearchIs ==
  ASSUME NEW n, NEW key, Len(n.entries) \in Nat
  PROVE  \E f : /\ IsWindows(f, n, key, <<0, Len(n.entries)>>, Len(n.entries))
                /\ \A i \in 0..Len(n.entries) :
                     f[i] \in Windows(Len(n.entries)) /\ f[i][2] - f[i][1] <= Len(n.entries) - i
                /\ binary_search(n, key) = IF f[Len(n.entries)][1] = 0 THEN 0 ELSE f[Len(n.entries)][1] - 1
<1> DEFINE c == Len(n.entries)
           f == CHOOSE g : IsWindows(g, n, key, <<0, c>>, c)
           S == {i \in Nat : f[i] \in Windows(c) /\ f[i][2] - f[i][1] <= c - i}
<1>1. IsWindows(f, n, key, <<0, c>>, c)
  BY WindowsExist
<1>2. binary_search(n, key) = IF f[c][1] = 0 THEN 0 ELSE f[c][1] - 1
  BY DEF binary_search, IsWindows
<1> HIDE DEF f
<1>3. c \in Nat
  OBVIOUS
<1> HIDE DEF c
<1>4. 0 \in S
  BY <1>1, <1>3 DEF IsWindows, Windows
<1>5. ASSUME NEW i \in 0..(c - 1), i \in S PROVE i + 1 \in S
  <2>1. f[i + 1] = Narrow(n, key, f[i])
    BY <1>1, <1>3 DEF IsWindows
  <2>2. f[i] \in Windows(c) /\ f[i][2] - f[i][1] <= c - i
    BY <1>5
  <2>3. f[i][1] \in Nat /\ f[i][2] \in Nat /\ f[i][1] <= f[i][2]
    BY <1>3, <2>2 DEF Windows
  <2>4. f[i + 1] \in Windows(c)
    BY <1>3, <2>1, <2>2, NarrowStays
  <2>5. f[i + 1][1] \in Nat /\ f[i + 1][2] \in Nat
    BY <1>3, <2>4 DEF Windows
  <2>6. f[i + 1][2] - f[i + 1][1] <= c - (i + 1)
    <3>1. f[i][1] = f[i][2] => f[i + 1] = f[i]
      BY <1>3, <2>1, <2>2, NarrowStays
    <3>2. f[i][1] < f[i][2] => f[i + 1][2] - f[i + 1][1] < f[i][2] - f[i][1]
      BY <1>3, <2>1, <2>2, NarrowStays
    <3> DEFINE a == f[i][1]
               b == f[i][2]
               a1 == f[i + 1][1]
               b1 == f[i + 1][2]
    <3>3. /\ c \in Nat /\ a \in Nat /\ b \in Nat /\ a1 \in Nat /\ b1 \in Nat /\ a <= b /\ b - a <= c - i
          /\ a = b => a1 = a /\ b1 = b
          /\ a < b => b1 - a1 < b - a
      BY <1>3, <2>2, <2>3, <2>5, <3>1, <3>2, Zenon
    <3> HIDE DEF a, b, a1, b1
    <3>4. b1 - a1 <= c - (i + 1)
      BY <3>3
    <3> QED BY <3>4, Zenon DEF a1, b1
  <2> QED BY <2>4, <2>6
<1> HIDE DEF S
<1>6. \A i \in 0..c : i \in S
  BY <1>3, <1>4, <1>5, Climb
<1> QED BY <1>1, <1>2, <1>6 DEF S, c

\* Pivots below the window are not above the key, pivots from its end on are.
Divides(n, key, w) ==
  /\ \A j \in 1..w[1] : n.entries[j].key <= key
  /\ \A j \in (w[2] + 1)..Len(n.entries) : key < n.entries[j].key

\* The pivots of a node in ascending order.
Ascending(n) ==
  /\ Len(n.entries) \in Nat /\ \A i \in 1..Len(n.entries) : n.entries[i].key \in Nat
  /\ \A i, j \in 1..Len(n.entries) : i < j => n.entries[i].key < n.entries[j].key

\* With pivots in order, a round keeps the division.
LEMMA NarrowDivides ==
  ASSUME NEW n, Ascending(n), NEW key \in Nat, NEW w \in Windows(Len(n.entries)), Divides(n, key, w)
  PROVE  Divides(n, key, Narrow(n, key, w))
<1> DEFINE c == Len(n.entries)
           mid == w[1] + (w[2] - w[1]) \div 2
<1>1. w[1] \in 0..c /\ w[2] \in 0..c /\ w[1] <= w[2] /\ c \in Nat
  BY Zenon DEF Windows, Ascending
<1>2. CASE w[1] = w[2]
  BY <1>1, <1>2, Zenon DEF Narrow
<1>3. /\ \A i \in 1..c : n.entries[i].key \in Nat
      /\ \A i, j \in 1..c : i < j => n.entries[i].key < n.entries[j].key
  BY Zenon DEF Ascending
<1>4. CASE w[1] < w[2]
  <2>1. mid \in Nat /\ w[1] <= mid /\ mid < w[2] /\ mid + 1 \in 1..c
    BY <1>1, <1>4
  <2> HIDE DEF mid
  <2>2. Narrow(n, key, w) = IF n.entries[mid + 1].key <= key THEN <<mid + 1, w[2]>> ELSE <<w[1], mid>>
    BY <1>1, <1>4 DEF Narrow, mid
  <2>3. Len(n.entries) = c
    BY Zenon
  <2> HIDE DEF c
  <2>4. CASE n.entries[mid + 1].key <= key
    <3>1. \A j \in 1..(mid + 1) : n.entries[j].key <= key
      <4> SUFFICES ASSUME NEW j \in 1..(mid + 1) PROVE n.entries[j].key <= key
        OBVIOUS
      <4>1. j \in 1..c /\ (j < mid + 1 \/ j = mid + 1)
        BY <1>1, <2>1
      <4>2. n.entries[j].key \in Nat /\ n.entries[mid + 1].key \in Nat
        BY <1>3, <2>1, <4>1, Zenon
      <4>3. j < mid + 1 => n.entries[j].key < n.entries[mid + 1].key
        BY <1>3, <2>1, <4>1, Zenon
      <4> QED BY <2>4, <4>1, <4>2, <4>3
    <3> QED BY <2>2, <2>4, <3>1 DEF Divides
  <2>5. CASE ~(n.entries[mid + 1].key <= key)
    <3>1. \A j \in (mid + 1)..c : key < n.entries[j].key
      <4> SUFFICES ASSUME NEW j \in (mid + 1)..c PROVE key < n.entries[j].key
        OBVIOUS
      <4>1. j \in 1..c /\ (mid + 1 < j \/ j = mid + 1)
        BY <1>1, <2>1
      <4>2. n.entries[j].key \in Nat /\ n.entries[mid + 1].key \in Nat
        BY <1>3, <2>1, <4>1
      <4>3. mid + 1 < j => n.entries[mid + 1].key < n.entries[j].key
        BY <1>3, <2>1, <4>1
      <4> QED BY <2>5, <4>1, <4>2, <4>3
    <3> QED BY <2>2, <2>3, <2>5, <3>1 DEF Divides
  <2> QED BY <2>4, <2>5
<1> QED BY <1>1, <1>2, <1>4

\* search_for_inner and search_for_leaf are the binary search they are meant to be, for
\* nodes with any number of pivots: a key below all pivots leads to the lowest child,
\* and any other to the child of the last pivot that is not above it.
THEOREM SearchFindsChild ==
  ASSUME NEW n, Ascending(n), Len(n.entries) > 0, NEW key \in Nat
  PROVE  /\ (\A i \in 1..Len(n.entries) : key < n.entries[i].key) => search(n, key) = n.lowest
         /\ \A i \in 1..Len(n.entries) :
              /\ n.entries[i].key <= key
              /\ i < Len(n.entries) => key < n.entries[i + 1].key
              => search(n, key) = n.entries[i].child
<1> DEFINE c == Len(n.entries)
<1>1. c \in Nat /\ c > 0 /\ \A i \in 1..c : n.entries[i].key \in Nat
  BY DEF Ascending
<1>2. PICK f : /\ IsWindows(f, n, key, <<0, c>>, c)
               /\ \A i \in 0..c : f[i] \in Windows(c) /\ f[i][2] - f[i][1] <= c - i
               /\ binary_search(n, key) = IF f[c][1] = 0 THEN 0 ELSE f[c][1] - 1
  BY <1>1, BinarySearchIs, Zenon
<1> DEFINE S == {i \in Nat : Divides(n, key, f[i])}
<1>3. 0 \in S
  BY <1>1, <1>2 DEF IsWindows, Divides
<1>4. ASSUME NEW i \in 0..(c - 1), i \in S PROVE i + 1 \in S
  <2>1. f[i + 1] = Narrow(n, key, f[i])
    <3>1. i + 1 \in 0..c /\ i + 1 # 0 /\ (i + 1) - 1 = i
      BY <1>1, <1>4
    <3> QED BY <1>2, <3>1, Zenon DEF IsWindows
  <2>2. f[i] \in Windows(c)
    BY <1>1, <1>2, <1>4
  <2> QED BY <1>4, <2>1, <2>2, NarrowDivides
<1> HIDE DEF S
<1>5. c \in S
  <2>1. \A i \in 0..(c - 1) : i \in S => i + 1 \in S
    BY <1>4
  <2> HIDE DEF c
  <2>2. \A i \in 0..c : i \in S
    BY <1>1, <1>3, <2>1, Climb, Zenon
  <2> QED BY <1>1, <2>2
<1> DEFINE low == f[c][1]
<1>6. low \in 0..c /\ f[c][2] = low
  BY <1>1, <1>2 DEF Windows
<1>7. /\ \A j \in 1..low : n.entries[j].key <= key
      /\ \A j \in (low + 1)..c : key < n.entries[j].key
  BY <1>5, <1>6, Zenon DEF S, Divides
<1> HIDE DEF low
<1>8. binary_search(n, key) + 1 = IF low = 0 THEN 1 ELSE low
  BY <1>2, <1>6 DEF low
<1>9. search(n, key) = IF low = 0 THEN n.lowest ELSE n.entries[low].child
  <2>1. CASE low = 0
    BY <1>1, <1>7, <1>8, <2>1 DEF search
  <2>2. CASE low > 0
    <3>1. n.entries[low].key <= key /\ n.entries[low].key \in Nat
      BY <1>1, <1>6, <1>7, <2>2
    <3> QED BY <1>8, <2>2, <3>1 DEF search
  <2> QED BY <1>6, <2>1, <2>2
<1>10. ASSUME \A i \in 1..c : key < n.entries[i].key PROVE low = 0
  BY <1>1, <1>6, <1>7, <1>10
<1>11. ASSUME NEW i \in 1..c, n.entries[i].key <= key, i < c => key < n.entries[i + 1].key
       PROVE  low = i
  <2>1. i <= low
    BY <1>1, <1>6, <1>7, <1>11
  <2>2. ~(i + 1 <= low)
    BY <1>1, <1>6, <1>7, <1>11
  <2> QED BY <1>6, <2>1, <2>2
<1> QED BY <1>9, <1>10, <1>11
===============================================================================
