---------------------------- MODULE MiniPageBuffer ----------------------------
(***************************************************************************)
(* The circular cache of mini-pages (buffer.rs), the headers of its nodes  *)
(* (NodeMeta in types.rs) and the callers that give chunks to pages        *)
(* (promote_leaf_to_mini_page and new_mini_page in lib.rs).  Every node is *)
(* a LeafPage, so the unit of length is that chunk: indices count chunks.  *)
(*                                                                         *)
(* Loads, compare-exchanges and stores of head and tail are steps; so are  *)
(* the accesses of evict to a header, which it makes without a lock.  The  *)
(* lock word of a page is a Boolean here: only write guards are taken, and *)
(* a store that clears the word clears it whoever holds the guard.         *)
(*                                                                         *)
(* The free lists stay empty: nothing outside the tests calls dealloc, so  *)
(* pop_freelist returns None.                                              *)
(***************************************************************************)
EXTENDS Naturals, FiniteSets

CONSTANTS
  Threads,      \* transactions
  Pages,        \* logical pages
  Stored,       \* the pages that are leaves on disk initially; others are new
  buff_size,    \* chunks in the buffer, a power of 2
  SpinRetries,  \* SPIN_RETRIES
  MaxCalls,     \* bound on the calls that need a chunk
  MaxLocks,     \* bound on the pages a transaction has when it locks another one
  None,         \* no page
  Leaf, Free    \* a page on disk; a page that does not exist yet

ASSUME BufferAssumption ==
  /\ buff_size \in Nat \ {0} /\ SpinRetries \in Nat
  /\ MaxCalls \in Nat /\ MaxLocks \in Nat
  /\ Stored \subseteq Pages /\ None \notin Pages
  /\ {Leaf, Free} \cap Nat = {} /\ Leaf # Free

VARIABLES
  head, tail,
  meta,     \* per chunk: the header of the node in it
  map,      \* per page: its chunk, Leaf or Free
  locked,   \* per page: the lock word is write-locked
  held,     \* per transaction: the pages whose write guards it holds
  pc,       \* per transaction
  cell,     \* per transaction: the locals of alloc and evict
  wrapped,  \* alloc has sent tail back to 0
  calls,    \* calls of promote_leaf_to_mini_page and new_mini_page so far
  spilt     \* history: the chunks that a split wrote to although they are not its own,
            \* since their nodes were written

vars == <<head, tail, meta, map, locked, held, pc, cell, wrapped, calls, spilt>>

Chunks == 0..(buff_size - 1)
Headers == [live : BOOLEAN, hot : BOOLEAN, evicting : BOOLEAN, page : Pages \cup {None}]
Zeroed == [live |-> FALSE, hot |-> FALSE, evicting |-> FALSE, page |-> None]
Locals == [tail : 0..buff_size, head : 0..buff_size, tries : 0..SpinRetries,
           cand : Chunks, scanned : 0..(2 * buff_size), page : Pages \cup {None},
           wants : Pages \cup {None}, got : Chunks, split : BOOLEAN, left : Chunks]
NoLocals == [tail |-> 0, head |-> 0, tries |-> 0, cand |-> 0, scanned |-> 0,
             page |-> None, wants |-> None, got |-> 0, split |-> FALSE, left |-> 0]

\* Mutant of wrap: the mask is missing.
wrap_unmasked(i) == i

\* wrap: indices modulo the size of the buffer.
wrap(i) == i % buff_size

\* NodeMeta::size: three bits from bit 13 on, of which HOT_BIT is the lowest; a
\* LeafPage is 6.  size_in_words: the length is 2^size, here in chunks.
LeafPage == 6
size(m) == IF m.hot THEN LeafPage + 1 ELSE LeafPage
size_in_chunks(m) == 2^(size(m) - LeafPage)

Init ==
  /\ head = 0 /\ tail = 0 /\ wrapped = FALSE /\ calls = 0 /\ spilt = {}
  /\ meta = [c \in Chunks |-> Zeroed]
  /\ map = [p \in Pages |-> IF p \in Stored THEN Leaf ELSE Free]
  /\ locked = [p \in Pages |-> FALSE]
  /\ held = [t \in Threads |-> {}]
  /\ pc = [t \in Threads |-> "idle"]
  /\ cell = [t \in Threads |-> NoLocals]

Goto(t, where) == pc' = [pc EXCEPT ![t] = where]

-------------------------------------------------------------------------------
(* Transactions.                                                           *)

\* The write guard of a page, kept until the transaction ends.
Lock(t, p) ==
  /\ pc[t] = "idle" /\ map[p] # Free /\ ~locked[p]
  /\ Cardinality(held[t]) <= MaxLocks
  /\ locked' = [locked EXCEPT ![p] = TRUE]
  /\ held' = [held EXCEPT ![t] = @ \cup {p}]
  /\ UNCHANGED <<head, tail, meta, map, pc, cell, wrapped, calls, spilt>>

EndTx(t) ==
  /\ pc[t] = "idle" /\ held[t] # {}
  /\ locked' = [p \in Pages |-> locked[p] /\ p \notin held[t]]
  /\ held' = [held EXCEPT ![t] = {}]
  /\ UNCHANGED <<head, tail, meta, map, pc, cell, wrapped, calls, spilt>>

\* try_put into a mini-page marks it hot.
try_put(t, p) ==
  /\ pc[t] = "idle" /\ p \in held[t] /\ map[p] \in Chunks
  /\ meta' = [meta EXCEPT ![map[p]].hot = TRUE]
  /\ UNCHANGED <<head, tail, map, locked, held, pc, cell, wrapped, calls, spilt>>

\* The slots the map table can give to a new page.  It gives them in order, so any
\* one of them will do.
NewPages == {p \in Pages : map[p] = Free /\ \A t \in Threads : cell[t].wants # p}

\* promote_leaf_to_mini_page and new_mini_page begin with alloc; the first gives
\* up when it returns None, the second evicts and tries again.
promote_leaf_to_mini_page(t, p) ==
  /\ pc[t] = "idle" /\ p \in held[t] /\ map[p] = Leaf
  /\ cell' = [cell EXCEPT ![t] = [NoLocals EXCEPT !.wants = p, !.tail = tail,
                                                  !.tries = SpinRetries]]
  /\ calls < MaxCalls /\ calls' = calls + 1
  /\ Goto(t, "alloc")
  /\ UNCHANGED <<head, tail, meta, map, locked, held, wrapped, spilt>>

\* Only split_current_leaf calls new_mini_page, with the write guard of the mini-page
\* that is full.
new_mini_page(t, full) ==
  /\ pc[t] = "idle" /\ full \in held[t] /\ map[full] \in Chunks
  /\ NewPages # {}
  /\ cell' = [cell EXCEPT ![t] = [NoLocals EXCEPT !.wants = CHOOSE q \in NewPages : TRUE,
                                                  !.split = TRUE, !.left = map[full],
                                                  !.tail = tail, !.tries = SpinRetries]]
  /\ calls < MaxCalls /\ calls' = calls + 1
  /\ Goto(t, "alloc")
  /\ UNCHANGED <<head, tail, meta, map, locked, held, wrapped, spilt>>

-------------------------------------------------------------------------------
(* alloc.                                                                  *)

\* Where a bump of tail may go: to the end of the buffer or to head.
Fits(h, tl) == IF h <= tl THEN buff_size - tl >= 1 ELSE h - tl >= 1
Wraps(h, tl) == h <= tl /\ ~Fits(h, tl) /\ h > 1

\* The load of head at the start of an iteration, and the returns of None.
AllocHead(t) ==
  /\ pc[t] = "alloc" /\ cell[t].tries > 0
  /\ Fits(head, cell[t].tail) \/ Wraps(head, cell[t].tail)
  /\ cell' = [cell EXCEPT ![t].head = head]
  /\ Goto(t, "alloc_cas")
  /\ UNCHANGED <<head, tail, meta, map, locked, held, wrapped, calls, spilt>>

AllocNone(t) ==
  /\ pc[t] = "alloc"
  /\ \/ cell[t].tries = 0
     \/ ~Fits(head, cell[t].tail) /\ ~Wraps(head, cell[t].tail)
  /\ IF cell[t].split
     THEN Goto(t, "evict") /\ UNCHANGED cell
     ELSE Goto(t, "idle") /\ cell' = [cell EXCEPT ![t] = NoLocals]
  /\ UNCHANGED <<head, tail, meta, map, locked, held, wrapped, calls, spilt>>

\* Mutant of AllocCas: a store of tail in place of the compare-exchange.
AllocStore(t) ==
  /\ pc[t] = "alloc_cas"
  /\ IF Fits(cell[t].head, cell[t].tail)
     THEN /\ tail' = cell[t].tail + 1
          /\ cell' = [cell EXCEPT ![t].got = cell[t].tail]
          /\ Goto(t, "allocated")
          /\ UNCHANGED wrapped
     ELSE /\ tail' = 0 /\ wrapped' = TRUE
          /\ cell' = [cell EXCEPT ![t].tail = 0, ![t].tries = @ - 1]
          /\ Goto(t, "alloc")
  /\ UNCHANGED <<head, meta, map, locked, held, calls, spilt>>

AllocCas(t) ==
  /\ pc[t] = "alloc_cas" /\ tail = cell[t].tail
  /\ IF Fits(cell[t].head, tail)
     THEN /\ tail' = tail + 1
          /\ cell' = [cell EXCEPT ![t].got = tail]
          /\ Goto(t, "allocated")
          /\ UNCHANGED wrapped
     ELSE /\ tail' = 0 /\ wrapped' = TRUE
          /\ cell' = [cell EXCEPT ![t].tail = 0, ![t].tries = @ - 1]
          /\ Goto(t, "alloc")
  /\ UNCHANGED <<head, meta, map, locked, held, calls, spilt>>

\* The compare-exchange fails, the weak one perhaps although tail is as expected.
AllocRetry(t) ==
  /\ pc[t] = "alloc_cas"
  /\ cell' = [cell EXCEPT ![t].tail = tail, ![t].tries = @ - 1]
  /\ Goto(t, "alloc")
  /\ UNCHANGED <<head, tail, meta, map, locked, held, wrapped, calls, spilt>>

\* set_mini_page or create_page_entry, then the header is written: a promoted leaf
\* is hot, a new page is not.
SetMiniPage(t) ==
  /\ pc[t] = "allocated"
  /\ LET p == cell[t].wants
     IN  /\ map' = [map EXCEPT ![p] = cell[t].got]
         /\ locked' = [locked EXCEPT ![p] = TRUE]
         /\ held' = [held EXCEPT ![t] = @ \cup {p}]
         /\ Goto(t, IF cell[t].split THEN "init" ELSE "copy")
  /\ UNCHANGED <<head, tail, meta, cell, wrapped, calls, spilt>>

WriteHeader(t) ==
  /\ pc[t] \in {"copy", "init"}
  /\ meta' = [meta EXCEPT ![cell[t].got] =
                [live |-> TRUE, hot |-> pc[t] = "copy", evicting |-> FALSE,
                 page |-> cell[t].wants]]
  /\ spilt' = spilt \ {cell[t].got}
  /\ IF pc[t] = "init"
     THEN Goto(t, "split") /\ UNCHANGED cell
     ELSE Goto(t, "idle") /\ cell' = [cell EXCEPT ![t] = NoLocals]
  /\ UNCHANGED <<head, tail, map, locked, held, wrapped, calls>>

\* What the memory behind the buffer may look like: no node, or the header of a page.
\* (The bytes may also name a page that the map table has no slot for, and evict panics.)
Beyond == {Zeroed} \cup
  {h \in Headers : h.live /\ h.page # None /\ map[h.page] # Free}

\* The headers after a copy of one chunk.
Copied(m, from, to) ==
  IF to \notin Chunks THEN {m}
  ELSE {[m EXCEPT ![to] = h] : h \in IF from \in Chunks THEN {m[from]} ELSE Beyond}

\* copy_nonoverlapping of size().size_in_bytes(): two chunks when the node is hot, which
\* may overlap, so that either may be the first.
CopyNode(from, to) ==
  IF size_in_chunks(meta[from]) = 1 THEN Copied(meta, from, to)
  ELSE (UNION {Copied(m, from + 1, to + 1) : m \in Copied(meta, from, to)}) \cup
       (UNION {Copied(m, from, to) : m \in Copied(meta, from + 1, to + 1)})

\* apply_leaf_split copies the full node over the new one, header included, and then
\* sets the identity of the new node to the page and the address it reads from it.
apply_leaf_split(t) ==
  LET from == cell[t].left  to == cell[t].got IN
  /\ pc[t] = "split"
  /\ meta' \in CopyNode(from, to)
  /\ spilt' = IF meta[from].hot THEN spilt \cup ({to + 1} \cap Chunks) ELSE spilt
  /\ cell' = [cell EXCEPT ![t] = NoLocals]
  /\ Goto(t, "idle")
  /\ UNCHANGED <<head, tail, map, locked, held, wrapped, calls>>

-------------------------------------------------------------------------------
(* evict.                                                                  *)

\* Mutant of Advance: the scan is not counted.
AdvanceForever(t, n) == cell' = [cell EXCEPT ![t].cand = wrap(@ + n)]

\* The next candidate after n chunks, and the next one by name.
Advance(t, n) ==
  cell' = [cell EXCEPT ![t].cand = wrap(@ + n), ![t].scanned = @ + n]

evict(t) ==
  /\ pc[t] = "evict"
  /\ cell' = [cell EXCEPT ![t].cand = head, ![t].scanned = 0]
  /\ Goto(t, "scan")
  /\ UNCHANGED <<head, tail, meta, map, locked, held, wrapped, calls, spilt>>

Scanning(t) == pc[t] = "scan" /\ cell[t].scanned < buff_size
Candidate(t) == meta[cell[t].cand]

\* Memory that no node was written to yet is zero, and skipped like a dead node.
SkipDead(t) ==
  /\ Scanning(t) /\ ~Candidate(t).live
  /\ Advance(t, size_in_chunks(Candidate(t)))
  /\ UNCHANGED <<head, tail, meta, map, locked, held, pc, wrapped, calls, spilt>>

\* The second chance.  The size was read before the hot bit is cleared.
SecondChance(t) ==
  /\ Scanning(t) /\ Candidate(t).live /\ Candidate(t).hot
  /\ meta' = [meta EXCEPT ![cell[t].cand].hot = FALSE]
  /\ Advance(t, size_in_chunks(Candidate(t)))
  /\ UNCHANGED <<head, tail, map, locked, held, pc, wrapped, calls, spilt>>

ChoosePage(t) ==
  /\ Scanning(t) /\ Candidate(t).live /\ ~Candidate(t).hot
  /\ cell' = [cell EXCEPT ![t].page = Candidate(t).page]
  /\ Goto(t, "evict_lock")
  /\ UNCHANGED <<head, tail, meta, map, locked, held, wrapped, calls, spilt>>

\* write_page_entry fails, or finds the page back on disk.
SkipPage(t) ==
  /\ pc[t] = "evict_lock"
  /\ locked[cell[t].page] \/ map[cell[t].page] = Leaf
  /\ Advance(t, 1)
  /\ Goto(t, "scan")
  /\ UNCHANGED <<head, tail, meta, map, locked, held, wrapped, calls, spilt>>

\* The page has moved to another chunk, which becomes the candidate.
FollowPage(t) ==
  /\ pc[t] = "evict_lock" /\ ~locked[cell[t].page]
  /\ map[cell[t].page] \in Chunks \ {cell[t].cand}
  /\ cell' = [cell EXCEPT ![t].cand = map[cell[t].page]]
  /\ Goto(t, "scan")
  /\ UNCHANGED <<head, tail, meta, map, locked, held, wrapped, calls, spilt>>

\* mark_for_eviction under the write lock.
mark_for_eviction(t) ==
  /\ pc[t] = "evict_lock" /\ ~locked[cell[t].page]
  /\ map[cell[t].page] = cell[t].cand
  /\ IF Candidate(t).evicting \/ ~Candidate(t).live
     THEN /\ Advance(t, 1) /\ Goto(t, "scan")
          /\ UNCHANGED <<meta, locked>>
     ELSE /\ meta' = [meta EXCEPT ![cell[t].cand].evicting = TRUE]
          /\ locked' = [locked EXCEPT ![cell[t].page] = TRUE]
          /\ Goto(t, "flush") /\ UNCHANGED cell
  /\ UNCHANGED <<head, tail, map, held, wrapped, calls, spilt>>

\* Mutant of set_leaf: the lock is dropped and the mapping forgotten.
set_leaf_unlocks(t) ==
  /\ pc[t] = "flush"
  /\ locked' = [locked EXCEPT ![cell[t].page] = FALSE]
  /\ Goto(t, "evicted")
  /\ UNCHANGED <<head, tail, meta, map, held, cell, wrapped, calls, spilt>>

\* flush_dirty_entries and checkpoint_page, then set_leaf, which also unlocks.
set_leaf(t) ==
  /\ pc[t] = "flush"
  /\ map' = [map EXCEPT ![cell[t].page] = Leaf]
  /\ locked' = [locked EXCEPT ![cell[t].page] = FALSE]
  /\ Goto(t, "evicted")
  /\ UNCHANGED <<head, tail, meta, held, cell, wrapped, calls, spilt>>

set_live(t) ==
  /\ pc[t] = "evicted"
  /\ meta' = [meta EXCEPT ![cell[t].cand].live = FALSE, ![cell[t].cand].evicting = FALSE]
  /\ Goto(t, "store_head")
  /\ UNCHANGED <<head, tail, map, locked, held, cell, wrapped, calls, spilt>>

StoreHead(t) ==
  /\ pc[t] = "store_head"
  /\ head' = wrap(cell[t].cand + 1)
  /\ Goto(t, "drop_guard")
  /\ UNCHANGED <<tail, meta, map, locked, held, cell, wrapped, calls, spilt>>

\* The guard is dropped, evict returns Ok and new_mini_page allocates again.
EvictOk(t) ==
  /\ pc[t] = "drop_guard"
  /\ locked' = [locked EXCEPT ![cell[t].page] = FALSE]
  /\ cell' = [cell EXCEPT ![t] = [NoLocals EXCEPT !.wants = cell[t].wants,
                                                  !.split = TRUE, !.left = cell[t].left,
                                                  !.tail = tail, !.tries = SpinRetries]]
  /\ Goto(t, "alloc")
  /\ UNCHANGED <<head, tail, meta, map, held, wrapped, calls, spilt>>

CacheExhausted(t) ==
  /\ pc[t] = "scan" /\ cell[t].scanned >= buff_size
  /\ cell' = [cell EXCEPT ![t] = NoLocals]
  /\ Goto(t, "idle")
  /\ UNCHANGED <<head, tail, meta, map, locked, held, wrapped, calls, spilt>>

-------------------------------------------------------------------------------
\* What a transaction inside alloc or evict does next.
Step(t) ==
  \/ AllocHead(t) \/ AllocNone(t) \/ AllocCas(t) \/ AllocRetry(t)
  \/ SetMiniPage(t) \/ WriteHeader(t) \/ apply_leaf_split(t)
  \/ evict(t) \/ SkipDead(t) \/ SecondChance(t) \/ ChoosePage(t) \/ SkipPage(t)
  \/ FollowPage(t) \/ mark_for_eviction(t) \/ set_leaf(t) \/ set_live(t)
  \/ StoreHead(t) \/ EvictOk(t) \/ CacheExhausted(t)

Call(t, p) ==
  Lock(t, p) \/ try_put(t, p) \/ promote_leaf_to_mini_page(t, p) \/ new_mini_page(t, p)

Next ==
  \E t \in Threads : Step(t) \/ EndTx(t) \/ \E p \in Pages : Call(t, p)

Spec == Init /\ [][Next]_vars

\* A transaction that the scheduler runs goes on with the call it is in.
FairSpec == Spec /\ \A t \in Threads : WF_vars(Step(t))

-------------------------------------------------------------------------------
(* Properties.                                                             *)

States == {"idle", "alloc", "alloc_cas", "allocated", "copy", "init", "split", "evict", "scan",
           "evict_lock", "flush", "evicted", "store_head", "drop_guard"}

\* Every variable has its shape: no index leaves the buffer, neither tail nor what
\* alloc returns nor a candidate of evict, and a scan overshoots by one node only.
TypeOK ==
  /\ head \in Chunks /\ tail \in 0..buff_size /\ wrapped \in BOOLEAN
  /\ calls \in 0..MaxCalls /\ spilt \subseteq Chunks
  /\ meta \in [Chunks -> Headers]
  /\ map \in [Pages -> Chunks \cup {Leaf, Free}]
  /\ locked \in [Pages -> BOOLEAN]
  /\ held \in [Threads -> SUBSET Pages]
  /\ pc \in [Threads -> States]
  /\ cell \in [Threads -> Locals]

\* The chunks in use: those of mapped pages, and those given to a transaction that
\* has not published its page yet.
Cached == {p \in Pages : map[p] \in Chunks}
Given(t) == pc[t] = "allocated"

\* On the first lap through the buffer concurrent allocations never give one chunk
\* to two pages, whatever is evicted meanwhile.
FirstLapDisjoint ==
  ~wrapped =>
    /\ \A p, q \in Cached : map[p] = map[q] => p = q
    /\ \A t \in Threads : Given(t) =>
         /\ \A p \in Cached : map[p] # cell[t].got
         /\ \A u \in Threads : Given(u) /\ cell[u].got = cell[t].got => u = t

\* On the first lap a page that was promoted from disk is found by evict: the header of
\* its chunk is live and names the page, although evict clears headers after it has
\* unlocked the page, unless the split of a hot node wrote over the chunk.  (A page that a
\* split made is not found: see SplitKeepsIdentity.)
HeaderNamesPage ==
  ~wrapped => \A p \in Cached \cap Stored :
    \/ meta[map[p]].live /\ meta[map[p]].page = p
    \/ map[p] \in spilt
    \/ \E t \in Threads : pc[t] = "copy" /\ cell[t].wants = p

\* CHANGELOG.md: "the freshly allocated right leaf keeps its unique `PageId` + disk
\* address: copy-before-rebuild no longer clobbers the header".  The header of a cached
\* page names it, once the call that gave it the chunk has returned.
SplitKeepsIdentity ==
  \A p \in Cached :
    (\A t \in Threads : cell[t].wants # p) => meta[map[p]].page = p

\* Chunks whose headers lead from one to the other and never to the page they name.
Circular ==
  \E ring \in (SUBSET Chunks) \ {{}} : \A c \in ring :
    meta[c].live /\ map[meta[c].page] \in ring \ {c}

\* Every allocation and every eviction returns, also when candidates are locked, dead,
\* hot, moved to other chunks or written over by the splits of other transactions
\* meanwhile, unless the headers that evict follows lead round in a circle for good.
CallsReturn == \A t \in Threads : []<>(pc[t] = "idle") \/ <>[]Circular

\* lib.rs, apply_leaf_split copies "size().size_in_bytes()" bytes of the full node to the
\* new one, which has one chunk: no other node is written.
SplitStaysInChunk == \A p \in Cached : map[p] \notin spilt

\* types.rs, NodeMeta::size: "this was just masked to 3 bits and all 3bit values are
\* valid"; NodeSize has the values 0 to 6.
SizeIsNodeSize == \A c \in Chunks : size(meta[c]) \in 0..6

\* buffer.rs, head: "start of the oldest node not yet fully freed".  Before the first
\* wrap the nodes lie in the order of their age, so none in use is below head.
HeadIsOldest == ~wrapped => \A p \in Cached : map[p] >= head

\* buffer.rs, tail: "start of unmanaged memory".
TailIsUnmanaged == \A p \in Cached : map[p] # tail

\* README.md: "freed pages re-enter the freelists"; when an eviction has freed a chunk
\* and no call is under way, alloc finds room.
FreedIsReused ==
  (\A t \in Threads : pc[t] = "idle") /\ Cardinality(Cached) < buff_size
    => Fits(head, tail) \/ Wraps(head, tail)
===============================================================================
