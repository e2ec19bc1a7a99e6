------------------------- MODULE MiniPageBufferProofs -------------------------
(***************************************************************************)
(* Proofs about MiniPageBuffer: no index leaves the buffer, and on the     *)
(* first lap through it no chunk is given twice and evict finds the pages  *)
(* that were promoted from disk.                                           *)
(***************************************************************************)
EXTENDS MiniPageBuffer, TLAPS

\* What the steps of a call may rely on.
CallOK(t) ==
  /\ pc[t] # "idle" => cell[t].wants \in Pages
  /\ pc[t] = "alloc_cas" => cell[t].tries > 0
  /\ pc[t] = "evict_lock" => cell[t].scanned < buff_size /\ cell[t].page \in Pages
  /\ cell[t].split => cell[t].wants \notin Stored
  /\ pc[t] \notin {"idle", "alloc", "alloc_cas", "allocated", "copy"} => cell[t].split

CallsOK ==
  /\ \A t \in Threads : CallOK(t)
  /\ \A p \in Stored : map[p] # Free
  /\ \A c \in Chunks : meta[c].live => meta[c].page \in Pages

\* A transaction that has a chunk and has not finished with its header.
Using(t) == pc[t] \in {"allocated", "copy", "init", "split"}

\* The chunks below tail have been given out, each to one transaction, and mapped to no
\* page but the one it was given for.
ChunksOK ==
  /\ \A p \in Cached : map[p] < tail
  /\ \A p, q \in Cached : map[p] = map[q] => p = q
  /\ \A t \in Threads : Using(t) => cell[t].got < tail
  /\ \A t, u \in Threads : Using(t) /\ Using(u) /\ cell[t].got = cell[u].got => t = u
  /\ \A t \in Threads, p \in Cached :
       Using(t) /\ map[p] = cell[t].got => pc[t] # "allocated" /\ p = cell[t].wants

\* A chunk that evict frees has the evicted page at most, until set_leaf, then none.
EvictOK ==
  \A t \in Threads : pc[t] \in {"flush", "evicted"} =>
    /\ cell[t].cand < tail
    /\ \A u \in Threads : pc[u] = "allocated" => cell[u].got # cell[t].cand
    /\ \A p \in Cached : map[p] = cell[t].cand => pc[t] = "flush" /\ p = cell[t].page

\* The header of a promoted page names it, or was written over by a split, or is about to
\* be written by the transaction that has the page's chunk.
Named(p) == map[p] \in spilt \/ (meta[map[p]].live /\ meta[map[p]].page = p)
HeadersOK ==
  \A p \in Cached \cap Stored :
    Named(p) \/ \E t \in Threads : pc[t] = "copy" /\ cell[t].wants = p /\ cell[t].got = map[p]

FirstLap == ChunksOK /\ EvictOK /\ HeadersOK

BufInv == TypeOK /\ CallsOK /\ (~wrapped => FirstLap)

-------------------------------------------------------------------------------
(* Types and calls.                                                        *)

\* wrap stays in the buffer.
LEMMA WrapType == \A n \in Nat : wrap(n) \in Chunks
BY BufferAssumption DEF wrap, Chunks

\* A node has one chunk, or two while its hot bit is taken for a bit of its size.
LEMMA SizeType == \A m \in Headers : size_in_chunks(m) \in {1, 2}
<1>1. 2^(LeafPage - LeafPage) = 1 /\ 2^((LeafPage + 1) - LeafPage) = 2
  BY DEF LeafPage
<1> QED BY <1>1 DEF size_in_chunks, size, Headers

\* The locals before a call.
LEMMA NoLocalsType ==
  NoLocals \in Locals /\ NoLocals.wants = None /\ NoLocals.split = FALSE
BY BufferAssumption DEF NoLocals, Locals, Chunks

\* The scan goes on with an index of the buffer.
LEMMA AdvanceType ==
  ASSUME cell \in [Threads -> Locals], NEW t \in Threads, NEW n \in {1, 2},
         cell[t].scanned < buff_size, Advance(t, n)
  PROVE  /\ cell' \in [Threads -> Locals]
         /\ \A u \in Threads : u # t => cell'[u] = cell[u]
         /\ cell'[t].wants = cell[t].wants /\ cell'[t].split = cell[t].split
         /\ cell'[t].got = cell[t].got /\ cell'[t].page = cell[t].page
<1>1. cell[t].cand + n \in Nat /\ cell[t].scanned + n \in 0..(2 * buff_size)
  BY BufferAssumption DEF Locals, Chunks
<1>2. wrap(cell[t].cand + n) \in Chunks
  BY <1>1, WrapType
<1> QED BY <1>1, <1>2 DEF Advance, Locals

\* The calls of a transaction.
LEMMA CallTypes ==
  ASSUME TypeOK, CallsOK, NEW t \in Threads, NEW p \in Pages, Call(t, p)
  PROVE  TypeOK' /\ CallsOK'
<1>1. CASE Lock(t, p)
  BY <1>1 DEF Lock, TypeOK, CallsOK, CallOK
<1>2. CASE try_put(t, p)
  <2>1. meta' \in [Chunks -> Headers]
    BY <1>2, Zenon DEF try_put, TypeOK, Headers
  <2> QED BY <1>2, <2>1 DEF try_put, TypeOK, CallsOK, CallOK
<1>3. CASE promote_leaf_to_mini_page(t, p)
  <2> DEFINE r == [NoLocals EXCEPT !.wants = p, !.tail = tail, !.tries = SpinRetries]
  <2>1. r \in Locals /\ r.wants = p /\ r.split = FALSE
    <3>1. tail \in 0..buff_size /\ SpinRetries \in 0..SpinRetries
      BY BufferAssumption DEF TypeOK
    <3> QED BY <3>1, NoLocalsType, Zenon DEF Locals, NoLocals
  <2> HIDE DEF r
  <2>2. cell' = [cell EXCEPT ![t] = r] /\ pc' = [pc EXCEPT ![t] = "alloc"]
    BY <1>3 DEF promote_leaf_to_mini_page, Goto, r
  <2>3. calls' \in 0..MaxCalls
    BY <1>3, BufferAssumption DEF promote_leaf_to_mini_page, TypeOK
  <2>4. UNCHANGED <<head, tail, meta, map, locked, held, wrapped, spilt>>
    BY <1>3 DEF promote_leaf_to_mini_page
  <2> QED BY <2>1, <2>2, <2>3, <2>4 DEF TypeOK, States, CallsOK, CallOK
<1>4. CASE new_mini_page(t, p)
  <2> DEFINE q == CHOOSE q \in NewPages : TRUE
             r == [NoLocals EXCEPT !.wants = q, !.split = TRUE, !.left = map[p],
                                   !.tail = tail, !.tries = SpinRetries]
  <2>1. q \in Pages /\ map[q] = Free
    BY <1>4 DEF new_mini_page, NewPages
  <2> HIDE DEF q
  <2>2. r \in Locals /\ r.wants = q /\ r.split = TRUE
    <3>1. tail \in 0..buff_size /\ SpinRetries \in 0..SpinRetries /\ map[p] \in Chunks
      BY <1>4, BufferAssumption DEF new_mini_page, TypeOK
    <3> QED BY <2>1, <3>1, NoLocalsType, Zenon DEF Locals, NoLocals
  <2> HIDE DEF r
  <2>3. cell' = [cell EXCEPT ![t] = r] /\ pc' = [pc EXCEPT ![t] = "alloc"]
    BY <1>4 DEF new_mini_page, Goto, r, q
  <2>4. calls' \in 0..MaxCalls
    BY <1>4, BufferAssumption DEF new_mini_page, TypeOK
  <2>5. UNCHANGED <<head, tail, meta, map, locked, held, wrapped, spilt>>
    BY <1>4 DEF new_mini_page
  <2> QED BY <2>1, <2>2, <2>3, <2>4, <2>5 DEF TypeOK, States, CallsOK, CallOK
<1> QED BY <1>1, <1>2, <1>3, <1>4 DEF Call

\* The end of a transaction.
LEMMA EndTxTypes ==
  ASSUME TypeOK, CallsOK, NEW t \in Threads, EndTx(t)
  PROVE  TypeOK' /\ CallsOK'
BY DEF EndTx, TypeOK, CallsOK, CallOK

\* What a bump of tail returns lies in the buffer.
LEMMA FitsType ==
  \A h, tl \in 0..buff_size : Fits(h, tl) => tl \in Chunks /\ tl + 1 \in 0..buff_size
BY BufferAssumption DEF Fits, Chunks

\* The headers that a copy may leave.
Sound(m) == m \in [Chunks -> Headers] /\ \A c \in Chunks : m[c].live => m[c].page \in Pages

\* A copy of one chunk changes that chunk only, also when it copies what lies behind the
\* buffer.
LEMMA CopiedIs ==
  ASSUME NEW m, Sound(m), NEW from, NEW to, NEW n \in Copied(m, from, to)
  PROVE  Sound(n) /\ \A c \in Chunks : c # to => n[c] = m[c]
<1>1. CASE to \notin Chunks
  BY <1>1, Zenon DEF Copied
<1>2. CASE to \in Chunks
  <2>1. PICK h \in IF from \in Chunks THEN {m[from]} ELSE Beyond : n = [m EXCEPT ![to] = h]
    BY <1>2 DEF Copied
  <2>2. h \in Headers /\ (h.live => h.page \in Pages)
    <3>1. CASE from \in Chunks
      BY <2>1, <3>1 DEF Sound
    <3>2. CASE from \notin Chunks
      <4>1. h = Zeroed \/ (h \in Headers /\ h.page # None)
        BY <2>1, <3>2 DEF Beyond
      <4>2. Zeroed \in Headers /\ ~Zeroed.live
        BY DEF Zeroed, Headers
      <4> QED BY <4>1, <4>2 DEF Headers
    <3> QED BY <3>1, <3>2
  <2> QED BY <1>2, <2>1, <2>2 DEF Sound
<1> QED BY <1>1, <1>2

\* The copy of a node changes the chunk that was allocated and, when the node is hot, the
\* next one.
LEMMA CopyNodeIs ==
  ASSUME Sound(meta), NEW from \in Chunks, NEW to \in Chunks, NEW n \in CopyNode(from, to)
  PROVE  /\ Sound(n)
         /\ \A c \in Chunks \ {to} : n[c] = meta[c] \/ (meta[from].hot /\ c = to + 1)
<1>1. CASE size_in_chunks(meta[from]) = 1
  <2>1. n \in Copied(meta, from, to)
    BY <1>1 DEF CopyNode
  <2> QED BY <2>1, CopiedIs
<1>2. CASE size_in_chunks(meta[from]) # 1
  <2>1. meta[from].hot
    <3>1. 2^(LeafPage - LeafPage) = 1
      BY DEF LeafPage
    <3> QED BY <1>2, <3>1 DEF size_in_chunks, size
  <2> DEFINE First == UNION {Copied(m, from + 1, to + 1) : m \in Copied(meta, from, to)}
             Last == UNION {Copied(m, from, to) : m \in Copied(meta, from + 1, to + 1)}
  <2>2. n \in First \/ n \in Last
    <3>1. CopyNode(from, to) = First \cup Last
      BY <1>2, Zenon DEF CopyNode
    <3> HIDE DEF First, Last
    <3> QED BY <3>1
  <2>3. CASE n \in First
    <3>1. PICK m \in Copied(meta, from, to) : n \in Copied(m, from + 1, to + 1)
      BY <2>3
    <3>2. Sound(m) /\ \A c \in Chunks : c # to => m[c] = meta[c]
      BY CopiedIs
    <3>3. Sound(n) /\ \A c \in Chunks : c # to + 1 => n[c] = m[c]
      BY <3>1, <3>2, CopiedIs
    <3> QED BY <2>1, <3>2, <3>3, Zenon
  <2>4. CASE n \in Last
    <3>1. PICK m \in Copied(meta, from + 1, to + 1) : n \in Copied(m, from, to)
      BY <2>4
    <3>2. Sound(m) /\ \A c \in Chunks : c # to + 1 => m[c] = meta[c]
      BY CopiedIs
    <3>3. Sound(n) /\ \A c \in Chunks : c # to => n[c] = m[c]
      BY <3>1, <3>2, CopiedIs
    <3> QED BY <2>1, <3>2, <3>3, Zenon
  <2> HIDE DEF First, Last
  <2> QED BY <2>2, <2>3, <2>4
<1> QED BY <1>1, <1>2

\* The steps of alloc and of its callers.
LEMMA AllocTypes ==
  ASSUME TypeOK, CallsOK, NEW t \in Threads,
         \/ AllocHead(t) \/ AllocNone(t) \/ AllocCas(t) \/ AllocRetry(t)
         \/ SetMiniPage(t) \/ WriteHeader(t) \/ apply_leaf_split(t)
  PROVE  TypeOK' /\ CallsOK'
<1> USE DEF Goto
<1>1. CASE AllocHead(t)
  <2>1. cell' \in [Threads -> Locals]
    <3>1. head \in 0..buff_size /\ cell' = [cell EXCEPT ![t].head = head]
      BY <1>1, BufferAssumption DEF AllocHead, TypeOK, Chunks
    <3> QED BY <3>1 DEF TypeOK, Locals
  <2> QED BY <1>1, <2>1 DEF AllocHead, TypeOK, States, CallsOK, CallOK
<1>2. CASE AllocNone(t)
  BY <1>2, NoLocalsType DEF AllocNone, TypeOK, States, CallsOK, CallOK
<1>3. CASE AllocCas(t)
  <2>1. cell[t].head \in 0..buff_size /\ tail \in 0..buff_size
    BY DEF TypeOK, Locals
  <2>2. CASE Fits(cell[t].head, tail)
    <3>1. tail \in Chunks /\ tail + 1 \in 0..buff_size
      BY <2>1, <2>2, FitsType
    <3>2. cell' = [cell EXCEPT ![t].got = tail]
      BY <1>3, <2>2 DEF AllocCas
    <3>3. cell' \in [Threads -> Locals]
      BY <3>1, <3>2 DEF TypeOK, Locals
    <3>4. TypeOK'
      BY <1>3, <2>2, <3>1, <3>3 DEF AllocCas, TypeOK, States
    <3>5. \A u \in Threads : cell'[u].wants = cell[u].wants /\ cell'[u].split = cell[u].split
                             /\ cell'[u].tries = cell[u].tries
                             /\ cell'[u].scanned = cell[u].scanned
      BY <3>2 DEF TypeOK, Locals
    <3> QED BY <1>3, <2>2, <3>4, <3>5 DEF AllocCas, TypeOK, CallsOK, CallOK
  <2>3. CASE ~Fits(cell[t].head, tail)
    <3>1. cell[t].tries - 1 \in 0..SpinRetries
      BY <1>3, BufferAssumption DEF AllocCas, TypeOK, Locals, CallsOK, CallOK
    <3>2. cell' = [cell EXCEPT ![t].tail = 0, ![t].tries = @ - 1]
      BY <1>3, <2>3 DEF AllocCas
    <3>3. cell' \in [Threads -> Locals]
      BY <3>1, <3>2, BufferAssumption DEF TypeOK, Locals
    <3>4. tail' \in 0..buff_size
      BY <1>3, <2>3, BufferAssumption DEF AllocCas
    <3>5. TypeOK'
      BY <1>3, <2>3, <3>3, <3>4 DEF AllocCas, TypeOK, States
    <3>6. \A u \in Threads : cell'[u].wants = cell[u].wants /\ cell'[u].split = cell[u].split
                             /\ (u # t => cell'[u] = cell[u])
      BY <3>2 DEF TypeOK, Locals
    <3> QED BY <1>3, <2>3, <3>5, <3>6 DEF AllocCas, TypeOK, CallsOK, CallOK
  <2> QED BY <2>2, <2>3
<1>4. CASE AllocRetry(t)
  <2>1. cell[t].tries - 1 \in 0..SpinRetries
    BY <1>4, BufferAssumption DEF AllocRetry, TypeOK, Locals, CallsOK, CallOK
  <2>2. cell' \in [Threads -> Locals]
    BY <1>4, <2>1 DEF AllocRetry, TypeOK, Locals
  <2> QED BY <1>4, <2>2 DEF AllocRetry, TypeOK, States, CallsOK, CallOK
<1>5. CASE SetMiniPage(t)
  <2> DEFINE p == cell[t].wants
  <2>1. p \in Pages /\ cell[t].got \in Chunks
    BY <1>5 DEF SetMiniPage, TypeOK, Locals, CallsOK, CallOK
  <2>2. map' \in [Pages -> Chunks \cup {Leaf, Free}] /\ \A q \in Stored : map'[q] # Free
    <3>1. cell[t].got # Free
      BY <2>1, BufferAssumption DEF Chunks
    <3> QED BY <1>5, <2>1, <3>1, BufferAssumption DEF SetMiniPage, TypeOK, CallsOK
  <2>3. held' \in [Threads -> SUBSET Pages] /\ locked' \in [Pages -> BOOLEAN]
    BY <1>5, <2>1, Zenon DEF SetMiniPage, TypeOK
  <2> QED BY <1>5, <2>2, <2>3 DEF SetMiniPage, TypeOK, States, CallsOK, CallOK
<1>6. CASE WriteHeader(t)
  <2>1. cell[t].wants \in Pages \cup {None}
    BY DEF TypeOK, Locals
  <2>2. meta' \in [Chunks -> Headers]
    BY <1>6, <2>1, Zenon DEF WriteHeader, TypeOK, Headers
  <2> QED BY <1>6, <2>2, NoLocalsType DEF WriteHeader, TypeOK, States, CallsOK, CallOK
<1>7. CASE apply_leaf_split(t)
  <2>1. cell[t].left \in Chunks /\ cell[t].got \in Chunks /\ Sound(meta)
    BY DEF TypeOK, Locals, CallsOK, Sound
  <2>2. Sound(meta')
    BY <1>7, <2>1, CopyNodeIs DEF apply_leaf_split
  <2>3. spilt' \subseteq Chunks
    BY <1>7, Zenon DEF apply_leaf_split, TypeOK
  <2>4. TypeOK'
    BY <1>7, <2>2, <2>3, NoLocalsType DEF apply_leaf_split, TypeOK, States, Sound
  <2> QED BY <1>7, <2>2, <2>4, NoLocalsType DEF apply_leaf_split, TypeOK, CallsOK, CallOK, Sound
<1> QED BY <1>1, <1>2, <1>3, <1>4, <1>5, <1>6, <1>7

\* The steps of evict.
EvictStep(t) ==
  \/ evict(t) \/ SkipDead(t) \/ SecondChance(t) \/ ChoosePage(t) \/ SkipPage(t)
  \/ FollowPage(t) \/ mark_for_eviction(t) \/ set_leaf(t) \/ set_live(t)
  \/ StoreHead(t) \/ EvictOk(t) \/ CacheExhausted(t)
\* The steps of evict.
LEMMA EvictTypes ==
  ASSUME TypeOK, CallsOK, NEW t \in Threads, EvictStep(t)
  PROVE  TypeOK' /\ CallsOK'
<1> USE DEF Goto
<1>0. cell[t] \in Locals /\ cell[t].cand \in Chunks /\ Candidate(t) \in Headers
  BY DEF TypeOK, Locals, Candidate
<1>1. CASE evict(t)
  <2>1. cell' \in [Threads -> Locals]
    <3>1. head \in Chunks /\ 0 \in 0..(2 * buff_size)
      BY BufferAssumption DEF TypeOK
    <3> DEFINE r == [cell[t] EXCEPT !.cand = head, !.scanned = 0]
    <3>2. r \in Locals
      BY <1>0, <3>1, Zenon DEF Locals
    <3>3. cell' = [cell EXCEPT ![t] = r]
      BY <1>1, Zenon DEF evict, TypeOK
    <3> HIDE DEF r
    <3> QED BY <3>2, <3>3 DEF TypeOK
  <2> QED BY <1>1, <2>1 DEF evict, TypeOK, States, CallsOK, CallOK
<1>2. CASE SkipDead(t)
  <2>1. size_in_chunks(Candidate(t)) \in {1, 2} /\ cell[t].scanned < buff_size
    BY <1>0, <1>2, SizeType DEF SkipDead, Scanning
  <2>2. Advance(t, size_in_chunks(Candidate(t)))
    BY <1>2 DEF SkipDead
  <2> QED BY <1>2, <2>1, <2>2, AdvanceType
          DEF SkipDead, Scanning, TypeOK, States, CallsOK, CallOK
<1>3. CASE SecondChance(t)
  <2>1. size_in_chunks(Candidate(t)) \in {1, 2} /\ cell[t].scanned < buff_size
    BY <1>0, <1>3, SizeType DEF SecondChance, Scanning
  <2>2. Advance(t, size_in_chunks(Candidate(t)))
    BY <1>3 DEF SecondChance
  <2>3. meta' \in [Chunks -> Headers]
    BY <1>3, Zenon DEF SecondChance, TypeOK, Headers
  <2> QED BY <1>3, <2>1, <2>2, <2>3, AdvanceType
          DEF SecondChance, Scanning, TypeOK, States, CallsOK, CallOK
<1>4. CASE ChoosePage(t)
  <2>1. Candidate(t).page \in Pages \cup {None}
    BY <1>0 DEF Headers
  <2>2. cell' \in [Threads -> Locals]
    BY <1>4, <2>1 DEF ChoosePage, TypeOK, Locals
  <2>3. TypeOK'
    BY <1>4, <2>2 DEF ChoosePage, TypeOK, States
  <2>4. Candidate(t).page \in Pages
    BY <1>0, <1>4 DEF ChoosePage, CallsOK, Candidate
  <2>5. /\ cell'[t].page \in Pages /\ cell'[t].scanned < buff_size
        /\ cell'[t].wants = cell[t].wants /\ cell'[t].split = cell[t].split
        /\ \A u \in Threads \ {t} : cell'[u] = cell[u]
    BY <1>4, <2>4 DEF ChoosePage, Scanning, TypeOK, Locals
  <2> QED BY <1>4, <2>3, <2>5 DEF ChoosePage, Scanning, TypeOK, CallsOK, CallOK
<1>5. CASE SkipPage(t)
  <2>1. cell[t].scanned < buff_size
    BY <1>5 DEF SkipPage, CallsOK, CallOK
  <2> QED BY <1>5, <2>1, AdvanceType DEF SkipPage, TypeOK, States, CallsOK, CallOK
<1>6. CASE FollowPage(t)
  <2>1. cell' \in [Threads -> Locals]
    BY <1>6 DEF FollowPage, TypeOK, Locals
  <2> QED BY <1>6, <2>1 DEF FollowPage, TypeOK, States, CallsOK, CallOK
<1>7. CASE mark_for_eviction(t)
  <2>1. CASE Candidate(t).evicting \/ ~Candidate(t).live
    <3>1. cell[t].scanned < buff_size
      BY <1>7 DEF mark_for_eviction, CallsOK, CallOK
    <3> QED BY <1>7, <2>1, <3>1, AdvanceType
            DEF mark_for_eviction, TypeOK, States, CallsOK, CallOK
  <2>2. CASE ~(Candidate(t).evicting \/ ~Candidate(t).live)
    <3>1. meta' \in [Chunks -> Headers]
      <4>1. meta' = [meta EXCEPT ![cell[t].cand].evicting = TRUE]
        BY <1>7, <2>2 DEF mark_for_eviction
      <4> QED BY <4>1, Zenon DEF TypeOK, Headers
    <3>2. \A c \in Chunks : meta'[c].live => meta'[c].page \in Pages
      <4>1. meta' = [meta EXCEPT ![cell[t].cand].evicting = TRUE]
        BY <1>7, <2>2 DEF mark_for_eviction
      <4> QED BY <4>1 DEF TypeOK, Headers, CallsOK
    <3>3. TypeOK'
      BY <1>7, <2>2, <3>1, Zenon DEF mark_for_eviction, TypeOK, States
    <3> QED BY <1>7, <2>2, <3>2, <3>3 DEF mark_for_eviction, TypeOK, CallsOK, CallOK
  <2> QED BY <2>1, <2>2
<1>8. CASE set_leaf(t)
  BY <1>8, BufferAssumption, Zenon DEF set_leaf, TypeOK, States, CallsOK, CallOK
<1>9. CASE set_live(t)
  <2>1. meta' \in [Chunks -> Headers]
    BY <1>9, Zenon DEF set_live, TypeOK, Headers
  <2> QED BY <1>9, <2>1 DEF set_live, TypeOK, States, CallsOK, CallOK
<1>10. CASE StoreHead(t)
  <2>1. head' \in Chunks
    <3>1. cell[t].cand + 1 \in Nat
      BY <1>0 DEF Chunks
    <3> QED BY <1>10, <3>1, WrapType DEF StoreHead
  <2> QED BY <1>10, <2>1 DEF StoreHead, TypeOK, States, CallsOK, CallOK
<1>11. CASE EvictOk(t)
  <2> DEFINE r == [NoLocals EXCEPT !.wants = cell[t].wants, !.split = TRUE,
                                   !.left = cell[t].left, !.tail = tail,
                                   !.tries = SpinRetries]
  <2>1. r \in Locals /\ r.wants = cell[t].wants /\ r.split = TRUE
    <3>1. tail \in 0..buff_size /\ SpinRetries \in 0..SpinRetries
      BY BufferAssumption DEF TypeOK
    <3> QED BY <1>0, <3>1, NoLocalsType, Zenon DEF Locals, NoLocals
  <2> HIDE DEF r
  <2>2. cell' = [cell EXCEPT ![t] = r]
    BY <1>11 DEF EvictOk, r
  <2> QED BY <1>11, <2>1, <2>2, Zenon DEF EvictOk, TypeOK, States, CallsOK, CallOK
<1>12. CASE CacheExhausted(t)
  BY <1>12, NoLocalsType DEF CacheExhausted, TypeOK, States, CallsOK, CallOK
<1> QED BY <1>1, <1>2, <1>3, <1>4, <1>5, <1>6, <1>7, <1>8, <1>9, <1>10, <1>11, <1>12
        DEF EvictStep

\* Every step keeps the types.
LEMMA NextTypes ==
  ASSUME TypeOK, CallsOK, Next
  PROVE  TypeOK' /\ CallsOK'
<1>1. PICK t \in Threads : Step(t) \/ EndTx(t) \/ \E p \in Pages : Call(t, p)
  BY DEF Next
<1>2. CASE Step(t)
  BY <1>2, AllocTypes, EvictTypes DEF Step, EvictStep
<1>3. CASE EndTx(t)
  BY <1>3, EndTxTypes
<1>4. CASE \E p \in Pages : Call(t, p)
  BY <1>4, CallTypes
<1> QED BY <1>1, <1>2, <1>3, <1>4

-------------------------------------------------------------------------------
(* The first lap.                                                          *)

\* The chunks that transactions have are the ones they had, and so are those they free.
SameChunks ==
  /\ UNCHANGED <<map, tail>>
  /\ \A u \in Threads : Using(u)' =>
       /\ Using(u) /\ (pc'[u] = "allocated" <=> pc[u] = "allocated")
       /\ cell'[u].got = cell[u].got /\ cell'[u].wants = cell[u].wants
  /\ \A u \in Threads : pc'[u] \in {"flush", "evicted"} =>
       /\ pc'[u] = pc[u]
       /\ cell'[u].cand = cell[u].cand /\ cell'[u].page = cell[u].page

\* Nothing that the chunks' invariants are about changes.
LEMMA SameChunksKeeps ==
  ASSUME ChunksOK, EvictOK, SameChunks
  PROVE  ChunksOK' /\ EvictOK'
<1>1. Cached' = Cached
  BY DEF SameChunks, Cached
<1>2. ChunksOK'
  BY <1>1 DEF SameChunks, ChunksOK
<1>3. EvictOK'
  <2>1. \A u \in Threads : pc'[u] = "allocated" =>
          pc[u] = "allocated" /\ cell'[u].got = cell[u].got
    BY DEF SameChunks, Using
  <2> QED BY <1>1, <2>1 DEF SameChunks, EvictOK
<1> QED BY <1>2, <1>3

\* The headers say the same of life and of pages, and who is about to write one still is.
SameHeaders ==
  /\ UNCHANGED <<map, spilt>>
  /\ \A c \in Chunks : meta'[c].live = meta[c].live /\ meta'[c].page = meta[c].page
  /\ \A u \in Threads : pc[u] = "copy" =>
       /\ pc'[u] = "copy"
       /\ cell'[u].got = cell[u].got /\ cell'[u].wants = cell[u].wants

\* Nothing that the headers' invariant is about changes.
LEMMA SameHeadersKeeps ==
  ASSUME HeadersOK, SameHeaders
  PROVE  HeadersOK'
<1>1. Cached' = Cached /\ \A p \in Cached : map[p] \in Chunks /\ map'[p] = map[p]
  BY DEF SameHeaders, Cached
<1>2. \A p \in Cached : Named(p) => Named(p)'
  BY <1>1 DEF SameHeaders, Named
<1> QED BY <1>1, <1>2 DEF SameHeaders, HeadersOK

\* Most steps change neither.
LEMMA QuietSteps ==
  ASSUME TypeOK, CallsOK, FirstLap, NEW t \in Threads,
         \/ \E p \in Pages : Call(t, p)
         \/ EndTx(t) \/ AllocHead(t) \/ AllocNone(t) \/ AllocRetry(t)
         \/ evict(t) \/ SkipDead(t) \/ SecondChance(t) \/ ChoosePage(t) \/ SkipPage(t)
         \/ FollowPage(t) \/ StoreHead(t) \/ EvictOk(t) \/ CacheExhausted(t)
  PROVE  FirstLap'
<1> USE DEF Goto
<1> SUFFICES SameChunks /\ SameHeaders
  BY SameChunksKeeps, SameHeadersKeeps DEF FirstLap
<1>0. /\ pc \in [Threads -> States] /\ cell \in [Threads -> Locals]
      /\ meta \in [Chunks -> Headers]
  BY DEF TypeOK
<1>1. ASSUME NEW p \in Pages, Call(t, p)
      PROVE  SameChunks /\ SameHeaders
  <2>1. CASE Lock(t, p)
    BY <2>1 DEF Lock, SameChunks, SameHeaders, Using
  <2>2. CASE try_put(t, p)
    <3>1. \A c \in Chunks : meta'[c].live = meta[c].live /\ meta'[c].page = meta[c].page
      BY <1>0, <2>2 DEF try_put, Headers
    <3> QED BY <2>2, <3>1 DEF try_put, SameChunks, SameHeaders, Using
  <2>3. CASE promote_leaf_to_mini_page(t, p) \/ new_mini_page(t, p)
    <3>1. /\ pc[t] = "idle" /\ pc' = [pc EXCEPT ![t] = "alloc"]
          /\ \A u \in Threads \ {t} : cell'[u] = cell[u]
          /\ UNCHANGED <<map, tail, meta, spilt>>
      BY <1>0, <2>3, Zenon DEF promote_leaf_to_mini_page, new_mini_page
    <3> QED BY <1>0, <3>1 DEF SameChunks, SameHeaders, Using
  <2> QED BY <1>1, <2>1, <2>2, <2>3, Zenon DEF Call
<1>2. CASE EndTx(t)
  BY <1>2 DEF EndTx, SameChunks, SameHeaders, Using
<1>3. CASE SecondChance(t)
  <2>1. \A c \in Chunks : meta'[c].live = meta[c].live /\ meta'[c].page = meta[c].page
    BY <1>0, <1>3 DEF SecondChance, Headers
  <2>2. \A u \in Threads \ {t} : cell'[u] = cell[u]
    BY <1>0, <1>3, Zenon DEF SecondChance, Advance
  <2> QED BY <1>0, <1>3, <2>1, <2>2 DEF SecondChance, Scanning, SameChunks, SameHeaders, Using
<1>4. ASSUME \/ AllocHead(t) \/ AllocNone(t) \/ AllocRetry(t)
             \/ evict(t) \/ SkipDead(t) \/ ChoosePage(t) \/ SkipPage(t)
             \/ FollowPage(t) \/ StoreHead(t) \/ EvictOk(t) \/ CacheExhausted(t)
      PROVE  SameChunks /\ SameHeaders
  <2>1. /\ pc[t] \in {"alloc", "alloc_cas", "evict", "scan", "evict_lock", "store_head",
                      "drop_guard"}
        /\ pc'[t] \in {"idle", "alloc", "alloc_cas", "evict", "scan", "evict_lock",
                       "drop_guard"}
        /\ \A u \in Threads \ {t} : pc'[u] = pc[u]
    BY <1>0, <1>4, Zenon DEF AllocHead, AllocNone, AllocRetry, evict, SkipDead, ChoosePage, SkipPage,
                FollowPage, StoreHead, EvictOk, CacheExhausted, Scanning
  <2>2. \A u \in Threads \ {t} : cell'[u] = cell[u]
    BY <1>0, <1>4, Zenon DEF AllocHead, AllocNone, AllocRetry, evict, SkipDead, ChoosePage, SkipPage,
                FollowPage, StoreHead, EvictOk, CacheExhausted, Advance
  <2>3. UNCHANGED <<map, tail, meta, spilt>>
    BY <1>4 DEF AllocHead, AllocNone, AllocRetry, evict, SkipDead, ChoosePage, SkipPage,
                FollowPage, StoreHead, EvictOk, CacheExhausted
  <2> QED BY <2>1, <2>2, <2>3, Zenon DEF SameChunks, SameHeaders, Using
<1> QED BY <1>1, <1>2, <1>3, <1>4

\* alloc gives out the chunk at tail, which is above all others.
LEMMA AllocCasStep ==
  ASSUME TypeOK, CallsOK, FirstLap, NEW t \in Threads, AllocCas(t), ~wrapped'
  PROVE  FirstLap'
<1> USE DEF Goto
<1>0. /\ pc \in [Threads -> States] /\ cell \in [Threads -> Locals] /\ tail \in Nat
      /\ map \in [Pages -> Chunks \cup {Leaf, Free}]
  BY BufferAssumption DEF TypeOK
<1>1. /\ tail' = tail + 1 /\ pc[t] = "alloc_cas" /\ pc' = [pc EXCEPT ![t] = "allocated"]
      /\ cell' = [cell EXCEPT ![t].got = tail]
      /\ UNCHANGED <<map, meta, spilt>>
  BY <1>0 DEF AllocCas
<1>2. /\ \A u \in Threads \ {t} : pc'[u] = pc[u] /\ cell'[u] = cell[u]
      /\ pc'[t] = "allocated" /\ cell'[t].got = tail
  BY <1>0, <1>1 DEF Locals
<1>3. Cached' = Cached /\ \A p \in Cached : map[p] \in Nat /\ map[p] < tail
  BY <1>0, <1>1 DEF Cached, FirstLap, ChunksOK, Chunks
<1>4. \A u \in Threads : cell[u].got \in Nat /\ cell[u].cand \in Nat
  BY <1>0 DEF Locals, Chunks
<1>5. ChunksOK'
  <2>1. \A u \in Threads : Using(u)' => u = t \/ (Using(u) /\ u # t)
    BY <1>2 DEF Using
  <2>2. \A u \in Threads \ {t} : Using(u) => cell'[u].got < tail
    BY <1>2 DEF FirstLap, ChunksOK
  <2>3. \A p \in Cached' : map'[p] < tail'
    BY <1>0, <1>1, <1>3
  <2>4. \A p, q \in Cached' : map'[p] = map'[q] => p = q
    BY <1>1, <1>3 DEF FirstLap, ChunksOK
  <2>5. \A u \in Threads : Using(u)' => cell'[u].got < tail'
    BY <1>0, <1>1, <1>2, <1>4, <2>1, <2>2
  <2>6. \A u, v \in Threads : Using(u)' /\ Using(v)' /\ cell'[u].got = cell'[v].got => u = v
    BY <1>0, <1>2, <1>4, <2>1, <2>2 DEF FirstLap, ChunksOK
  <2>7. \A u \in Threads, p \in Cached' :
          Using(u)' /\ map'[p] = cell'[u].got => pc'[u] # "allocated" /\ p = cell'[u].wants
    BY <1>0, <1>1, <1>2, <1>3, <2>1 DEF FirstLap, ChunksOK
  <2> QED BY <2>3, <2>4, <2>5, <2>6, <2>7 DEF ChunksOK
<1>6. EvictOK'
  BY <1>0, <1>1, <1>2, <1>3, <1>4 DEF FirstLap, EvictOK
<1>7. HeadersOK'
  BY <1>0, <1>1, <1>2, SameHeadersKeeps DEF SameHeaders, FirstLap
<1> QED BY <1>5, <1>6, <1>7 DEF FirstLap

\* The chunk is mapped to the page it was asked for.
LEMMA SetMiniPageStep ==
  ASSUME TypeOK, CallsOK, FirstLap, NEW t \in Threads, SetMiniPage(t)
  PROVE  FirstLap'
<1> USE DEF Goto
<1> DEFINE w == cell[t].wants  g == cell[t].got
<1>0. /\ pc \in [Threads -> States] /\ cell \in [Threads -> Locals]
      /\ map \in [Pages -> Chunks \cup {Leaf, Free}]
  BY DEF TypeOK
<1>1. /\ pc[t] = "allocated" /\ map' = [map EXCEPT ![w] = g]
      /\ pc' = [pc EXCEPT ![t] = IF cell[t].split THEN "init" ELSE "copy"]
      /\ UNCHANGED <<tail, meta, cell, spilt>>
  BY DEF SetMiniPage
<1>2. w \in Pages /\ g \in Chunks /\ (cell[t].split => w \notin Stored)
  BY <1>0, <1>1 DEF CallsOK, CallOK, Locals
<1>3. /\ \A u \in Threads \ {t} : pc'[u] = pc[u]
      /\ pc'[t] \in {"init", "copy"} /\ (pc'[t] = "init" => w \notin Stored)
  BY <1>0, <1>1, <1>2
<1>4. map'[w] = g /\ \A p \in Pages \ {w} : map'[p] = map[p]
  BY <1>0, <1>1, <1>2
<1> HIDE DEF w, g
<1>5. \A p \in Cached' : p = w \/ (p \in Cached /\ p # w /\ map'[p] = map[p])
  BY <1>4 DEF Cached
<1>6. \A p \in Cached : map[p] # g
  BY <1>1 DEF FirstLap, ChunksOK, Using, g
<1>7. \A u \in Threads : Using(u)' => Using(u)
  BY <1>1, <1>3 DEF Using
<1>8. Using(t) /\ g < tail
  BY <1>1 DEF FirstLap, ChunksOK, Using, g
<1>9. ChunksOK'
  <2>1. \A p \in Cached' : map'[p] < tail'
    BY <1>1, <1>4, <1>5, <1>8 DEF FirstLap, ChunksOK
  <2>2. \A p, q \in Cached' : map'[p] = map'[q] => p = q
    BY <1>4, <1>5, <1>6 DEF FirstLap, ChunksOK
  <2>3. \A u \in Threads : Using(u)' => cell'[u].got < tail'
    BY <1>1, <1>7 DEF FirstLap, ChunksOK
  <2>4. \A u, v \in Threads : Using(u)' /\ Using(v)' /\ cell'[u].got = cell'[v].got => u = v
    BY <1>1, <1>7 DEF FirstLap, ChunksOK
  <2>5. ASSUME NEW u \in Threads, NEW p \in Cached', Using(u)', map'[p] = cell'[u].got
        PROVE  pc'[u] # "allocated" /\ p = cell'[u].wants
    <3>1. CASE p = w
      <4>1. cell[u].got = cell[t].got
        BY <1>1, <1>4, <2>5, <3>1 DEF g
      <4>2. u = t
        BY <1>7, <1>8, <2>5, <4>1 DEF FirstLap, ChunksOK
      <4> QED BY <1>1, <1>3, <3>1, <4>2 DEF w
    <3>2. CASE p # w
      <4>1. Using(u) /\ p \in Cached /\ map[p] = cell[u].got
        BY <1>1, <1>5, <1>7, <2>5, <3>2
      <4>2. pc[u] # "allocated" /\ p = cell[u].wants
        BY <4>1 DEF FirstLap, ChunksOK
      <4> QED BY <1>1, <1>3, <4>2
    <3> QED BY <3>1, <3>2
  <2> QED BY <2>1, <2>2, <2>3, <2>4, <2>5 DEF ChunksOK
<1>10. EvictOK'
  <2>1. ASSUME NEW u \in Threads, pc'[u] \in {"flush", "evicted"}
        PROVE  /\ cell'[u].cand < tail'
               /\ \A v \in Threads : pc'[v] = "allocated" => cell'[v].got # cell'[u].cand
               /\ \A p \in Cached' : map'[p] = cell'[u].cand =>
                                       pc'[u] = "flush" /\ p = cell'[u].page
    <3>1. u # t /\ pc'[u] = pc[u] /\ cell' = cell
      BY <1>1, <1>3, <2>1
    <3>2. /\ cell[u].cand < tail /\ g # cell[u].cand
          /\ \A v \in Threads : pc[v] = "allocated" => cell[v].got # cell[u].cand
          /\ \A p \in Cached : map[p] = cell[u].cand => pc[u] = "flush" /\ p = cell[u].page
      BY <1>1, <2>1, <3>1 DEF FirstLap, EvictOK, g
    <3> QED BY <1>1, <1>3, <1>4, <1>5, <3>1, <3>2
  <2> QED BY <2>1 DEF EvictOK
<1>11. HeadersOK'
  <2>1. ASSUME NEW p \in Cached' \cap Stored
        PROVE  \/ Named(p)'
               \/ \E u \in Threads : pc'[u] = "copy" /\ cell'[u].wants = p
                                     /\ cell'[u].got = map'[p]
    <3>1. CASE p = w
      BY <1>1, <1>3, <1>4, <2>1, <3>1 DEF w, g
    <3>2. CASE p # w
      <4>1. p \in Cached \cap Stored /\ map'[p] = map[p]
        BY <1>5, <2>1, <3>2
      <4>2. Named(p) => Named(p)'
        BY <1>1, <4>1 DEF Named
      <4>3. Named(p) \/ \E u \in Threads : pc[u] = "copy" /\ cell[u].wants = p
                                          /\ cell[u].got = map[p]
        BY <4>1 DEF FirstLap, HeadersOK
      <4> QED BY <1>1, <1>3, <4>1, <4>2, <4>3
    <3> QED BY <3>1, <3>2
  <2> QED BY <2>1 DEF HeadersOK
<1> QED BY <1>9, <1>10, <1>11 DEF FirstLap

\* The header is written: the chunk belongs to the page, if to any.
LEMMA WriteHeaderStep ==
  ASSUME TypeOK, CallsOK, FirstLap, NEW t \in Threads, WriteHeader(t) \/ apply_leaf_split(t)
  PROVE  FirstLap'
<1> USE DEF Goto
<1> DEFINE w == cell[t].wants  g == cell[t].got
<1>0. /\ pc \in [Threads -> States] /\ cell \in [Threads -> Locals]
      /\ meta \in [Chunks -> Headers]
  BY DEF TypeOK
<1>1. /\ pc[t] \in {"copy", "init", "split"} /\ UNCHANGED <<map, tail>>
      /\ pc'[t] \in {"idle", "split"} /\ (pc'[t] = "split" => cell' = cell)
      /\ \A u \in Threads \ {t} : pc'[u] = pc[u] /\ cell'[u] = cell[u]
  BY <1>0 DEF WriteHeader, apply_leaf_split
<1>2. ChunksOK' /\ EvictOK'
  <2>1. SameChunks
    BY <1>1 DEF SameChunks, Using
  <2> QED BY <2>1, SameChunksKeeps DEF FirstLap
<1>3. g \in Chunks
  BY <1>0, Zenon DEF Locals
<1>4. \A p \in Cached : map[p] = g => p = w
  BY <1>1 DEF FirstLap, ChunksOK, Using
<1>5. pc[t] # "copy" => w \notin Stored
  BY <1>1, Zenon DEF CallsOK, CallOK
<1>6. \A c \in Chunks \ {g} :
        c \in spilt' \/ (c \notin spilt /\ meta'[c] = meta[c])
  <2>1. CASE WriteHeader(t)
    BY <1>0, <1>3, <2>1, Zenon DEF WriteHeader
  <2>2. CASE apply_leaf_split(t)
    <3>1. cell[t].left \in Chunks /\ Sound(meta) /\ meta' \in CopyNode(cell[t].left, g)
      BY <2>2 DEF apply_leaf_split, TypeOK, Locals, CallsOK, Sound
    <3>2. \A c \in Chunks \ {g} :
            meta'[c] = meta[c] \/ (meta[cell[t].left].hot /\ c = g + 1)
      BY <1>3, <3>1, CopyNodeIs
    <3> QED BY <2>2, <3>2, Zenon DEF apply_leaf_split
  <2> QED BY <2>1, <2>2
<1>7. pc[t] = "copy" => meta'[g].live /\ meta'[g].page = w
  BY <1>0, <1>3 DEF WriteHeader, apply_leaf_split
<1>8. Cached' = Cached /\ \A p \in Cached : map'[p] = map[p] /\ map[p] \in Chunks
  BY <1>1 DEF Cached
<1>9. HeadersOK'
  <2>1. ASSUME NEW p \in Cached \cap Stored
        PROVE  \/ Named(p)'
               \/ \E u \in Threads : pc'[u] = "copy" /\ cell'[u].wants = p
                                     /\ cell'[u].got = map'[p]
    <3>1. CASE map[p] = g
      BY <1>4, <1>5, <1>7, <1>8, <2>1, <3>1, Zenon DEF Named
    <3>2. CASE map[p] # g
      <4>1. Named(p) => Named(p)'
        BY <1>6, <1>8, <2>1, <3>2, Zenon DEF Named
      <4>2. Named(p) \/ \E u \in Threads : pc[u] = "copy" /\ cell[u].wants = p
                                          /\ cell[u].got = map[p]
        BY <2>1 DEF FirstLap, HeadersOK
      <4> QED BY <1>1, <1>8, <2>1, <3>2, <4>1, <4>2, Zenon
    <3> QED BY <3>1, <3>2
  <2> QED BY <1>8, <2>1, Zenon DEF HeadersOK
<1> QED BY <1>2, <1>9 DEF FirstLap

\* evict settles on the page whose chunk the candidate is.
LEMMA MarkStep ==
  ASSUME TypeOK, CallsOK, FirstLap, NEW t \in Threads, mark_for_eviction(t)
  PROVE  FirstLap'
<1> USE DEF Goto
<1>0. /\ pc \in [Threads -> States] /\ cell \in [Threads -> Locals]
      /\ meta \in [Chunks -> Headers] /\ map \in [Pages -> Chunks \cup {Leaf, Free}]
  BY DEF TypeOK
<1>1. /\ pc[t] = "evict_lock" /\ UNCHANGED <<map, tail, spilt>>
      /\ pc'[t] \in {"scan", "flush"} /\ (pc'[t] = "flush" => cell' = cell)
      /\ \A u \in Threads \ {t} : pc'[u] = pc[u] /\ cell'[u] = cell[u]
      /\ map[cell[t].page] = cell[t].cand
  BY <1>0 DEF mark_for_eviction, Advance
<1>2. Cached' = Cached
  BY <1>1, Zenon DEF Cached
<1>3. ChunksOK'
  <2>1. \A u \in Threads : Using(u)' =>
          Using(u) /\ u # t /\ cell'[u] = cell[u] /\ pc'[u] = pc[u]
    BY <1>1 DEF Using
  <2> QED BY <1>1, <1>2, <2>1 DEF FirstLap, ChunksOK
<1>4. EvictOK'
  <2> SUFFICES ASSUME NEW u \in Threads, pc'[u] \in {"flush", "evicted"}
               PROVE  /\ cell'[u].cand < tail
                      /\ \A v \in Threads : pc'[v] = "allocated" => cell'[v].got # cell'[u].cand
                      /\ \A p \in Cached : map[p] = cell'[u].cand =>
                                             pc'[u] = "flush" /\ p = cell'[u].page
    BY <1>1, <1>2 DEF EvictOK
  <2>0. \A v \in Threads : pc'[v] = "allocated" => pc[v] = "allocated" /\ cell'[v] = cell[v]
    BY <1>1, Zenon
  <2>1. CASE u # t
    BY <1>1, <2>0, <2>1 DEF FirstLap, EvictOK
  <2>2. CASE u = t
    <3>1. pc'[t] = "flush" /\ cell' = cell
      BY <1>1, <2>2
    <3>2. cell[t].cand \in Chunks
      BY <1>0 DEF Locals
    <3>3. cell[t].page \in Cached
      <4>1. cell[t].page \in Pages
        BY <1>1, Zenon DEF CallsOK, CallOK
      <4> QED BY <1>1, <3>2, <4>1 DEF Cached
    <3> QED BY <1>1, <2>0, <2>2, <3>1, <3>3 DEF FirstLap, ChunksOK, Using
  <2> QED BY <2>1, <2>2
<1>5. HeadersOK'
  <2>1. \A c \in Chunks : meta'[c].live = meta[c].live /\ meta'[c].page = meta[c].page
    BY <1>0 DEF mark_for_eviction, Headers
  <2> QED BY <1>1, <2>1, SameHeadersKeeps DEF SameHeaders, FirstLap
<1> QED BY <1>3, <1>4, <1>5 DEF FirstLap

\* The page goes back to disk, and its chunk has none.
LEMMA SetLeafStep ==
  ASSUME TypeOK, CallsOK, FirstLap, NEW t \in Threads, set_leaf(t)
  PROVE  FirstLap'
<1> USE DEF Goto
<1> DEFINE w == cell[t].page
<1>0. /\ pc \in [Threads -> States] /\ map \in [Pages -> Chunks \cup {Leaf, Free}]
  BY DEF TypeOK
<1>1. /\ pc[t] = "flush" /\ map' = [map EXCEPT ![w] = Leaf] /\ UNCHANGED <<tail, cell, meta, spilt>>
      /\ pc'[t] = "evicted" /\ \A u \in Threads \ {t} : pc'[u] = pc[u]
  BY <1>0 DEF set_leaf
<1>2. Leaf \notin Chunks
  BY BufferAssumption DEF Chunks
<1>3. \A p \in Cached' : p \in Cached /\ p # w /\ map'[p] = map[p]
  BY <1>0, <1>1, <1>2, Zenon DEF Cached
<1>4. \A u \in Threads : Using(u)' => Using(u) /\ pc'[u] = pc[u]
  BY <1>1, Zenon DEF Using
<1>5. ChunksOK'
  BY <1>1, <1>3, <1>4 DEF FirstLap, ChunksOK
<1>6. EvictOK'
  <2> SUFFICES ASSUME NEW u \in Threads, pc'[u] \in {"flush", "evicted"}
               PROVE  /\ cell[u].cand < tail
                      /\ \A v \in Threads : pc'[v] = "allocated" => cell[v].got # cell[u].cand
                      /\ \A p \in Cached' : map'[p] = cell[u].cand =>
                                              pc'[u] = "flush" /\ p = cell[u].page
    BY <1>1 DEF EvictOK
  <2>1. pc[u] \in {"flush", "evicted"} /\ (u = t => pc[u] = "flush")
    BY <1>1
  <2>2. \A v \in Threads : pc'[v] = "allocated" => pc[v] = "allocated"
    BY <1>1, Zenon
  <2>3. \A p \in Cached' : map'[p] = cell[u].cand => pc[u] = "flush" /\ p = cell[u].page
    BY <1>3, <2>1 DEF FirstLap, EvictOK
  <2>4. \A p \in Cached' : map'[p] = cell[u].cand => pc'[u] = "flush" /\ p = cell[u].page
    BY <1>1, <1>3, <2>3, Zenon
  <2> QED BY <2>1, <2>2, <2>4, Zenon DEF FirstLap, EvictOK
<1>7. HeadersOK'
  <2>1. \A p \in Cached' : Named(p) => Named(p)'
    BY <1>1, <1>3 DEF Named
  <2>2. \A u \in Threads : pc[u] = "copy" => pc'[u] = "copy"
    BY <1>1
  <2> QED BY <1>1, <1>3, <2>1, <2>2 DEF FirstLap, HeadersOK
<1> QED BY <1>5, <1>6, <1>7 DEF FirstLap

\* The node dies after its page was unlocked: no page has its chunk by then.
LEMMA SetLiveStep ==
  ASSUME TypeOK, CallsOK, FirstLap, NEW t \in Threads, set_live(t)
  PROVE  FirstLap'
<1> USE DEF Goto
<1>0. /\ pc \in [Threads -> States] /\ cell \in [Threads -> Locals]
      /\ meta \in [Chunks -> Headers]
  BY DEF TypeOK
<1>1. /\ pc[t] = "evicted" /\ UNCHANGED <<map, tail, cell, spilt>> /\ pc'[t] = "store_head"
      /\ \A u \in Threads \ {t} : pc'[u] = pc[u]
  BY <1>0 DEF set_live
<1>2. ChunksOK' /\ EvictOK'
  <2>1. SameChunks
    BY <1>1 DEF SameChunks, Using
  <2> QED BY <2>1, SameChunksKeeps DEF FirstLap
<1>3. Cached' = Cached /\ \A p \in Cached : map[p] \in Chunks /\ map[p] # cell[t].cand
  BY <1>1 DEF Cached, FirstLap, EvictOK
<1>4. \A c \in Chunks \ {cell[t].cand} : meta'[c] = meta[c]
  BY <1>0, Zenon DEF set_live
<1>5. \A p \in Cached : Named(p) => Named(p)'
  BY <1>1, <1>3, <1>4 DEF Named
<1>6. HeadersOK'
  <2>1. \A u \in Threads : pc[u] = "copy" => pc'[u] = "copy"
    BY <1>1
  <2> QED BY <1>1, <1>3, <1>5, <2>1 DEF FirstLap, HeadersOK
<1> QED BY <1>2, <1>6 DEF FirstLap

-------------------------------------------------------------------------------
(* Theorems.                                                               *)

\* BufInv is inductive.
THEOREM BufferInvariant == Spec => []BufInv
<1>1. Init => BufInv
  <2> SUFFICES ASSUME Init PROVE BufInv
    OBVIOUS
  <2>1. Zeroed \in Headers /\ ~Zeroed.live
    BY DEF Zeroed, Headers
  <2>2. TypeOK
    <3>1. head \in Chunks /\ tail \in 0..buff_size /\ calls \in 0..MaxCalls
      BY BufferAssumption DEF Init, Chunks
    <3>2. meta \in [Chunks -> Headers]
      BY <2>1 DEF Init
    <3>3. cell \in [Threads -> Locals] /\ pc \in [Threads -> States]
      BY NoLocalsType DEF Init, States
    <3>4. /\ map \in [Pages -> Chunks \cup {Leaf, Free}] /\ locked \in [Pages -> BOOLEAN]
          /\ held \in [Threads -> SUBSET Pages] /\ wrapped \in BOOLEAN
          /\ spilt \subseteq Chunks
      BY Zenon DEF Init
    <3> QED BY <3>1, <3>2, <3>3, <3>4 DEF TypeOK
  <2>3. CallsOK
    BY <2>1, BufferAssumption, NoLocalsType DEF Init, CallsOK, CallOK
  <2>4. Cached = {}
    BY BufferAssumption DEF Init, Cached, Chunks
  <2>5. FirstLap
    BY <2>4 DEF Init, FirstLap, ChunksOK, EvictOK, HeadersOK, Using
  <2> QED BY <2>2, <2>3, <2>5 DEF BufInv
<1>2. BufInv /\ [Next]_vars => BufInv'
  <2> SUFFICES ASSUME BufInv, [Next]_vars PROVE BufInv'
    OBVIOUS
  <2>1. CASE Next
    <3>1. TypeOK' /\ CallsOK'
      BY <2>1, NextTypes DEF BufInv
    <3>2. ASSUME ~wrapped'
          PROVE  FirstLap'
      <4>1. PICK t \in Threads : Step(t) \/ EndTx(t) \/ \E p \in Pages : Call(t, p)
        BY <2>1 DEF Next
      <4>2. ~wrapped
        BY <3>2, <4>1, Zenon DEF Step, Call, Lock, EndTx, try_put, promote_leaf_to_mini_page,
             new_mini_page, AllocHead, AllocNone, AllocCas, AllocRetry, SetMiniPage,
             WriteHeader, apply_leaf_split, evict, SkipDead, SecondChance, ChoosePage,
             SkipPage, FollowPage, mark_for_eviction, set_leaf, set_live, StoreHead,
             EvictOk, CacheExhausted
      <4>3. TypeOK /\ CallsOK /\ FirstLap
        BY <4>2 DEF BufInv
      <4> QED BY <3>2, <4>1, <4>3, QuietSteps, AllocCasStep, SetMiniPageStep,
                 WriteHeaderStep, MarkStep, SetLeafStep, SetLiveStep DEF Step
    <3> QED BY <3>1, <3>2 DEF BufInv
  <2>2. CASE UNCHANGED vars
    <3>1. TypeOK' /\ CallsOK'
      BY <2>2 DEF vars, BufInv, TypeOK, CallsOK, CallOK
    <3>2. ~wrapped' => FirstLap'
      <4>1. SameChunks /\ SameHeaders
        BY <2>2 DEF vars, SameChunks, SameHeaders, Using
      <4> QED BY <2>2, <4>1, SameChunksKeeps, SameHeadersKeeps, Zenon DEF vars, BufInv, FirstLap
    <3> QED BY <3>1, <3>2, Zenon DEF BufInv
  <2> QED BY <2>1, <2>2
<1> QED BY <1>1, <1>2, PTL DEF Spec

\* Indices stay in the buffer, those of alloc as well as those of evict.
THEOREM IndicesInBuffer == Spec => []TypeOK
<1>1. BufInv => TypeOK
  BY Zenon DEF BufInv
<1> QED BY <1>1, BufferInvariant, PTL

\* Concurrent allocations of the first lap give no chunk to two pages, however
\* many transactions and chunks there are.
THEOREM ChunksDisjoint == Spec => []FirstLapDisjoint
<1>1. BufInv => FirstLapDisjoint
  BY Zenon DEF BufInv, FirstLap, ChunksOK, FirstLapDisjoint, Given, Using
<1> QED BY <1>1, BufferInvariant, PTL

\* On the first lap evict finds every page that was promoted from disk, also when two
\* transactions have the page's guard because evict dropped its own after set_leaf.
THEOREM HeadersNamePages == Spec => []HeaderNamesPage
<1>1. BufInv => HeaderNamesPage
  BY DEF BufInv, FirstLap, HeadersOK, HeaderNamesPage, Named
<1> QED BY <1>1, BufferInvariant, PTL
===============================================================================
