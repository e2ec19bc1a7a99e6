-------------------------------- MODULE Store --------------------------------
(***************************************************************************)
(* Transactions on the root leaf (lib.rs, with the record semantics of     *)
(* node.rs, types.rs and page_op.rs): the leaf on disk, its mini-page copy *)
(* in the cache, the records of the leaf and the transaction markers in    *)
(* the write-ahead log, the undo log of each transaction, checkpoints,     *)
(* eviction, and the restart that throws away all but the two files.       *)
(*                                                                         *)
(* The page lock is that of SlotLock, readers beside a writer included; a  *)
(* lock call may always fail and then changes nothing.  Once a transaction *)
(* has a write guard that has stood beside another's, no call goes on      *)
(* until the restart.  The leaf does not fill up, and values have one      *)
(* length.                                                                 *)
(***************************************************************************)
EXTENDS SlotLock, Sequences, SeqOps

CONSTANTS
  Keys, Vals,
  None,             \* Option::None, no entry, no value
  LeafThreshold,    \* wal_leaf_checkpoint_threshold
  GlobalThreshold,  \* wal_global_record_threshold
  MaxTxns,          \* bound: transactions begun between two restarts
  MaxWrites,        \* bound: writes of one transaction
  MaxRestarts       \* bound: restarts

ASSUME ThresholdAssumption == LeafThreshold \in Nat /\ GlobalThreshold \in Nat
ASSUME BoundsAssumption == MaxTxns \in Nat /\ MaxWrites \in Nat /\ MaxRestarts \in Nat

VARIABLES
  disk,         \* the leaf in the data file
  mapped,       \* what the map table says of the page: "leaf" or "mini"
  mini,         \* the entries of the mini-page
  page_log,     \* the log's records of the page
  txn_log,      \* the log's transaction markers
  requested,    \* wal_checkpoint_requested
  next_txn_id,
  txn_id,       \* per thread: its transaction, 0 when it has none
  undo_log,     \* per thread
  node,         \* per thread: what the guard in its lock slot takes the page for
  leaf,         \* per thread: the DiskLeaf kept in its lock slot
  handles,      \* per thread: the PageHandles of the slot that exist
  pc,           \* per thread: the call it is in
  arg,          \* per thread: key, new value and old value of the write
  restarts,
  db,           \* history: the committed content
  mine,         \* history, per thread: the content its transaction made
  base,         \* history, per thread: what gets returned at its write lock
  flushed,      \* history: transactions that flushed the leaf
  buried        \* history: some put found a tombstone in the entry

files == <<disk, page_log, txn_log>>
cache == <<mapped, mini>>
calls == <<txn_id, undo_log, node, leaf, handles, pc, arg>>
history == <<db, mine, base, flushed, buried>>
vars == <<lockVars, files, cache, calls, history, requested, next_txn_id, restarts>>

Contents == [Keys -> Vals \cup {None}]
Entries == [typ : {"Insert", "Tombstone"}, val : Vals]
Slots == Entries \cup {None}

ASSUME NoneAssumption == None \notin Keys \cup Vals \cup Entries \cup Contents

Empty == [k \in Keys |-> None]
NoArg == [key |-> None, val |-> None, old |-> None]

-------------------------------------------------------------------------------
(* Entries of a node.                                                      *)

\* KVRecordType::exists: true of every type.
exists(typ) == typ \in {"Insert", "Tombstone"}

\* NodeMeta::get.
get_entry(m, k) == IF m[k] # None /\ exists(m[k].typ) THEN m[k].val ELSE None

\* NodeMeta::try_put: a new entry is an Insert, an entry that is there keeps its
\* type and has its value rewritten.
put_entry(m, k, v) ==
  [m EXCEPT ![k] = [typ |-> IF m[k] = None THEN "Insert" ELSE m[k].typ, val |-> v]]

\* NodeMeta::mark_tombstone, and NodeMeta::remove_key_physical.
mark_tombstone(m, k) == [m EXCEPT ![k].typ = "Tombstone"]
remove_key_physical(m, k) == [m EXCEPT ![k] = None]
Tombstoned(m, k) == m[k] # None /\ m[k].typ = "Tombstone"

\* A copy of the bytes of a disk leaf, whose entries are Inserts.
loaded(d) ==
  [k \in Keys |-> IF d[k] = None THEN None ELSE [typ |-> "Insert", val |-> d[k]]]

\* flush_dirty_entries: the disk leaf it writes, and the mini-page it leaves.
flushed_leaf(m, d) ==
  [k \in Keys |-> IF m[k] = None THEN d[k]
                  ELSE IF Tombstoned(m, k) THEN None ELSE m[k].val]
flushed_mini(m) ==
  [k \in Keys |-> IF Tombstoned(m, k) THEN None ELSE m[k]]

\* existing_value: the mini-page alone when there is one.
existing_value(t, k) == IF node[t] = "mini" THEN get_entry(mini, k) ELSE disk[k]

\* load_leaf and ensure_page: the leaf is read once for a lock slot.
load_leaf(t) == IF leaf[t] = None THEN disk ELSE leaf[t]

\* PageGuard::get: the mini-page the guard names, then the leaf of the slot.
page_get(t, k) ==
  IF node[t] = "mini" /\ mini[k] # None THEN get_entry(mini, k) ELSE load_leaf(t)[k]

\* What a transaction that holds no leaf yet would get.
View == [k \in Keys |-> IF mapped = "mini" /\ mini[k] # None
                        THEN get_entry(mini, k) ELSE disk[k]]

-------------------------------------------------------------------------------
(* Replay.                                                                 *)

Records == [txn : 1..MaxTxns, kind : {"Redo", "Undo"}, key : Keys, val : Vals \cup {None}]
Markers == [txn : 1..MaxTxns, mark : {"Begin", "Commit", "Abort"}]

\* txn_statuses: the transactions with a commit marker.
Committed == {m.txn : m \in {r \in Range(txn_log) : r.mark = "Commit"}}

\* Mutant of applies: redo records are applied whatever became of the transaction.
applies_redo(r) == r.kind = "Redo"

\* Of a transaction that committed the redo records, of any other the undo.
applies(r) == IF r.txn \in Committed THEN r.kind = "Redo" ELSE r.kind = "Undo"

\* apply_wal_op: a tombstone has no value.
apply_wal_op(r, entries) == [entries EXCEPT ![r.key] = r.val]

\* The record loop of replay_wal, and the leaf it makes; an empty one is not written.
replay_records ==
  LET entries[i \in 0..Len(page_log)] ==
        IF i = 0 THEN disk
        ELSE IF applies(page_log[i]) THEN apply_wal_op(page_log[i], entries[i - 1])
        ELSE entries[i - 1]
  IN  entries[Len(page_log)]
replayed == IF replay_records = Empty THEN disk ELSE replay_records

\* replay_wal: a page the map table has no entry for is skipped.
replay_wal(has_entry) == IF has_entry THEN replayed ELSE disk

-------------------------------------------------------------------------------
(* Parts of the calls.                                                     *)

\* Where a transaction is, and where the eviction of the page is, while the guards
\* still mean what they say.
Idle(t) == ~Lost /\ txn_id[t] # 0 /\ pc[t] = "idle"
At(t, where) == ~Lost /\ pc[t] = where /\ t \notin replacing
EvictorAt(where) == ~Lost /\ evictor = where

Goto(t, where) == pc' = [pc EXCEPT ![t] = where]

\* QuickStep::new, on an empty data file: ensure_root_leaf_on_disk.
Init ==
  /\ LockInit
  /\ disk = Empty /\ mapped = "leaf" /\ mini = Empty
  /\ page_log = <<>> /\ txn_log = <<>>
  /\ requested = FALSE
  /\ next_txn_id = 1
  /\ txn_id = [t \in Threads |-> 0]
  /\ undo_log = [t \in Threads |-> <<>>]
  /\ node = [t \in Threads |-> None]
  /\ leaf = [t \in Threads |-> None]
  /\ handles = [t \in Threads |-> 0]
  /\ pc = [t \in Threads |-> "idle"]
  /\ arg = [t \in Threads |-> NoArg]
  /\ restarts = 0
  /\ db = Empty
  /\ mine = [t \in Threads |-> Empty]
  /\ base = [t \in Threads |-> Empty]
  /\ flushed = {} /\ buried = FALSE

\* What the map table says when a guard is made stays in the guard.
Node(t) == IF t \in readers \cup writers THEN node[t] ELSE mapped

\* get_upgrade_or_acquire_write_lock, and the handle it returns; an upgrade is
\* followed by the step ensure_write.
LockForWrite(t) ==
  /\ IF t \in writers THEN UNCHANGED <<lockVars, mine, base>>
     ELSE /\ AcquireWrite(t) \/ Upgrade(t)
          /\ mine' = [mine EXCEPT ![t] = db]
          /\ base' = [base EXCEPT ![t] = View]
  /\ node' = [node EXCEPT ![t] = Node(t)]
  /\ handles' = [handles EXCEPT ![t] = @ + 1]

\* ensure_mini_page and promote_leaf_to_mini_page: the mini-page is a copy of the
\* leaf of the lock slot.
Cached(t) == IF node[t] = "mini" THEN mini ELSE loaded(load_leaf(t))
EnsureMini(t) ==
  /\ IF node[t] = "mini" THEN UNCHANGED <<lockVars, leaf>>
     ELSE /\ SetMiniPage
          /\ leaf' = [leaf EXCEPT ![t] = load_leaf(t)]
  /\ mapped' = "mini"
  /\ node' = [node EXCEPT ![t] = "mini"]

\* Mutant of Return: the handle is not dropped.
ReturnBorrowed(t) ==
  /\ Goto(t, "idle")
  /\ arg' = [arg EXCEPT ![t] = NoArg]
  /\ UNCHANGED handles

\* The call returns: its handles are dropped.
Return(t) ==
  /\ Goto(t, "idle")
  /\ handles' = [handles EXCEPT ![t] = 0]
  /\ arg' = [arg EXCEPT ![t] = NoArg]

\* Mutant of EndTx: the lock slot outlives the transaction with the leaf it loaded.
EndTxKeepsLeaf(t) ==
  /\ txn_id' = [txn_id EXCEPT ![t] = 0]
  /\ undo_log' = [undo_log EXCEPT ![t] = <<>>]
  /\ node' = [node EXCEPT ![t] = None]
  /\ handles' = [handles EXCEPT ![t] = 0]
  /\ Goto(t, "idle")
  /\ IF t \in readers \cup writers THEN ReleaseRead(t) \/ ReleaseWrite(t)
     ELSE UNCHANGED lockVars
  /\ mine' = [mine EXCEPT ![t] = Empty]
  /\ base' = [base EXCEPT ![t] = Empty]
  /\ UNCHANGED <<leaf, arg, flushed, buried>>

\* The transaction is dropped, and its locks with it.
EndTx(t) ==
  /\ txn_id' = [txn_id EXCEPT ![t] = 0]
  /\ undo_log' = [undo_log EXCEPT ![t] = <<>>]
  /\ node' = [node EXCEPT ![t] = None]
  /\ leaf' = [leaf EXCEPT ![t] = None]
  /\ handles' = [handles EXCEPT ![t] = 0]
  /\ Goto(t, "idle")
  /\ IF t \in readers \cup writers THEN ReleaseRead(t) \/ ReleaseWrite(t)
     ELSE UNCHANGED lockVars
  /\ mine' = [mine EXCEPT ![t] = Empty]
  /\ base' = [base EXCEPT ![t] = Empty]
  /\ UNCHANGED <<arg, flushed, buried>>

Mark(t, mark) == txn_log' = Append(txn_log, [txn |-> txn_id[t], mark |-> mark])

Log(t, kind, v) ==
  page_log' = Append(page_log,
    [txn |-> txn_id[t], kind |-> kind, key |-> arg[t].key, val |-> v])

-------------------------------------------------------------------------------
(* Transactions.                                                           *)

\* QuickStep::tx.
tx(t) ==
  /\ txn_id[t] = 0
  /\ next_txn_id <= MaxTxns
  /\ txn_id' = [txn_id EXCEPT ![t] = next_txn_id]
  /\ next_txn_id' = next_txn_id + 1
  /\ txn_log' = Append(txn_log, [txn |-> next_txn_id, mark |-> "Begin"])
  /\ UNCHANGED <<lockVars, disk, page_log, cache, undo_log, node, leaf, handles, pc,
                 arg, history, requested, restarts>>

\* QuickStepTx::get: the read lock, kept, and the leaf it may load.
get(t, k) ==
  /\ Idle(t)
  /\ IF t \in readers \cup writers THEN UNCHANGED lockVars ELSE AcquireRead(t)
  /\ node' = [node EXCEPT ![t] = Node(t)]
  /\ leaf' = IF Node(t) = "mini" /\ mini[k] # None THEN leaf
             ELSE [leaf EXCEPT ![t] = load_leaf(t)]
  /\ UNCHANGED <<files, cache, txn_id, undo_log, handles, pc, arg, history, requested,
                 next_txn_id, restarts>>

\* QuickStepTx::put, QuickStepTx::delete and debug_flush_leaf up to the lock.
put(t, k, v) ==
  /\ Idle(t) /\ Len(undo_log[t]) < MaxWrites
  /\ LockForWrite(t)
  /\ Goto(t, "put")
  /\ arg' = [arg EXCEPT ![t] = [key |-> k, val |-> v, old |-> None]]
  /\ UNCHANGED <<files, cache, txn_id, undo_log, leaf, db, flushed, buried, requested,
                 next_txn_id, restarts>>

delete(t, k) ==
  /\ Idle(t) /\ Len(undo_log[t]) < MaxWrites
  /\ LockForWrite(t)
  /\ Goto(t, "delete")
  /\ arg' = [arg EXCEPT ![t] = [key |-> k, val |-> None, old |-> None]]
  /\ UNCHANGED <<files, cache, txn_id, undo_log, leaf, db, flushed, buried, requested,
                 next_txn_id, restarts>>

debug_flush_leaf(t) ==
  /\ Idle(t)
  /\ LockForWrite(t)
  /\ Goto(t, "flush")
  /\ UNCHANGED <<files, cache, txn_id, undo_log, leaf, arg, db, flushed, buried,
                 requested, next_txn_id, restarts>>

\* ensure_write: the read guard that was upgraded is dropped.
EnsureWrite(t) ==
  /\ ensure_write(t)
  /\ UNCHANGED <<files, cache, calls, history, requested, next_txn_id, restarts>>

\* MiniPageBuffer::alloc has no room: the call fails, the lock stays.
CacheExhausted(t) ==
  /\ At(t, "put") \/ At(t, "delete") \/ At(t, "flush")
  /\ node[t] = "leaf"
  /\ Return(t)
  /\ UNCHANGED <<lockVars, files, cache, txn_id, undo_log, node, leaf, history, requested,
                 next_txn_id, restarts>>

\* put: existing_value, try_put_with_promotion.
PutEntry(t) ==
  /\ At(t, "put")
  /\ EnsureMini(t)
  /\ mini' = put_entry(Cached(t), arg[t].key, arg[t].val)
  /\ arg' = [arg EXCEPT ![t].old = existing_value(t, arg[t].key)]
  /\ Goto(t, "redo")
  /\ mine' = [mine EXCEPT ![t][arg[t].key] = arg[t].val]
  /\ buried' = (buried \/ Tombstoned(Cached(t), arg[t].key))
  /\ UNCHANGED <<files, txn_id, undo_log, handles, db, base, flushed, requested,
                 next_txn_id, restarts>>

\* delete: the entry becomes a tombstone.
DeleteEntry(t) ==
  /\ At(t, "delete")
  /\ get_entry(Cached(t), arg[t].key) # None /\ ~Tombstoned(Cached(t), arg[t].key)
  /\ EnsureMini(t)
  /\ mini' = mark_tombstone(Cached(t), arg[t].key)
  /\ arg' = [arg EXCEPT ![t].old = get_entry(Cached(t), arg[t].key)]
  /\ Goto(t, "redo")
  /\ mine' = [mine EXCEPT ![t][arg[t].key] = None]
  /\ UNCHANGED <<files, txn_id, undo_log, handles, db, base, flushed, buried,
                 requested, next_txn_id, restarts>>

\* delete: the key is not there, or mark_tombstone found it deleted.
DeleteMisses(t) ==
  /\ At(t, "delete")
  /\ get_entry(Cached(t), arg[t].key) = None \/ Tombstoned(Cached(t), arg[t].key)
  /\ EnsureMini(t)
  /\ mini' = Cached(t)
  /\ Return(t)
  /\ UNCHANGED <<files, txn_id, undo_log, history, requested, next_txn_id,
                 restarts>>

\* append_wal_put and delete: the redo record, then the undo record of the value
\* before, which log_put_undo and log_delete_undo also keep in memory.
LogRedo(t) ==
  /\ At(t, "redo")
  /\ Log(t, "Redo", arg[t].val)
  /\ Goto(t, "undo")
  /\ UNCHANGED <<lockVars, disk, txn_log, cache, txn_id, undo_log, node, leaf, handles, arg,
                 history, requested, next_txn_id, restarts>>

\* Mutant of LogUndo: the record holds the new value.
LogUndoNew(t) ==
  /\ At(t, "undo")
  /\ Log(t, "Undo", arg[t].val)
  /\ undo_log' = [undo_log EXCEPT ![t] = Append(@, [key |-> arg[t].key, val |-> arg[t].old])]
  /\ Goto(t, "maybe_checkpoint_leaf")
  /\ UNCHANGED <<lockVars, disk, txn_log, cache, txn_id, node, leaf, handles, arg, history,
                 requested, next_txn_id, restarts>>

LogUndo(t) ==
  /\ At(t, "undo")
  /\ Log(t, "Undo", arg[t].old)
  /\ undo_log' = [undo_log EXCEPT ![t] = Append(@, [key |-> arg[t].key, val |-> arg[t].old])]
  /\ Goto(t, "maybe_checkpoint_leaf")
  /\ UNCHANGED <<lockVars, disk, txn_log, cache, txn_id, node, leaf, handles, arg, history,
                 requested, next_txn_id, restarts>>

-------------------------------------------------------------------------------
(* Checkpoints.                                                            *)

\* merge_to_disk and flush_dirty_entries on the mini-page m.
MergeToDisk(t, m) ==
  /\ disk' = flushed_leaf(m, disk)
  /\ mini' = flushed_mini(m)
  /\ flushed' = flushed \cup {txn_id[t]}

should_checkpoint_page == page_log # <<>> /\ Len(page_log) >= LeafThreshold
total_records == Len(page_log) + Len(txn_log)
global_checkpoint_candidate(threshold) == total_records >= threshold /\ page_log # <<>>

\* maybe_checkpoint_leaf.
FlushLeaf(t) ==
  /\ At(t, "maybe_checkpoint_leaf") /\ should_checkpoint_page
  /\ EnsureMini(t)
  /\ MergeToDisk(t, Cached(t))
  /\ Goto(t, "checkpoint_leaf")
  /\ UNCHANGED <<page_log, txn_log, txn_id, undo_log, handles, arg, db, mine,
                 base, buried, requested, next_txn_id, restarts>>

KeepLeaf(t) ==
  /\ At(t, "maybe_checkpoint_leaf") /\ ~should_checkpoint_page
  /\ Goto(t, "maybe_global_checkpoint")
  /\ UNCHANGED <<lockVars, files, cache, txn_id, undo_log, node, leaf, handles, arg, history,
                 requested, next_txn_id, restarts>>

\* checkpoint_page: the records of the page leave the log.
CheckpointLeaf(t) ==
  /\ At(t, "checkpoint_leaf")
  /\ page_log' = <<>>
  /\ Goto(t, "maybe_global_checkpoint")
  /\ UNCHANGED <<lockVars, disk, txn_log, cache, txn_id, undo_log, node, leaf, handles, arg,
                 history, requested, next_txn_id, restarts>>

\* maybe_global_checkpoint takes a second handle while put or delete holds one.
Candidate ==
  \/ global_checkpoint_candidate(GlobalThreshold)
  \/ requested /\ global_checkpoint_candidate(0)

FlushCandidate(t) ==
  /\ At(t, "maybe_global_checkpoint") /\ Candidate
  /\ handles' = [handles EXCEPT ![t] = @ + 1]
  /\ EnsureMini(t)
  /\ MergeToDisk(t, Cached(t))
  /\ Goto(t, "checkpoint_candidate")
  /\ UNCHANGED <<page_log, txn_log, txn_id, undo_log, arg, db, mine, base,
                 buried, requested, next_txn_id, restarts>>

NoCandidate(t) ==
  /\ At(t, "maybe_global_checkpoint") /\ ~Candidate
  /\ Return(t)
  /\ UNCHANGED <<lockVars, files, cache, txn_id, undo_log, node, leaf, history, requested,
                 next_txn_id, restarts>>

CheckpointCandidate(t) ==
  /\ At(t, "checkpoint_candidate")
  /\ page_log' = <<>>
  /\ requested' = FALSE
  /\ Return(t)
  /\ UNCHANGED <<lockVars, disk, txn_log, cache, txn_id, undo_log, node, leaf, history,
                 next_txn_id, restarts>>

\* debug_flush_leaf after the lock.
FlushNow(t) ==
  /\ At(t, "flush")
  /\ EnsureMini(t)
  /\ MergeToDisk(t, Cached(t))
  /\ Goto(t, "checkpoint_flushed")
  /\ UNCHANGED <<page_log, txn_log, txn_id, undo_log, handles, arg, db, mine,
                 base, buried, requested, next_txn_id, restarts>>

CheckpointFlushed(t) ==
  /\ At(t, "checkpoint_flushed")
  /\ page_log' = <<>>
  /\ Return(t)
  /\ UNCHANGED <<lockVars, disk, txn_log, cache, txn_id, undo_log, node, leaf, history,
                 requested, next_txn_id, restarts>>

\* The monitor thread of QuickStep::new.
Monitor ==
  /\ total_records >= GlobalThreshold
  /\ requested' = TRUE
  /\ UNCHANGED <<lockVars, files, cache, calls, history, next_txn_id, restarts>>

\* MiniPageBuffer::evict, for an allocation of another page: the lock,
\* flush_dirty_entries, checkpoint_page and set_leaf, the drop of the guard.
evict ==
  /\ EvictorAt("none") /\ mapped = "mini"
  /\ EvictLock
  /\ UNCHANGED <<files, cache, calls, history, requested, next_txn_id, restarts>>

EvictFlush ==
  /\ EvictorAt("flush")
  /\ Guards(readers, writers, "unmap")
  /\ disk' = flushed_leaf(mini, disk)
  /\ mini' = flushed_mini(mini)
  /\ UNCHANGED <<replacing, state, page_log, txn_log, mapped, calls, history, requested,
                 next_txn_id, restarts>>

EvictUnmap ==
  /\ EvictorAt("unmap")
  /\ SetLeaf
  /\ page_log' = <<>>
  /\ mapped' = "leaf"
  /\ mini' = Empty
  /\ UNCHANGED <<disk, txn_log, calls, history, requested, next_txn_id, restarts>>

EvictUnlock ==
  /\ EvictDrop
  /\ UNCHANGED <<files, cache, calls, history, requested, next_txn_id, restarts>>

-------------------------------------------------------------------------------
(* The end of a transaction, and the end of the process.                   *)

\* commit_in_place.
commit(t) ==
  /\ Idle(t)
  /\ Mark(t, "Commit")
  /\ EndTx(t)
  /\ db' = IF t \in writers THEN mine[t] ELSE db
  /\ UNCHANGED <<disk, page_log, cache, requested, next_txn_id, restarts>>

\* abort_in_place: apply_undo_actions, from the last write to the first.
undo_action(u, m) ==
  IF u.val = None THEN remove_key_physical(m, u.key)
  ELSE put_entry(remove_key_physical(m, u.key), u.key, u.val)

\* Mutant of apply_undo_actions: from the first write to the last.
UndoForward(log, m) ==
  LET undone[i \in 0..Len(log)] == IF i = 0 THEN m ELSE undo_action(log[i], undone[i - 1])
  IN  undone[Len(log)]

apply_undo_actions(log, m) ==
  LET undone[i \in 0..Len(log)] ==
        IF i = 0 THEN m ELSE undo_action(log[Len(log) + 1 - i], undone[i - 1])
  IN  undone[Len(log)]

abort(t) ==
  /\ Idle(t)
  /\ mapped' = IF undo_log[t] = <<>> THEN mapped ELSE "mini"
  /\ mini' = IF undo_log[t] = <<>> THEN mini ELSE apply_undo_actions(undo_log[t], Cached(t))
  /\ Mark(t, "Abort")
  /\ EndTx(t)
  /\ UNCHANGED <<disk, page_log, db, requested, next_txn_id, restarts>>

\* The process ends, in order or not, and QuickStep::new runs again: the files are
\* what is left.  replay_wal runs on a new map table, before init_leaf_entry, and
\* clears the log.
Restart ==
  /\ restarts < MaxRestarts
  /\ restarts' = restarts + 1
  /\ disk' = replay_wal(FALSE)
  /\ page_log' = <<>> /\ txn_log' = <<>>
  /\ mapped' = "leaf" /\ mini' = Empty
  /\ readers' = {} /\ writers' = {} /\ replacing' = {} /\ strays' = {}
  /\ state' = 0 /\ evictor' = "none"
  /\ requested' = FALSE
  /\ next_txn_id' = 1
  /\ txn_id' = [t \in Threads |-> 0]
  /\ undo_log' = [t \in Threads |-> <<>>]
  /\ node' = [t \in Threads |-> None]
  /\ leaf' = [t \in Threads |-> None]
  /\ handles' = [t \in Threads |-> 0]
  /\ pc' = [t \in Threads |-> "idle"]
  /\ arg' = [t \in Threads |-> NoArg]
  /\ db' = disk'
  /\ mine' = [t \in Threads |-> Empty]
  /\ base' = [t \in Threads |-> Empty]
  /\ flushed' = {} /\ buried' = FALSE

Call(t) ==
  \/ tx(t) \/ commit(t) \/ abort(t) \/ debug_flush_leaf(t)
  \/ \E k \in Keys : get(t, k) \/ delete(t, k) \/ \E v \in Vals : put(t, k, v)

Step(t) ==
  \/ EnsureWrite(t) \/ CacheExhausted(t) \/ PutEntry(t) \/ DeleteEntry(t) \/ DeleteMisses(t)
  \/ LogRedo(t) \/ LogUndo(t)
  \/ FlushLeaf(t) \/ KeepLeaf(t) \/ CheckpointLeaf(t)
  \/ FlushCandidate(t) \/ NoCandidate(t) \/ CheckpointCandidate(t)
  \/ FlushNow(t) \/ CheckpointFlushed(t)

Next ==
  \/ \E t \in Threads : Call(t) \/ Step(t)
  \/ evict \/ EvictFlush \/ EvictUnmap \/ EvictUnlock
  \/ Monitor \/ Restart

Spec == Init /\ [][Next]_vars

-------------------------------------------------------------------------------
(* Properties.                                                             *)

Steps == {"idle", "put", "delete", "flush", "redo", "undo", "maybe_checkpoint_leaf",
          "checkpoint_leaf", "maybe_global_checkpoint", "checkpoint_candidate",
          "checkpoint_flushed"}

\* The types of the state.
TypeOK ==
  /\ readers \subseteq Threads /\ writers \subseteq Threads
  /\ replacing \subseteq writers /\ strays \subseteq readers \cup writers
  /\ state \in 0..Overrun /\ evictor \in {"none", "flush", "unmap", "drop"}
  /\ disk \in Contents /\ mini \in [Keys -> Slots] /\ mapped \in {"leaf", "mini"}
  /\ page_log \in Seq(Records) /\ txn_log \in Seq(Markers)
  /\ requested \in BOOLEAN /\ next_txn_id \in 1..(MaxTxns + 1)
  /\ txn_id \in [Threads -> 0..MaxTxns]
  /\ undo_log \in [Threads -> Seq([key : Keys, val : Vals \cup {None}])]
  /\ node \in [Threads -> {"leaf", "mini", None}]
  /\ leaf \in [Threads -> Contents \cup {None}]
  /\ handles \in [Threads -> 0..2] /\ pc \in [Threads -> Steps]
  /\ db \in Contents /\ mine \in [Threads -> Contents] /\ base \in [Threads -> Contents]
  /\ flushed \subseteq 1..MaxTxns /\ buried \in BOOLEAN

Aborts(t) == txn_id[t] # 0 /\ txn_log' = Append(txn_log, [txn |-> txn_id[t], mark |-> "Abort"])

\* Abort restores what gets returned when the transaction took its write lock.
AbortRestores == [][\A t \in writers : Aborts(t) => View' = base[t]]_vars

\* It does so for every transaction that no checkpoint flushed before its end,
\* whatever mix of puts and deletes it ran.
AbortRestoresUnflushed ==
  [][\A t \in writers : Aborts(t) /\ txn_id[t] \notin flushed => View' = base[t]]_vars

\* The undo records in the log are those abort would use, in the order they were
\* made, until a checkpoint takes them from the log; between the two appends of a
\* write the log is not behind the undo log.
LogsAgree ==
  \A t \in writers :
    txn_id[t] \notin flushed =>
      LET undos == Filter(page_log, {r \in Records : r.txn = txn_id[t] /\ r.kind = "Undo"})
      IN undo_log[t] = [i \in DOMAIN undos |-> [key |-> undos[i].key, val |-> undos[i].val]]

\* A get of a transaction that holds the page, from the mini-page its guard names or
\* the leaf its slot keeps, never returns another value than the store has, unless
\* its guard has stood beside another's write guard, the transaction deleted the key,
\* or a put met a tombstone.
GetIsCurrent ==
  \A t \in readers \cup writers, k \in Keys :
    \/ page_get(t, k) = View[k]
    \/ t \in strays
    \/ t \in writers /\ mine[t][k] = None
    \/ buried

\* page_op.rs, "we have either a read or write lock": also the guards that stand
\* beside a write guard answer with what the store has.
GetUnderLock ==
  \A t \in readers \cup writers, k \in Keys :
    \/ page_get(t, k) = View[k]
    \/ t \in writers /\ mine[t][k] = None
    \/ buried

\* map_table.rs, "we had write lock": no behaviour ends with two writers, a writer
\* whose guard has stood beside another's, or a lock state counted below 0.
WriterAlone == ~Lost

\* Writes of one key by one transaction that has not committed.
Rewritten ==
  \E i, j \in DOMAIN page_log :
    /\ i < j /\ page_log[i].kind = "Undo" /\ page_log[j].kind = "Undo"
    /\ page_log[i].txn = page_log[j].txn /\ page_log[i].key = page_log[j].key
    /\ page_log[i].txn \notin Committed

\* The record loop of replay_wal makes the committed content from the files of any
\* state, also between the steps of a call, provided that no transaction was flushed
\* and not committed, none without a commit wrote a key twice, no put met a
\* tombstone, and something is left to write.
ReplayRecovers ==
  flushed \subseteq Committed /\ ~buried /\ ~Rewritten /\ db # Empty => replayed = db

\* tests/wal_manifest.rs: what committed is there after a restart.
RestartKeepsCommitted == [][restarts' # restarts => disk' = db]_vars

\* README: a restart rolls back the writes of a transaction in flight.
RestartRollsBack ==
  [][restarts' # restarts =>
       \A t \in writers, k \in Keys : mine[t][k] # db[k] => disk'[k] = db[k]]_vars

\* types.rs: a tombstone does not exist, so a transaction does not get what it deleted.
DeleteHides ==
  \A t \in writers : pc[t] = "idle" =>
    \A u \in Range(undo_log[t]) : mine[t][u.key] = None => page_get(t, u.key) = None

\* design/detailed-plan.md: a flush removes tombstoned keys and rewrites the others.
FlushKeepsPuts ==
  [][\A t \in writers, k \in Keys :
       disk' # disk /\ mine[t][k] # None => disk'[k] = mine[t][k]]_vars

\* lock_manager.rs: a page guard is not borrowed twice.
BorrowedOnce == \A t \in Threads : handles[t] <= 1

\* A checkpoint that the size of the log called for takes the log below it.
CheckpointRelieves ==
  [][\A t \in Threads :
       pc[t] = "checkpoint_candidate" /\ pc'[t] # pc[t] => total_records' < GlobalThreshold]_vars

===============================================================================
