------------------------------- MODULE MapTable -------------------------------
(***************************************************************************)
(* The lock word of one page of the mapping table (map_table.rs).  Every   *)
(* access to the AtomicU64 is one step: a load, a compare-exchange, a      *)
(* store.  Words of different pages share nothing, so one page is enough.  *)
(*                                                                         *)
(* A thread that runs a spin loop keeps the word it last saw in seen and   *)
(* the iterations it has left in spins; a thread that holds a guard keeps  *)
(* the mapping the guard was built with in node.                           *)
(***************************************************************************)
EXTENDS Naturals, FiniteSets

CONSTANTS
  Threads,         \* callers of the map table
  Evictors,        \* the threads that run MiniPageBuffer::evict (set_leaf)
  Addrs,           \* disk addresses and mini-page indices; 0 is both
  WriteLockState,  \* WRITE_LOCK_STATE, 2^14 - 1 in the code
  SpinRetries      \* SPIN_RETRIES

ASSUME ThreadsAssumption == IsFiniteSet(Threads) /\ Evictors \subseteq Threads
ASSUME AddrsAssumption == 0 \in Addrs
ASSUME LockStateAssumption == WriteLockState \in Nat /\ WriteLockState >= 2
ASSUME SpinAssumption == SpinRetries \in Nat

VARIABLES
  entry,      \* the word: address, leaf bit, write-pending bit, lock state
  allocated,  \* the slot has been given to a page (next_free is beyond it)
  pc,         \* per thread: idle, a spin loop, or the guard it holds
  seen,       \* per thread: the word last loaded by its loop
  spins,      \* per thread: iterations left
  node        \* per thread: the mapping cached in its guard

vars == <<entry, allocated, pc, seen, spins, node>>

Entries == [addr : Addrs, leaf : BOOLEAN, pending : BOOLEAN, state : 0..WriteLockState]
Nodes == [addr : Addrs, leaf : BOOLEAN]

\* alloc_zeroed: the word of a slot never used.
Zero == [addr |-> 0, leaf |-> FALSE, pending |-> FALSE, state |-> 0]

\* PageEntry::new_write_locked and PageEntry::leaf.
new_write_locked(a) ==
  [addr |-> a, leaf |-> FALSE, pending |-> FALSE, state |-> WriteLockState]
leaf_entry(a) ==
  [addr |-> a, leaf |-> TRUE, pending |-> FALSE, state |-> 0]

\* PageEntry::get_ref: the part of the word a guard hands out.
get_ref(e) == [addr |-> e.addr, leaf |-> e.leaf]
NoNode == get_ref(Zero)

\* MapTable::has_entry.
has_entry == entry # Zero

\* PageEntry::set_state and PageEntry::set_pending_write.
set_state(e, s) ==
  [addr |-> e.addr, leaf |-> e.leaf, pending |-> e.pending, state |-> s]
set_pending_write(e, p) ==
  [addr |-> e.addr, leaf |-> e.leaf, pending |-> p, state |-> e.state]

\* set_state(old_state - 1) on a u16: below zero the borrow sets all 16 low
\* bits, the lock state, the pending bit and the leaf bit with it.
minus_one(e) ==
  IF e.state = 0
  THEN [addr |-> e.addr, leaf |-> TRUE, pending |-> TRUE, state |-> WriteLockState]
  ELSE set_state(e, e.state - 1)

States == {"idle", "read_page_entry", "write_page_entry", "reader", "upgrade",
           "writer", "downgrade", "leaf_set", "replace"}

\* The holders of guards.  "leaf_set": a write guard after set_leaf; "replace":
\* a write guard about to replace a read guard in its slot (LockManager).
Readers == {t \in Threads : pc[t] \in {"reader", "upgrade"}}
Writers == {t \in Threads : pc[t] \in {"writer", "downgrade", "leaf_set", "replace"}}

Init ==
  /\ entry = Zero
  /\ allocated = FALSE
  /\ pc = [t \in Threads |-> "idle"]
  /\ seen = [t \in Threads |-> Zero]
  /\ spins = [t \in Threads |-> 0]
  /\ node = [t \in Threads |-> NoNode]

-------------------------------------------------------------------------------
(* Parts of the loops.                                                     *)

\* The load before a loop.
Enter(t, loop) ==
  /\ pc' = [pc EXCEPT ![t] = loop]
  /\ seen' = [seen EXCEPT ![t] = entry]
  /\ spins' = [spins EXCEPT ![t] = SpinRetries]
  /\ UNCHANGED <<entry, allocated, node>>

\* Mutant of Again: an iteration that is not counted.
AgainForever(t, e) ==
  /\ seen' = [seen EXCEPT ![t] = e]
  /\ UNCHANGED <<allocated, pc, spins, node>>

\* One iteration that leaves the loop running with e as the word it saw.
Again(t, e) ==
  /\ seen' = [seen EXCEPT ![t] = e]
  /\ spins' = [spins EXCEPT ![t] = @ - 1]
  /\ UNCHANGED <<allocated, pc, node>>

\* The loop or call returns; its locals die.
Leave(t, where) ==
  /\ pc' = [pc EXCEPT ![t] = where]
  /\ seen' = [seen EXCEPT ![t] = Zero]
  /\ spins' = [spins EXCEPT ![t] = 0]

Running(t, loop) == pc[t] = loop /\ spins[t] > 0

\* A compare-exchange of the word the loop saw.
CompareExchange(t, new) == entry = seen[t] /\ entry' = new

-------------------------------------------------------------------------------
(* Slots.                                                                  *)

\* init_leaf_entry: page 0 at start-up, an unlocked leaf.
init_leaf_entry(a) ==
  /\ ~allocated
  /\ allocated' = TRUE
  /\ entry' = leaf_entry(a)
  /\ UNCHANGED <<pc, seen, spins, node>>

\* create_page_entry: any later page, born write-locked by its creator.
create_page_entry(t, a) ==
  /\ ~allocated /\ pc[t] = "idle"
  /\ allocated' = TRUE
  /\ entry' = new_write_locked(a)
  /\ node' = [node EXCEPT ![t] = get_ref(entry')]
  /\ Leave(t, "writer")

-------------------------------------------------------------------------------
(* read_page_entry.                                                        *)

read_page_entry(t) ==
  /\ allocated /\ pc[t] = "idle"
  /\ Enter(t, "read_page_entry")

\* A word seen with the pending bit is never loaded again: the iterations
\* run out.
ReadPending(t) ==
  /\ Running(t, "read_page_entry")
  /\ seen[t].pending
  /\ Again(t, seen[t])
  /\ UNCHANGED entry

\* A reload because a writer was seen, or a compare-exchange that failed;
\* compare_exchange_weak may fail although the word is the one expected.
ReadReload(t) ==
  /\ Running(t, "read_page_entry")
  /\ ~seen[t].pending
  /\ Again(t, entry)
  /\ UNCHANGED entry

\* Mutant of ReadLocked: the lock state is not compared with WRITE_LOCK_STATE.
ReadLockedUnchecked(t) ==
  /\ Running(t, "read_page_entry")
  /\ ~seen[t].pending
  /\ CompareExchange(t, set_state(seen[t], seen[t].state + 1))
  /\ node' = [node EXCEPT ![t] = get_ref(seen[t])]
  /\ Leave(t, "reader")
  /\ UNCHANGED allocated

ReadLocked(t) ==
  /\ Running(t, "read_page_entry")
  /\ ~seen[t].pending
  /\ seen[t].state < WriteLockState
  /\ CompareExchange(t, set_state(seen[t], seen[t].state + 1))
  /\ node' = [node EXCEPT ![t] = get_ref(seen[t])]
  /\ Leave(t, "reader")
  /\ UNCHANGED allocated

ReadFails(t) ==
  /\ pc[t] = "read_page_entry" /\ spins[t] = 0
  /\ Leave(t, "idle")
  /\ UNCHANGED <<entry, allocated, node>>

-------------------------------------------------------------------------------
(* write_page_entry.                                                       *)

write_page_entry(t) ==
  /\ allocated /\ pc[t] = "idle"
  /\ Enter(t, "write_page_entry")

\* Mutant of WriteLocked: a sole reader does not keep the writer out.
WriteLockedBesideReader(t) ==
  /\ Running(t, "write_page_entry")
  /\ seen[t].state <= 1
  /\ CompareExchange(t, set_pending_write(set_state(seen[t], WriteLockState), FALSE))
  /\ node' = [node EXCEPT ![t] = get_ref(seen[t])]
  /\ Leave(t, "writer")
  /\ UNCHANGED allocated

WriteLocked(t) ==
  /\ Running(t, "write_page_entry")
  /\ seen[t].state = 0
  /\ CompareExchange(t, set_pending_write(set_state(seen[t], WriteLockState), FALSE))
  /\ node' = [node EXCEPT ![t] = get_ref(seen[t])]
  /\ Leave(t, "writer")
  /\ UNCHANGED allocated

\* The pending bit goes up, and the loop keeps the word from before it.
WriteSetsPending(t) ==
  /\ Running(t, "write_page_entry")
  /\ seen[t].state # 0 /\ ~seen[t].pending
  /\ CompareExchange(t, set_pending_write(seen[t], TRUE))
  /\ Again(t, seen[t])

\* A reload, or a compare-exchange that failed.
WriteReload(t) ==
  /\ Running(t, "write_page_entry")
  /\ Again(t, entry)
  /\ UNCHANGED entry

\* Gives up without taking its pending bit back.
WriteFails(t) ==
  /\ pc[t] = "write_page_entry" /\ spins[t] = 0
  /\ Leave(t, "idle")
  /\ UNCHANGED <<entry, allocated, node>>

-------------------------------------------------------------------------------
(* Guards.                                                                 *)

\* Drop of a PageReadGuard: its loop recomputes from the current word until
\* the compare-exchange succeeds, so that success is the step.
drop_read(t) ==
  /\ pc[t] = "reader"
  /\ entry' = minus_one(entry)
  /\ node' = [node EXCEPT ![t] = NoNode]
  /\ Leave(t, "idle")
  /\ UNCHANGED allocated

\* Drop of a PageWriteGuard: state 0, whatever the state is.
drop_write(t) ==
  /\ pc[t] \in {"writer", "leaf_set"}
  /\ entry' = set_state(entry, 0)
  /\ node' = [node EXCEPT ![t] = NoNode]
  /\ Leave(t, "idle")
  /\ UNCHANGED allocated

upgrade(t) ==
  /\ pc[t] = "reader"
  /\ Enter(t, "upgrade")

\* The strong compare-exchange of a sole reader; the new guard keeps the
\* mapping of the old one.  The caller continues at done.
UpgradeLocked(t, done) ==
  /\ Running(t, "upgrade")
  /\ seen[t].state = 1
  /\ CompareExchange(t, set_state(seen[t], WriteLockState))
  /\ Leave(t, done)
  /\ UNCHANGED <<allocated, node>>

UpgradeReload(t) ==
  /\ Running(t, "upgrade")
  /\ seen[t].state # 1 \/ seen[t] # entry
  /\ Again(t, entry)
  /\ UNCHANGED entry

UpgradeFails(t) ==
  /\ pc[t] = "upgrade" /\ spins[t] = 0
  /\ Leave(t, "reader")
  /\ UNCHANGED <<entry, allocated, node>>

\* downgrade: load, then a blind store of what was loaded with state 1.  A public
\* method; its one caller, TmpPageWrite, is itself used by nothing.
downgrade(t) ==
  /\ pc[t] = "writer"
  /\ Enter(t, "downgrade")

\* Mutant of DowngradeStore: the reader is not counted.
DowngradeUncounted(t) ==
  /\ pc[t] = "downgrade"
  /\ entry' = set_state(seen[t], 0)
  /\ Leave(t, "reader")
  /\ UNCHANGED <<allocated, node>>

DowngradeStore(t) ==
  /\ pc[t] = "downgrade"
  /\ entry' = set_state(seen[t], 1)
  /\ Leave(t, "reader")
  /\ UNCHANGED <<allocated, node>>

\* Mutant of set_mini_page: the guard keeps the mapping it had.
set_mini_page_stale(t, a) ==
  /\ pc[t] = "writer" /\ node[t].leaf
  /\ entry' = new_write_locked(a)
  /\ UNCHANGED <<allocated, pc, seen, spins, node>>

\* set_mini_page: the promotion of a leaf stores a fresh write-locked word.
set_mini_page(t, a) ==
  /\ pc[t] = "writer" /\ node[t].leaf
  /\ entry' = new_write_locked(a)
  /\ node' = [node EXCEPT ![t] = get_ref(entry')]
  /\ UNCHANGED <<allocated, pc, seen, spins>>

\* set_leaf: eviction stores an unlocked word while the guard lives on.
set_leaf(t, a) ==
  /\ t \in Evictors
  /\ pc[t] = "writer" /\ ~node[t].leaf
  /\ entry' = leaf_entry(a)
  /\ node' = [node EXCEPT ![t] = get_ref(entry')]
  /\ Leave(t, "leaf_set")
  /\ UNCHANGED allocated

-------------------------------------------------------------------------------
\* What a thread inside a loop or between two steps of one call does next.
Step(t) ==
  \/ ReadPending(t) \/ ReadReload(t) \/ ReadLocked(t) \/ ReadFails(t)
  \/ WriteLocked(t) \/ WriteSetsPending(t) \/ WriteReload(t) \/ WriteFails(t)
  \/ UpgradeLocked(t, "writer") \/ UpgradeReload(t) \/ UpgradeFails(t)
  \/ DowngradeStore(t)

\* What a thread may call.
Call(t) ==
  \/ read_page_entry(t) \/ write_page_entry(t)
  \/ upgrade(t) \/ downgrade(t)
  \/ drop_read(t) \/ drop_write(t)
  \/ \E a \in Addrs : create_page_entry(t, a) \/ set_mini_page(t, a) \/ set_leaf(t, a)

Next ==
  \/ \E a \in Addrs : init_leaf_entry(a)
  \/ \E t \in Threads : Call(t) \/ Step(t)

Spec == Init /\ [][Next]_vars

\* A thread the scheduler runs goes on with the call it is in.
FairSpec == Spec /\ \A t \in Threads : WF_vars(Step(t))

-------------------------------------------------------------------------------
(* Properties.                                                             *)

\* Every variable has its shape; the lock state never leaves its 14 bits.
TypeOK ==
  /\ entry \in Entries
  /\ allocated \in BOOLEAN
  /\ pc \in [Threads -> States]
  /\ seen \in [Threads -> Entries]
  /\ spins \in [Threads -> 0..SpinRetries]
  /\ node \in [Threads -> Nodes]

\* Many readers or one writer: no thread holds a guard of the page beside a
\* PageWriteGuard, what the unsafe accesses to mini-pages rely on
\* (page_op.rs "we hold the write lock for this node").
Exclusion == \A t \in Writers : Writers = {t} /\ Readers = {}

\* The lock state counts the guards: WriteLockState under a writer, the number
\* of readers otherwise, so that a drop never borrows below zero, and
\* WriteLockState readers look like a writer to everybody.
LockStateCounts ==
  entry.state = IF Writers = {} THEN Cardinality(Readers) ELSE WriteLockState

\* The mapping a guard was built with is the mapping of the page for as long as
\* the guard lives, also across upgrade, which keeps the mapping of the read
\* guard, and downgrade, which stores a word loaded earlier.
GuardNodeFresh == \A t \in Readers \cup Writers : node[t] = get_ref(entry)

\* Between the load and the blind store of downgrade only the pending bit
\* changes (map_table.rs "the only concurrent modification could be setting
\* writer pending").  No operation of the program calls downgrade yet: this is
\* what a first caller may rely on.
DowngradeLosesOnlyPending ==
  \A t \in Threads :
    pc[t] = "downgrade" => entry = set_pending_write(seen[t], entry.pending)

\* Every call of read_page_entry, write_page_entry and upgrade returns, also
\* when two readers wait for each other to upgrade: the retries are bounded.
CallsReturn ==
  \A t \in Threads :
    pc[t] \in {"read_page_entry", "write_page_entry", "upgrade", "downgrade"}
      ~> pc[t] \in {"idle", "reader", "writer"}

\* The word implements the reader-writer lock its guards stand for.
Lock == INSTANCE PageLock WITH readers <- Readers, writers <- Writers
LockRefined == Lock!LockSpec

\* A page has an entry once it was created (CHANGELOG.md: has_entry "lets replay
\* skip unused slots safely"; range_scan skips the slots without one).
PageHasEntry == allocated => has_entry

\* The pending bit says that a writer waits for the page.
PendingMeansWaiting ==
  entry.pending => \E t \in Threads : pc[t] = "write_page_entry"
===============================================================================
