------------------------------ MODULE LockManager ------------------------------
(***************************************************************************)
(* The locks of transactions (lock_manager.rs) on one page.  A thread is a *)
(* transaction; its slot for the page holds no guard, a read guard or a    *)
(* write guard until the transaction ends.  Acquisition is map_table.rs;   *)
(* what the lock manager adds is ensure_write, which turns the read guard  *)
(* of a slot into a write guard: the upgraded guard is assigned over the   *)
(* read guard it was copied from, and the assignment drops the read guard. *)
(*                                                                         *)
(* Nobody evicts the page: set_leaf and the drop of evict's guard, which   *)
(* clear the lock state under other guards, are steps of MapTable and of   *)
(* SlotLock, not of LMNext.  With them two write guards do exist           *)
(* (Exclusion in the configuration MapTable_evict, WriterAlone of Store).  *)
(***************************************************************************)
EXTENDS MapTable

\* The 14 bits of the lock state hold more than two beyond the transactions that
\* run at a time.
ASSUME ManyStates == WriteLockState >= Cardinality(Threads) + 2

\* get_or_acquire_read_lock: the slot is used as it is when there is one.
get_or_acquire_read_lock(t) == read_page_entry(t)

\* get_upgrade_or_acquire_write_lock: acquires, or upgrades a read guard.
get_upgrade_or_acquire_write_lock(t) == write_page_entry(t) \/ upgrade(t)

\* Mutant of ensure_write: the old guard is dropped as if it were a write guard.
ensure_write_unlocks(t) ==
  /\ pc[t] = "replace"
  /\ entry' = set_state(entry, 0)
  /\ Leave(t, "writer")
  /\ UNCHANGED <<allocated, node>>

\* self.guard_inner = GuardWrapper::Write(write): the old read guard is dropped.
ensure_write(t) ==
  /\ pc[t] = "replace"
  /\ entry' = minus_one(entry)
  /\ Leave(t, "writer")
  /\ UNCHANGED <<allocated, node>>

\* insert_write_lock: the guard of a page created by this transaction.
insert_write_lock(t) == \E a \in Addrs : create_page_entry(t, a)

\* The transaction ends and the lock manager is dropped with its guards.
EndTx(t) == drop_read(t) \/ drop_write(t)

LMStep(t) ==
  \/ ReadPending(t) \/ ReadReload(t) \/ ReadLocked(t) \/ ReadFails(t)
  \/ WriteLocked(t) \/ WriteSetsPending(t) \/ WriteReload(t) \/ WriteFails(t)
  \/ UpgradeLocked(t, "replace") \/ UpgradeReload(t) \/ UpgradeFails(t)
  \/ ensure_write(t)

LMNext ==
  \/ \E a \in Addrs : init_leaf_entry(a)
  \/ \E t \in Threads :
       \/ get_or_acquire_read_lock(t)
       \/ get_upgrade_or_acquire_write_lock(t)
       \/ insert_write_lock(t)
       \/ \E a \in Addrs : set_mini_page(t, a)
       \/ EndTx(t)
       \/ LMStep(t)

LMSpec == Init /\ [][LMNext]_vars

-------------------------------------------------------------------------------
(* Properties.                                                             *)

\* Two transactions never hold write guards of one page that nobody evicts,
\* although ensure_write lets readers in beside a writer and readers can outlive it.
OneWriter == \A t, u \in Writers : t = u

NotReading(t) == Threads \ (Readers \cup {t})

\* Why: under a writer the lock state has lost at most one to ensure_write and
\* one to every other thread that holds no read guard now.  An eviction would set
\* it to 0.
LowWater ==
  \A t \in Writers :
    entry.state + Cardinality(NotReading(t))
      >= WriteLockState - (IF pc[t] = "replace" THEN 0 ELSE 1)

===============================================================================
