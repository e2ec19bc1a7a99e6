------------------------------- MODULE SlotLock -------------------------------
(***************************************************************************)
(* The lock word of one page as the slots of lock_manager.rs and eviction  *)
(* use it: one step for one change of the lock state, a call that fails    *)
(* (map_table.rs, the end of a loop) changes nothing.  It is weaker than   *)
(* PageLock.  ensure_write drops the read guard it replaced on the         *)
(* write-locked word, which lets a reader in beside the writer; the        *)
(* writer's drop sets the state to 0 whoever else holds a guard; eviction  *)
(* unlocks with set_leaf and again when its guard is dropped.  The waiting *)
(* bit only makes calls fail and is left out.                              *)
(***************************************************************************)
EXTENDS Naturals

CONSTANTS Threads, WriteLockState

ASSUME StateAssumption == WriteLockState \in Nat /\ WriteLockState >= 2

VARIABLES
  readers, writers,  \* the transactions that hold a read or a write guard
  replacing,         \* writers that still have to drop the guard they upgraded
  state,             \* the lock state
  evictor,           \* where the call of evict that has the page is
  strays             \* history: guards that have stood beside another's write guard

lockVars == <<readers, writers, replacing, state, evictor, strays>>

\* The state that a read guard dropped at 0 leaves (minus_one of MapTable).
Overrun == WriteLockState + 1

Evicting == {"flush", "unmap"}

\* Two writers, a stray that writes, or a word that was counted below 0: which bytes
\* the guards then name is not followed.
Lost == strays \cap writers # {} \/ state = Overrun

\* The guards after a step.  Those beside another's write guard are strays.
Guards(r, w, e) ==
  /\ readers' = r /\ writers' = w /\ evictor' = e
  /\ strays' = {t \in r \cup w : t \in strays \/ w \ {t} # {} \/ e \in Evicting}

minus_one == IF state = 0 THEN Overrun ELSE state - 1

LockInit ==
  /\ readers = {} /\ writers = {} /\ replacing = {}
  /\ state = 0
  /\ evictor = "none"
  /\ strays = {}

\* read_page_entry and write_page_entry, for a slot that is not there.
AcquireRead(t) ==
  /\ t \notin readers \cup writers
  /\ state < WriteLockState
  /\ state' = state + 1
  /\ Guards(readers \cup {t}, writers, evictor)
  /\ UNCHANGED replacing

AcquireWrite(t) ==
  /\ t \notin readers \cup writers
  /\ state = 0
  /\ state' = WriteLockState
  /\ Guards(readers, writers \cup {t}, evictor)
  /\ UNCHANGED replacing

\* PageReadGuard::upgrade.
Upgrade(t) ==
  /\ t \in readers
  /\ state = 1
  /\ state' = WriteLockState
  /\ replacing' = replacing \cup {t}
  /\ Guards(readers \ {t}, writers \cup {t}, evictor)

\* The assignment in ensure_write: the old read guard is dropped.
ensure_write(t) ==
  /\ t \in replacing
  /\ state' = minus_one
  /\ replacing' = replacing \ {t}
  /\ UNCHANGED <<readers, writers, evictor, strays>>

\* set_mini_page: the whole word is stored.
SetMiniPage ==
  /\ state' = WriteLockState
  /\ UNCHANGED <<readers, writers, replacing, evictor, strays>>

\* The drop of a PageReadGuard and of a PageWriteGuard.
ReleaseRead(t) ==
  /\ t \in readers
  /\ state' = minus_one
  /\ Guards(readers \ {t}, writers, evictor)
  /\ UNCHANGED replacing

ReleaseWrite(t) ==
  /\ t \in writers
  /\ state' = 0
  /\ Guards(readers, writers \ {t}, evictor)
  /\ UNCHANGED replacing

\* evict: write_page_entry, then set_leaf, then the drop of its guard.
EvictLock ==
  /\ evictor = "none"
  /\ state = 0
  /\ state' = WriteLockState
  /\ Guards(readers, writers, "flush")
  /\ UNCHANGED replacing

SetLeaf ==
  /\ state' = 0
  /\ Guards(readers, writers, "drop")
  /\ UNCHANGED replacing

EvictDrop ==
  /\ evictor = "drop"
  /\ state' = 0
  /\ Guards(readers, writers, "none")
  /\ UNCHANGED replacing
===============================================================================
