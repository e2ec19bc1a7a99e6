--------------------------- MODULE LockManagerProofs ---------------------------
(***************************************************************************)
(* Proof that two transactions never hold write guards of one page at a    *)
(* time.  The lock state no longer counts the guards, because ensure_write *)
(* takes one more from it than it should; what remains is a low-water mark *)
(* that keeps it above the two values at which a second writer gets in.    *)
(***************************************************************************)
EXTENDS LockManager, MapTableProofs

USE DEF States

\* The inductive invariant.
WriterInv == TypeOK /\ UnallocatedIdle /\ OneWriter /\ LowWater

\* How many threads may have taken one from the lock state of a writer.
LEMMA Counting ==
  ASSUME NEW t \in Threads
  PROVE  /\ Cardinality(NotReading(t)) \in Nat
         /\ Cardinality(NotReading(t)) + 3 <= WriteLockState
         /\ \A u : IsFiniteSet(NotReading(t)) /\
              /\ Cardinality(NotReading(t) \ {u}) =
                   IF u \in NotReading(t) THEN Cardinality(NotReading(t)) - 1
                                          ELSE Cardinality(NotReading(t))
              /\ Cardinality(NotReading(t) \cup {u}) =
                   IF u \in NotReading(t) THEN Cardinality(NotReading(t))
                                          ELSE Cardinality(NotReading(t)) + 1
PROOF
<1>1. IsFiniteSet(Threads \ {t}) /\ Cardinality(Threads \ {t}) = Cardinality(Threads) - 1
  BY ThreadsAssumption, FS_RemoveElement
<1>2. NotReading(t) \subseteq Threads \ {t}
  BY DEF NotReading
<1>3. IsFiniteSet(NotReading(t)) /\ Cardinality(NotReading(t)) <= Cardinality(Threads) - 1
  BY <1>1, <1>2, FS_Subset
<1>4. Cardinality(NotReading(t)) \in Nat /\ Cardinality(Threads) \in Nat
  BY <1>3, ThreadsAssumption, FS_CardinalityType
<1>5. Cardinality(NotReading(t)) + 3 <= WriteLockState
  BY <1>3, <1>4, ManyStates, LockStateAssumption
<1> QED BY <1>3, <1>4, <1>5, FS_RemoveElement, FS_AddElement

\* Under a writer the lock state is at least 2, so no writer gets in and no drop
\* borrows.
LEMMA AtLeastTwo ==
  ASSUME WriterInv, NEW t \in Writers
  PROVE  entry.state >= 2
PROOF
<1>1. t \in Threads
  BY DEF Writers
<1>2. entry.state \in Nat /\ WriteLockState \in Nat
  BY LockStateAssumption DEF WriterInv, TypeOK, Entries
<1>3. entry.state + Cardinality(NotReading(t)) >= WriteLockState - 1
  BY <1>1, <1>2, Counting, LockStateAssumption DEF WriterInv, LowWater
<1> QED BY <1>1, <1>2, <1>3, Counting

\* The types of the two steps the lock manager adds.
LEMMA LMType ==
  ASSUME TypeOK, NEW t \in Threads, UpgradeLocked(t, "replace") \/ ensure_write(t)
  PROVE  TypeOK'
PROOF
<1>1. /\ seen[t] \in Entries /\ entry \in Entries /\ Zero \in Entries
      /\ WriteLockState \in 0..WriteLockState /\ 0 \in 0..SpinRetries
  BY WordTypes, LockStateAssumption, SpinAssumption DEF TypeOK
<1>2. entry' \in Entries
  BY <1>1, WordTypes DEF UpgradeLocked, CompareExchange, ensure_write
<1>3. CASE UpgradeLocked(t, "replace")
  BY <1>1, <1>2, <1>3 DEF UpgradeLocked, Leave, TypeOK
<1>4. CASE ensure_write(t)
  BY <1>1, <1>2, <1>4 DEF ensure_write, Leave, TypeOK
<1> QED BY <1>3, <1>4

\* A step that moves no guard and keeps the lock state keeps the invariant.
LEMMA LMQuiet ==
  ASSUME WriterInv, TypeOK', UnallocatedIdle', entry'.state = entry.state,
         Readers' = Readers, Writers' = Writers,
         \A t \in Writers : pc'[t] = pc[t]
  PROVE  WriterInv'
PROOF
<1>1. \A t \in Writers : NotReading(t)' = NotReading(t)
  BY DEF NotReading
<1> QED BY <1>1 DEF WriterInv, OneWriter, LowWater

\* A reader may get in beside a writer; it gives back the one it takes.
LEMMA LMReadLocked ==
  ASSUME WriterInv, TypeOK', UnallocatedIdle', NEW u \in Threads, ReadLocked(u)
  PROVE  WriterInv'
PROOF
<1> USE DEF WriterInv
<1>1. u \notin Readers /\ u \notin Writers /\ pc[u] = "read_page_entry"
  BY DEF ReadLocked, Running, Readers, Writers
<1>2. Readers' = Readers \cup {u} /\ Writers' = Writers
  <2>1. Readers' = Readers \cup {u} /\ Writers' = Writers \ {u}
    BY Moves DEF ReadLocked, Leave
  <2> QED BY <1>1, <2>1
<1>3. entry'.state = entry.state + 1 /\ entry.state \in Nat
  BY LockStateAssumption, StateFields DEF ReadLocked, CompareExchange, TypeOK, Entries
<1>4. ASSUME NEW t \in Writers'
      PROVE  entry'.state + Cardinality(NotReading(t)')
               >= WriteLockState - (IF pc'[t] = "replace" THEN 0 ELSE 1)
  <2>1. t \in Writers /\ t \in Threads /\ t # u
    BY <1>1, <1>2 DEF Writers
  <2>2. pc'[t] = pc[t]
    BY <2>1 DEF ReadLocked, Leave, TypeOK
  <2>3. NotReading(t)' = NotReading(t) \ {u} /\ u \in NotReading(t)
    BY <1>1, <1>2, <2>1 DEF NotReading
  <2>4. Cardinality(NotReading(t)') = Cardinality(NotReading(t)) - 1
    BY <2>1, <2>3, Counting
  <2>5. entry.state + Cardinality(NotReading(t))
               >= WriteLockState - (IF pc[t] = "replace" THEN 0 ELSE 1)
    BY <2>1 DEF LowWater
  <2> QED BY <1>3, <2>1, <2>2, <2>4, <2>5, Counting, LockStateAssumption
<1> QED BY <1>2, <1>4 DEF OneWriter, LowWater

\* A reader that leaves joins the threads that may have taken one.
LEMMA LMDropRead ==
  ASSUME WriterInv, TypeOK', UnallocatedIdle', NEW u \in Threads, drop_read(u)
  PROVE  WriterInv'
PROOF
<1> USE DEF WriterInv
<1>1. u \in Readers /\ u \notin Writers
  BY DEF drop_read, Readers, Writers
<1>2. Readers' = Readers \ {u} /\ Writers' = Writers
  <2>1. Readers' = Readers \ {u} /\ Writers' = Writers \ {u}
    BY Moves DEF drop_read, Leave
  <2> QED BY <1>1, <2>1
<1>3. ASSUME NEW t \in Writers'
      PROVE  entry'.state + Cardinality(NotReading(t)')
               >= WriteLockState - (IF pc'[t] = "replace" THEN 0 ELSE 1)
  <2>1. t \in Writers /\ t \in Threads /\ t # u
    BY <1>1, <1>2 DEF Writers
  <2>2. pc'[t] = pc[t]
    BY <2>1 DEF drop_read, Leave, TypeOK
  <2>3. NotReading(t)' = NotReading(t) \cup {u} /\ u \notin NotReading(t)
    BY <1>1, <1>2, <2>1 DEF NotReading
  <2>4. Cardinality(NotReading(t)') = Cardinality(NotReading(t)) + 1
    BY <2>1, <2>3, Counting
  <2>5. entry.state + Cardinality(NotReading(t))
               >= WriteLockState - (IF pc[t] = "replace" THEN 0 ELSE 1)
    BY <2>1 DEF LowWater
  <2>6. entry.state >= 2 /\ entry.state \in Nat
    BY <2>1, AtLeastTwo, LockStateAssumption DEF TypeOK, Entries
  <2>7. entry' = set_state(entry, entry.state - 1)
    BY <2>6 DEF drop_read, minus_one
  <2>8. entry'.state = entry.state - 1
    BY <2>7, StateFields
  <2> QED BY <2>1, <2>2, <2>4, <2>5, <2>6, <2>8, Counting, LockStateAssumption
<1> QED BY <1>2, <1>3 DEF OneWriter, LowWater

\* ensure_write takes its one when it replaces the read guard of its slot.
LEMMA LMEnsureWrite ==
  ASSUME WriterInv, TypeOK', UnallocatedIdle', NEW u \in Threads, ensure_write(u)
  PROVE  WriterInv'
PROOF
<1> USE DEF WriterInv
<1>1. u \in Writers /\ u \notin Readers /\ Writers = {u} /\ pc[u] = "replace"
  BY DEF ensure_write, Readers, Writers, OneWriter
<1>2. Readers' = Readers /\ Writers' = {u} /\ pc'[u] = "writer"
  <2>1. Readers' = Readers \ {u} /\ Writers' = Writers \cup {u} /\ pc'[u] = "writer"
    BY Moves DEF ensure_write, Leave
  <2> QED BY <1>1, <2>1
<1>3. entry.state >= 2 /\ entry.state \in Nat
  BY <1>1, AtLeastTwo, LockStateAssumption DEF TypeOK, Entries
<1>4. entry' = set_state(entry, entry.state - 1)
  BY <1>3 DEF ensure_write, minus_one
<1>5. entry'.state = entry.state - 1
  BY <1>4, StateFields
<1>6. NotReading(u)' = NotReading(u)
  BY <1>2 DEF NotReading
<1>7. entry.state + Cardinality(NotReading(u)) >= WriteLockState
  BY <1>1, LockStateAssumption DEF LowWater
<1>8. LowWater'
  BY <1>2, <1>3, <1>5, <1>6, <1>7, Counting, LockStateAssumption DEF LowWater
<1> QED BY <1>2, <1>8 DEF OneWriter

\* A new writer finds the lock state 0 or 1, so there is no other.
LEMMA LMNewWriter ==
  ASSUME WriterInv, TypeOK', UnallocatedIdle', NEW u \in Threads,
         \/ WriteLocked(u)
         \/ UpgradeLocked(u, "replace")
         \/ \E a \in Addrs : create_page_entry(u, a)
  PROVE  WriterInv'
PROOF
<1> USE DEF WriterInv
<1>1. Writers = {}
  <2>1. CASE WriteLocked(u) \/ UpgradeLocked(u, "replace")
    <3>1. entry.state \in {0, 1}
      BY <2>1 DEF WriteLocked, UpgradeLocked, CompareExchange
    <3>2. \A t \in Writers : entry.state >= 2
      BY AtLeastTwo
    <3> QED BY <3>1, <3>2
  <2>2. CASE \E a \in Addrs : create_page_entry(u, a)
    BY <2>2 DEF create_page_entry, UnallocatedIdle, Writers
  <2> QED BY <2>1, <2>2
<1>2. Writers' = {u}
  <2>1. \E x \in {"writer", "replace"} : pc' = [pc EXCEPT ![u] = x]
    BY DEF WriteLocked, UpgradeLocked, create_page_entry, Leave
  <2> QED BY <1>1, <2>1 DEF Writers, TypeOK
<1>3. entry'.state = WriteLockState
  <2>1. CASE WriteLocked(u)
    <3> DEFINE e == set_state(seen[u], WriteLockState)
    <3>1. entry' = set_pending_write(e, FALSE)
      BY <2>1 DEF WriteLocked, CompareExchange
    <3>2. entry'.state = e.state
      BY <3>1, PendingFields, Zenon
    <3>3. e.state = WriteLockState
      BY StateFields, Zenon
    <3> QED BY <3>2, <3>3
  <2>2. CASE UpgradeLocked(u, "replace")
    BY <2>2, StateFields DEF UpgradeLocked, CompareExchange
  <2>3. CASE \E a \in Addrs : create_page_entry(u, a)
    BY <2>3 DEF create_page_entry, new_write_locked
  <2> QED BY <2>1, <2>2, <2>3
<1>4. Cardinality(NotReading(u)') \in Nat
  <2>1. NotReading(u)' \subseteq Threads
    BY DEF NotReading
  <2> QED BY <2>1, ThreadsAssumption, FS_Subset, FS_CardinalityType
<1>5. LowWater'
  BY <1>2, <1>3, <1>4, LockStateAssumption DEF LowWater
<1> QED BY <1>2, <1>5 DEF OneWriter

\* Promotion restores the full lock state; the end of a writer leaves none.
LEMMA LMPromoteOrEnd ==
  ASSUME WriterInv, TypeOK', UnallocatedIdle', NEW u \in Threads,
         drop_write(u) \/ \E a \in Addrs : set_mini_page(u, a)
  PROVE  WriterInv'
PROOF
<1> USE DEF WriterInv
<1>1. Writers = {u}
  BY DEF drop_write, set_mini_page, Writers, OneWriter
<1>2. CASE drop_write(u)
  <2>1. Writers' = {}
    BY <1>1, <1>2, Moves DEF drop_write, Leave
  <2> QED BY <2>1 DEF OneWriter, LowWater
<1>3. CASE \E a \in Addrs : set_mini_page(u, a)
  <2>1. Writers' = {u} /\ pc'[u] # "replace"
    BY <1>1, <1>3 DEF set_mini_page, Writers
  <2>2. entry'.state = WriteLockState
    BY <1>3 DEF set_mini_page, new_write_locked
  <2>3. Cardinality(NotReading(u)') \in Nat
    <3>1. NotReading(u)' \subseteq Threads
      BY DEF NotReading
    <3> QED BY <3>1, ThreadsAssumption, FS_Subset, FS_CardinalityType
  <2>4. LowWater'
    BY <2>1, <2>2, <2>3, LockStateAssumption DEF LowWater
  <2> QED BY <2>1, <2>4 DEF OneWriter
<1> QED BY <1>2, <1>3

\* Loop iterations, entering a loop, giving up and setting the pending bit move
\* no guard and keep the lock state.
LEMMA LMLoops ==
  ASSUME WriterInv, TypeOK', UnallocatedIdle', NEW u \in Threads,
         \/ ReadPending(u) \/ ReadReload(u) \/ WriteReload(u) \/ UpgradeReload(u)
         \/ WriteSetsPending(u)
         \/ ReadFails(u) \/ WriteFails(u) \/ UpgradeFails(u)
         \/ read_page_entry(u) \/ write_page_entry(u) \/ upgrade(u)
  PROVE  WriterInv'
PROOF
<1> USE DEF WriterInv
<1>1. CASE ReadPending(u) \/ ReadReload(u) \/ WriteReload(u) \/ UpgradeReload(u)
  <2>1. entry' = entry /\ pc' = pc
    BY <1>1 DEF ReadPending, ReadReload, WriteReload, UpgradeReload, Again
  <2> QED BY <2>1, LMQuiet DEF Readers, Writers
<1>2. CASE WriteSetsPending(u)
  <2>1. entry'.state = entry.state /\ pc' = pc
    BY <1>2, PendingFields DEF WriteSetsPending, CompareExchange, Again
  <2> QED BY <2>1, LMQuiet DEF Readers, Writers
<1>3. CASE ReadFails(u) \/ WriteFails(u) \/ UpgradeFails(u)
  <2>1. /\ entry' = entry /\ u \notin Writers
        /\ \A t \in Threads : t # u => pc'[t] = pc[t]
    BY <1>3 DEF ReadFails, WriteFails, UpgradeFails, Leave, TypeOK, Writers
  <2>2. Readers' = Readers /\ Writers' = Writers
    BY <1>3 DEF ReadFails, WriteFails, UpgradeFails, Leave, Readers, Writers, TypeOK
  <2> QED BY <2>1, <2>2, LMQuiet DEF Writers
<1>4. CASE read_page_entry(u) \/ write_page_entry(u) \/ upgrade(u)
  <2>1. /\ entry' = entry /\ u \notin Writers
        /\ \A t \in Threads : t # u => pc'[t] = pc[t]
    BY <1>4 DEF read_page_entry, write_page_entry, upgrade, Enter, TypeOK, Writers
  <2>2. Readers' = Readers /\ Writers' = Writers
    BY <1>4 DEF read_page_entry, write_page_entry, upgrade, Enter, Readers, Writers, TypeOK
  <2> QED BY <2>1, <2>2, LMQuiet DEF Writers
<1> QED BY <1>1, <1>2, <1>3, <1>4

\* The type and the idleness of a page not created yet.
LEMMA LMShape ==
  ASSUME TypeOK, UnallocatedIdle, [LMNext]_vars
  PROVE  TypeOK' /\ UnallocatedIdle'
PROOF
<1>1. CASE [Next]_vars
  BY <1>1, NextType, IdleKept
<1>2. ASSUME NEW t \in Threads, UpgradeLocked(t, "replace") \/ ensure_write(t)
      PROVE  TypeOK' /\ UnallocatedIdle'
  <2>1. allocated' = allocated /\ pc[t] # "idle"
    BY <1>2 DEF UpgradeLocked, ensure_write, Running
  <2> QED BY <1>2, <2>1, LMType DEF UnallocatedIdle
<1>3. ASSUME NEW t \in Threads,
             \/ get_or_acquire_read_lock(t) \/ get_upgrade_or_acquire_write_lock(t)
             \/ insert_write_lock(t) \/ EndTx(t)
             \/ \E a \in Addrs : set_mini_page(t, a)
      PROVE  Next
  BY <1>3, Zenon DEF get_or_acquire_read_lock, get_upgrade_or_acquire_write_lock,
                     insert_write_lock, EndTx, Next, Call
<1>4. ASSUME NEW t \in Threads, LMStep(t)
      PROVE  Next \/ UpgradeLocked(t, "replace") \/ ensure_write(t)
  BY <1>4, Zenon DEF LMStep, Step, Next
<1>5. ASSUME NEW a \in Addrs, init_leaf_entry(a) PROVE Next
  BY <1>5 DEF Next
<1> QED BY <1>1, <1>2, <1>3, <1>4, <1>5, Zenon DEF LMNext

\* The inductive step.
LEMMA LMNextKeepsInv == WriterInv /\ [LMNext]_vars => WriterInv'
PROOF
<1> SUFFICES ASSUME WriterInv, [LMNext]_vars PROVE WriterInv'
  OBVIOUS
<1>1. TypeOK' /\ UnallocatedIdle'
  BY LMShape DEF WriterInv
<1>2. ASSUME NEW t \in Threads,
             \/ get_or_acquire_read_lock(t) \/ get_upgrade_or_acquire_write_lock(t)
             \/ insert_write_lock(t) \/ EndTx(t) \/ LMStep(t)
             \/ \E a \in Addrs : set_mini_page(t, a)
      PROVE  WriterInv'
  BY <1>1, <1>2, LMLoops, LMReadLocked, LMDropRead, LMEnsureWrite, LMNewWriter,
     LMPromoteOrEnd, Zenon
     DEF get_or_acquire_read_lock, get_upgrade_or_acquire_write_lock,
         insert_write_lock, EndTx, LMStep
<1>3. ASSUME NEW a \in Addrs, init_leaf_entry(a) PROVE WriterInv'
  <2>1. Writers' = {}
    BY <1>3 DEF init_leaf_entry, WriterInv, UnallocatedIdle, Writers
  <2> QED BY <1>1, <2>1 DEF WriterInv, OneWriter, LowWater
<1>4. CASE UNCHANGED vars
  BY <1>1, <1>4, LMQuiet DEF vars, Readers, Writers
<1> QED BY <1>2, <1>3, <1>4, Zenon DEF LMNext

\* The invariant is that of the transactions.
LEMMA WriterInvHolds == LMSpec => []WriterInv
PROOF
<1>1. Init => WriterInv
  <2>1. Init => Writers = {}
    BY DEF Init, Writers
  <2> QED BY <2>1, InitInv DEF WriterInv, LockInv, OneWriter, LowWater
<1> QED BY <1>1, LMNextKeepsInv, PTL DEF LMSpec

\* However many transactions read, upgrade through ensure_write, write and end on
\* a page that nobody evicts, at most one of them holds a write guard, as long as
\* the lock state has room for them all (WriteLockState is 16383 in the code).
THEOREM AtMostOneWriter == LMSpec => []OneWriter
PROOF
<1>1. WriterInv => OneWriter
  BY DEF WriterInv
<1> QED BY WriterInvHolds, <1>1, PTL

\* What ensure_write and the readers it lets in can take from the lock state of a
\* writer is bounded by the number of transactions, while nobody evicts the page.
THEOREM LockStateStaysHigh == LMSpec => []LowWater
PROOF
<1>1. WriterInv => LowWater
  BY DEF WriterInv
<1> QED BY WriterInvHolds, <1>1, PTL
===============================================================================
